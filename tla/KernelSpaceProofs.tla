--------------------------- MODULE KernelSpaceProofs ---------------------------
(***************************************************************************)
(* Proofs for KernelSpace: for every size of tables, heap, memory and      *)
(* module and any number of directories, all processes see one heap, no    *)
(* frame has two uses, and no stale translation is used.                   *)
(***************************************************************************)
EXTENDS KernelSpace, FiniteSetTheorems, WellFoundedInduction, TLAPS

Pages == 0 .. MaxPage
MaybeFrame == Frames \cup {None}
TableEntries == 0 .. Entries - 1

TablesTyped ==
    /\ pdes \in [DOMAIN pdes -> [Slots -> DOMAIN tables \cup {None}]]
    /\ tables \in [DOMAIN tables -> [TableEntries -> MaybeFrame]]
    /\ KernelTable \in DOMAIN tables /\ DOMAIN tables \subseteq Frames
    /\ Boot \in DOMAIN pdes /\ cr3 \in DOMAIN pdes

HeapTyped ==
    /\ heapEnd \in Nat /\ HeapStart <= heapEnd
    /\ heapEnd <= MaxPage + 1 \/ heapEnd = HeapStart
    /\ backing \in [HeapPages -> Frames]
    /\ used \subseteq Frames /\ Reserved \subseteq used

\* A table is in one place of one directory, but for the kernel's, which is
\* first in all of them.
TablesOwned ==
    /\ \A d \in DOMAIN pdes : pdes[d][0] = KernelTable
    /\ \A d, e \in DOMAIN pdes, r, s \in Slots :
        pdes[d][r] = pdes[e][s] /\ pdes[d][r] # None => r = s /\ (d = e \/ r = 0)

\* OneHeap, and that nothing behind the heap is mapped.
Mapped ==
    \A d \in DOMAIN pdes, p \in Pages :
        /\ Walk(d, p) = None \/ (p \in HeapPages /\ Walk(d, p) = backing[p])
        /\ p \in HeapPages /\ SlotOf(p) = 0 => Walk(d, p) = backing[p]

\* While the module is loaded there is one directory, which maps the whole heap.
Loading ==
    /\ phase \in {"boot", "temp", "remap", "run"} /\ temp \in Nat /\ remapped \in Nat
    /\ phase # "run" =>
        /\ DOMAIN pdes = {Boot} /\ cr3 = Boot
        /\ \A p \in HeapPages : Walk(Boot, p) = backing[p]

\* How far the temporary pages are exchanged for the module's.
Exchanged ==
    /\ phase \in {"boot", "temp"} => remapped = 0
    /\ phase \in {"temp", "remap"} => HeapStart <= temp
    /\ phase = "temp" => temp <= heapEnd /\ heapEnd <= temp + ModulePages
    /\ phase = "remap" => heapEnd = temp + ModulePages + 1 /\ remapped < ModulePages
    /\ \A p \in HeapPages :
        backing[p] \in Reserved => p \in temp .. temp + remapped - 1 /\ backing[p] = Module(p - temp)
    /\ DOMAIN tables \cap Reserved = {KernelTable}

\* Nothing is cached of a temporary page before it is exchanged.
CacheWhere ==
    \A p \in DOMAIN tlb : p \in HeapPages /\ p \notin Untouched /\ tlb[p] # None

IInv ==
    /\ TablesTyped /\ HeapTyped /\ TablesOwned /\ Mapped /\ Loading /\ Exchanged
    /\ CacheWhere /\ CacheCoherent /\ OwnFrames /\ FaultsOnlyBeyond

-------------------------------------------------------------------------------
(* Page numbers and frames *)

LEMMA ProductsOrdered ==
  ASSUME NEW x \in Int, NEW y \in Int, NEW k \in Nat, x <= y
  PROVE  x * k <= y * k
<1>1. (y - x) * k >= 0 OBVIOUS
<1>2. (y - x) * k = y * k - x * k OBVIOUS
<1>3. x * k \in Int /\ y * k \in Int OBVIOUS
<1> QED BY <1>1, <1>2, <1>3

\* A page has a slot and an entry, which name it.
LEMMA PageParts ==
  ASSUME NEW p \in Nat
  PROVE  /\ SlotOf(p) \in Nat /\ EntryOf(p) \in TableEntries
         /\ p = Entries * SlotOf(p) + EntryOf(p)
<1> DEFINE q == p \div Entries  r == p % Entries
<1>1. Entries \in Nat /\ Entries > 0 BY SpaceAssumption
<1>2. q \in Int /\ r \in 0 .. Entries - 1 /\ p = Entries * q + r BY <1>1, SMT
<1>3. q >= 0
  <2> SUFFICES ASSUME q <= -1 PROVE FALSE BY <1>2
  <2>1. q * Entries <= (-1) * Entries BY <1>1, <1>2, ProductsOrdered
  <2> QED BY <2>1, <1>1, <1>2
<1> QED BY <1>1, <1>2, <1>3 DEF SlotOf, EntryOf, TableEntries

LEMMA PageNamed ==
  ASSUME NEW p \in Nat, NEW q \in Nat, SlotOf(p) = SlotOf(q), EntryOf(p) = EntryOf(q)
  PROVE  p = q
BY PageParts

LEMMA SlotsOrdered ==
  ASSUME NEW p \in Nat, NEW q \in Nat, p <= q
  PROVE  SlotOf(p) <= SlotOf(q)
<1>1. Entries \in Nat /\ Entries > 0 BY SpaceAssumption
<1> SUFFICES ASSUME SlotOf(q) + 1 <= SlotOf(p) PROVE FALSE BY PageParts
<1>2. (SlotOf(q) + 1) * Entries <= SlotOf(p) * Entries BY <1>1, PageParts, ProductsOrdered
<1>3. (SlotOf(q) + 1) * Entries = Entries * SlotOf(q) + Entries /\ SlotOf(p) * Entries = Entries * SlotOf(p)
  BY <1>1, PageParts
<1>4. EntryOf(q) < Entries /\ EntryOf(p) >= 0 /\ EntryOf(q) \in Int /\ EntryOf(p) \in Int
  BY <1>1, PageParts DEF TableEntries
<1>5. Entries * SlotOf(q) \in Int /\ Entries * SlotOf(p) \in Int BY <1>1, PageParts
<1> QED BY <1>1, <1>2, <1>3, <1>4, <1>5, PageParts

LEMMA PageInSlots ==
  ASSUME NEW p \in Pages
  PROVE  p \in Nat /\ SlotOf(p) \in Slots /\ EntryOf(p) \in TableEntries
<1>1. MaxPage \in Nat /\ p \in Nat /\ p <= MaxPage BY SpaceAssumption DEF Pages
<1>2. SlotOf(p) <= SlotOf(MaxPage) /\ SlotOf(p) \in Nat /\ SlotOf(MaxPage) \in Nat
  BY <1>1, SlotsOrdered, PageParts
<1> QED BY <1>1, <1>2, PageParts DEF Slots

LEMMA FirstSlot == 0 \in Slots
BY SpaceAssumption, PageParts DEF Slots

\* The pages of the kernel's table.
LEMMA BehindFirstSlot ==
  ASSUME NEW p \in Nat, SlotOf(p) # 0
  PROVE  p >= Entries
<1>1. Entries \in Nat /\ Entries > 0 BY SpaceAssumption
<1>2. SlotOf(p) >= 1 BY PageParts
<1>3. 1 * Entries <= SlotOf(p) * Entries BY <1>1, <1>2, PageParts, ProductsOrdered
<1>4. SlotOf(p) * Entries = Entries * SlotOf(p) /\ Entries * SlotOf(p) \in Int BY <1>1, PageParts
<1> QED BY <1>1, <1>3, <1>4, PageParts DEF TableEntries

\* A set of numbers has a least one: the one below which fewest lie.
LEMMA Least ==
  ASSUME NEW T \in SUBSET Nat, T # {}
  PROVE  Min(T) \in T
<1> DEFINE UpTo(x) == T \cap (0 .. x)
           family == {UpTo(x) : x \in T}
<1>1. family \subseteq FiniteSubsetsOf(Nat)
  <2> SUFFICES ASSUME NEW x \in T PROVE UpTo(x) \in FiniteSubsetsOf(Nat) OBVIOUS
  <2>1. IsFiniteSet(0 .. x) BY FS_Interval
  <2>2. IsFiniteSet(UpTo(x)) BY <2>1, FS_Subset
  <2> QED BY <2>2 DEF FiniteSubsetsOf
<1>2. IsWellFoundedOn(StrictSubsetOrdering(Nat), FiniteSubsetsOf(Nat)) BY FS_StrictSubsetOrderingWellFounded
<1>3. family # {} OBVIOUS
<1>4. PICK least \in family : \A other \in family : ~(<<other, least>> \in StrictSubsetOrdering(Nat))
  <2> HIDE DEF family
  <2> QED BY <1>1, <1>2, <1>3, WFMin
<1>5. PICK m \in T : least = UpTo(m) BY <1>4
<1>6. ASSUME NEW y \in T PROVE m <= y
  <2> SUFFICES ASSUME y < m PROVE FALSE OBVIOUS
  <2>1. UpTo(y) \subseteq UpTo(m) /\ m \in UpTo(m) /\ m \notin UpTo(y) OBVIOUS
  <2>2. UpTo(y) \in SUBSET Nat /\ UpTo(m) \in SUBSET Nat /\ UpTo(y) # UpTo(m) BY <2>1
  <2>3. <<UpTo(y), UpTo(m)>> \in StrictSubsetOrdering(Nat)
    <3> HIDE DEF UpTo
    <3> QED BY <2>1, <2>2 DEF StrictSubsetOrdering
  <2>4. UpTo(y) \in family OBVIOUS
  <2> HIDE DEF UpTo, family
  <2> QED BY <1>4, <1>5, <2>3, <2>4
<1> QED BY <1>6 DEF Min

LEMMA NextFrameIsFree ==
  ASSUME NEW u, Frames \ u # {}
  PROVE  NextFrame(u) \in Frames \ u
<1>1. Frames \ u \in SUBSET Nat BY SpaceAssumption DEF Frames
<1>2. ~(Frames \subseteq u) OBVIOUS
<1> QED BY <1>1, <1>2, Least DEF NextFrame

LEMMA ReservedFrames ==
  /\ Reserved \subseteq Frames /\ KernelTable \in Reserved /\ None \notin Frames
  /\ \A i \in 0 .. ModulePages - 1 :
      Module(i) \in Reserved /\ Module(i) # KernelTable
BY SpaceAssumption DEF Reserved, Frames, KernelTable, None, Module
-------------------------------------------------------------------------------
(* map_page *)

\* What map_page needs: a frame to map and, for a new table, another one.
MayMap(p, f, u) ==
    /\ p \in Pages /\ f \in Frames
    /\ u \subseteq Frames /\ DOMAIN tables \subseteq u
    /\ TableMissing(p) => Frames \ u # {}

LEMMA MapPageTables ==
  ASSUME TablesTyped, TablesOwned, NEW p, NEW f, NEW u, MayMap(p, f, u), MapPage(p, f, u), cr3' = cr3
  PROVE  /\ TablesTyped' /\ TablesOwned'
         /\ DOMAIN pdes' = DOMAIN pdes /\ DOMAIN tables \subseteq DOMAIN tables'
         /\ DOMAIN tables' \subseteq used' /\ used' = u \cup DOMAIN tables' /\ used' \subseteq Frames
         /\ (DOMAIN tables' \ DOMAIN tables) \cap u = {}
         /\ \A d \in DOMAIN pdes, q \in Pages :
              Walk(d, q)' = IF q = p /\ (d = cr3 \/ SlotOf(p) = 0) THEN f ELSE Walk(d, q)
<1> DEFINE t == NextFrame(u)  s == SlotOf(p)  e == EntryOf(p)
<1>1. p \in Pages /\ p \in Nat /\ s \in Slots /\ e \in TableEntries BY PageInSlots DEF MayMap
<1>2. \A q \in Pages : q \in Nat /\ SlotOf(q) \in Slots /\ EntryOf(q) \in TableEntries BY PageInSlots
<1>3. \A q \in Pages : q # p => SlotOf(q) # s \/ EntryOf(q) # e BY <1>1, <1>2, PageNamed
<1>4. f \in Frames /\ None \notin Frames BY ReservedFrames DEF MayMap
<1>5. cr3 \in DOMAIN pdes /\ Boot \in DOMAIN pdes BY DEF TablesTyped
<1>6. CASE TableMissing(p)
  <2>1. t \in Frames \ u BY <1>6, NextFrameIsFree DEF MayMap
  <2>2. t \notin DOMAIN tables /\ t # None BY <2>1, <1>4 DEF MayMap
  <2>3. s # 0
    <3>1. pdes[cr3][s] = None BY <1>6 DEF TableMissing
    <3>2. KernelTable \in Frames /\ pdes[cr3][0] = KernelTable BY <1>5, ReservedFrames DEF TablesOwned
    <3> QED BY <3>1, <3>2, <1>4
  <2>4. /\ used' = u \cup {t}
        /\ pdes' = [pdes EXCEPT ![cr3][s] = t]
        /\ tables' = [q \in DOMAIN tables \cup {t} |->
                        IF q = t THEN [NoEntries EXCEPT ![e] = f] ELSE tables[q]]
    BY <1>6 DEF MapPage
  <2>5. DOMAIN tables' = DOMAIN tables \cup {t} /\ DOMAIN pdes' = DOMAIN pdes BY <2>4
  <2>6. NoEntries \in [TableEntries -> MaybeFrame] BY DEF NoEntries, TableEntries, MaybeFrame
  <2>7. tables'[t] = [NoEntries EXCEPT ![e] = f] /\ \A q \in DOMAIN tables : tables'[q] = tables[q]
    BY <2>2, <2>4
  <2>8. \A d \in DOMAIN pdes, r \in Slots :
          pdes'[d][r] = IF d = cr3 /\ r = s THEN t ELSE pdes[d][r]
    BY <1>1, <1>5, <2>4 DEF TablesTyped
  <2>9. TablesTyped'
    <3>1. tables' \in [DOMAIN tables' -> [TableEntries -> MaybeFrame]]
      BY <1>1, <1>4, <2>4, <2>5, <2>6 DEF TablesTyped, MaybeFrame
    <3>2. pdes' \in [DOMAIN pdes' -> [Slots -> DOMAIN tables' \cup {None}]]
      BY <1>1, <1>5, <2>4, <2>5 DEF TablesTyped
    <3> QED BY <2>1, <2>5, <3>1, <3>2 DEF TablesTyped, TableEntries, MaybeFrame, Frames, Slots, SlotOf, Boot, KernelTable
  <2>10. TablesOwned'
    <3>1. \A d \in DOMAIN pdes, r \in Slots : pdes[d][r] # t
      BY <2>2 DEF TablesTyped
    <3>2. \A d \in DOMAIN pdes : pdes'[d][0] = KernelTable BY <2>3, <2>8, FirstSlot DEF TablesOwned
    <3>3. ASSUME NEW d \in DOMAIN pdes, NEW g \in DOMAIN pdes, NEW r \in Slots, NEW v \in Slots,
                 pdes'[d][r] = pdes'[g][v], pdes'[d][r] # None
          PROVE  r = v /\ (d = g \/ r = 0)
      <4>1. CASE d = cr3 /\ r = s BY <4>1, <3>1, <3>3, <2>8
      <4>2. CASE g = cr3 /\ v = s BY <4>2, <3>1, <3>3, <2>8
      <4>3. CASE ~(d = cr3 /\ r = s) /\ ~(g = cr3 /\ v = s)
        BY <4>3, <3>3, <2>8 DEF TablesOwned
      <4> QED BY <4>1, <4>2, <4>3
    <3> QED BY <2>5, <3>2, <3>3 DEF TablesOwned, Slots, SlotOf, None, KernelTable
  <2>11. ASSUME NEW d \in DOMAIN pdes, NEW q \in Pages
         PROVE  Walk(d, q)' = IF q = p /\ (d = cr3 \/ s = 0) THEN f ELSE Walk(d, q)
    <3>1. Walk(d, q)' = LET x == pdes'[d][SlotOf(q)] IN IF x = None THEN None ELSE tables'[x][EntryOf(q)]
      BY DEF Walk, SlotOf, EntryOf, None
    <3>2. CASE d = cr3 /\ SlotOf(q) = s
      <4>1. pdes'[d][SlotOf(q)] = t BY <3>2, <1>2, <2>8
      <4>2. Walk(d, q) = None BY <3>2, <1>6 DEF Walk, TableMissing
      <4>3. Walk(d, q)' = [NoEntries EXCEPT ![e] = f][EntryOf(q)] BY <3>1, <4>1, <2>2, <2>7
      <4>4. CASE q = p
        BY <4>3, <4>4, <1>1, <3>2 DEF NoEntries, TableEntries
      <4>5. CASE q # p
        <5>1. EntryOf(q) # e /\ EntryOf(q) \in 0 .. Entries - 1 BY <4>5, <3>2, <1>2, <1>3 DEF TableEntries
        <5>2. [NoEntries EXCEPT ![e] = f][EntryOf(q)] = None BY <5>1 DEF NoEntries
        <5> QED BY <4>2, <4>3, <4>5, <5>2
      <4> QED BY <4>4, <4>5
    <3>3. CASE ~(d = cr3 /\ SlotOf(q) = s)
      <4>1. pdes'[d][SlotOf(q)] = pdes[d][SlotOf(q)] BY <3>3, <1>2, <2>8
      <4>2. pdes[d][SlotOf(q)] \in DOMAIN tables \cup {None} BY <1>2 DEF TablesTyped
      <4>3. Walk(d, q)' = Walk(d, q) BY <3>1, <4>1, <4>2, <2>7 DEF Walk
      <4>4. ~(q = p /\ (d = cr3 \/ s = 0)) BY <3>3, <2>3
      <4> QED BY <4>3, <4>4
    <3> QED BY <3>2, <3>3
  <2>12. DOMAIN tables' \subseteq used' /\ used' = u \cup DOMAIN tables' /\ used' \subseteq Frames
    BY <2>1, <2>4, <2>5 DEF MayMap
  <2>13. (DOMAIN tables' \ DOMAIN tables) \cap u = {} BY <2>1, <2>5
  <2> QED BY <2>5, <2>9, <2>10, <2>11, <2>12, <2>13
<1>7. CASE ~TableMissing(p)
  <2> DEFINE k == pdes[cr3][s]
  <2>1. k \in DOMAIN tables /\ k # None BY <1>1, <1>5, <1>7 DEF TablesTyped, TableMissing
  <2>2. used' = u /\ pdes' = pdes /\ tables' = [tables EXCEPT ![k][e] = f]
    BY <1>7 DEF MapPage
  <2>3. DOMAIN tables' = DOMAIN tables BY <2>2
  <2>4. TablesTyped'
    <3>1. tables' \in [DOMAIN tables -> [TableEntries -> MaybeFrame]]
      BY <1>1, <1>4, <2>1, <2>2 DEF TablesTyped, MaybeFrame
    <3> QED BY <2>2, <2>3, <3>1 DEF TablesTyped, TableEntries, MaybeFrame, Frames, Slots, SlotOf, Boot, KernelTable
  <2>5. TablesOwned' BY <2>2 DEF TablesOwned, Slots, SlotOf, None, KernelTable
  <2>6. ASSUME NEW d \in DOMAIN pdes, NEW q \in Pages
        PROVE  Walk(d, q)' = IF q = p /\ (d = cr3 \/ s = 0) THEN f ELSE Walk(d, q)
    <3> DEFINE x == pdes[d][SlotOf(q)]
    <3>1. Walk(d, q)' = IF x = None THEN None ELSE tables'[x][EntryOf(q)]
      BY <2>2 DEF Walk, SlotOf, EntryOf, None
    <3>2. Walk(d, q) = IF x = None THEN None ELSE tables[x][EntryOf(q)] BY DEF Walk
    <3>3. x \in DOMAIN tables \cup {None} BY <1>2 DEF TablesTyped
    <3>4. x = k <=> SlotOf(q) = s /\ (d = cr3 \/ s = 0)
      <4>1. x = k => SlotOf(q) = s /\ (d = cr3 \/ s = 0) BY <1>1, <1>2, <1>5, <2>1 DEF TablesOwned
      <4>2. SlotOf(q) = s /\ d = cr3 => x = k OBVIOUS
      <4>3. SlotOf(q) = s /\ s = 0 => x = k BY <1>5 DEF TablesOwned
      <4> QED BY <4>1, <4>2, <4>3
    <3>5. CASE x = k
      <4>1. tables'[k][EntryOf(q)] = IF EntryOf(q) = e THEN f ELSE tables[k][EntryOf(q)]
        BY <1>1, <1>2, <2>1, <2>2 DEF TablesTyped
      <4>2. EntryOf(q) = e <=> q = p BY <1>3, <3>4, <3>5
      <4> QED BY <2>1, <3>1, <3>2, <3>4, <3>5, <4>1, <4>2
    <3>6. CASE x # k
      <4>1. x \in DOMAIN tables => tables'[x] = tables[x] BY <2>2, <3>6
      <4>2. ~(q = p /\ (d = cr3 \/ s = 0)) BY <3>4, <3>6
      <4> QED BY <3>1, <3>2, <3>3, <4>1, <4>2
    <3> QED BY <3>5, <3>6
  <2>7. DOMAIN tables' \subseteq used' /\ used' = u \cup DOMAIN tables' /\ used' \subseteq Frames
    BY <2>2, <2>3 DEF MayMap
  <2> QED BY <2>2, <2>3, <2>4, <2>5, <2>6, <2>7
<1> QED BY <1>6, <1>7
-------------------------------------------------------------------------------
(* The heap grows *)

LEMMA HeapInPages ==
  ASSUME HeapTyped
  PROVE  /\ HeapPages \subseteq Pages /\ HeapPages \subseteq Nat /\ HeapStart \in Nat
         /\ \A p \in Nat : p \in HeapPages <=> HeapStart <= p /\ p < heapEnd
BY SpaceAssumption DEF HeapTyped, HeapPages, Pages

LEMMA Grown ==
  ASSUME IInv, Grow
  PROVE  /\ TablesTyped' /\ HeapTyped' /\ TablesOwned' /\ Mapped' /\ OwnFrames' /\ FaultsOnlyBeyond'
         /\ CacheCoherent'
         /\ DOMAIN pdes' = DOMAIN pdes /\ HeapPages' = HeapPages \cup {heapEnd} /\ heapEnd \notin HeapPages
         /\ \A p \in HeapPages : backing'[p] = backing[p] /\ Walk(cr3, p)' = Walk(cr3, p)
         /\ (\A p \in Pages : p = heapEnd => Walk(cr3, p)' = backing'[p]) /\ backing'[heapEnd] \notin Reserved
         /\ DOMAIN tables' \cap Reserved = {KernelTable}
<1> DEFINE f == NextFrame(used)  u == used \cup {f}
<1> USE DEF IInv
<1>1. heapEnd \in Nat /\ heapEnd <= MaxPage /\ heapEnd \in Pages
  BY SpaceAssumption DEF Grow, HeapTyped, Pages
<1>2. f \in Frames \ used BY NextFrameIsFree DEF Grow, Enough
<1>3. MapPage(heapEnd, f, u) /\ cr3' = cr3 /\ heapEnd' = heapEnd + 1 /\ tlb' = tlb /\ stopped = "no" /\ stopped' = "no"
  BY DEF Grow
<1>4. MayMap(heapEnd, f, u)
  <2>1. TableMissing(heapEnd) => Frames \ u # {} BY <1>2 DEF Grow, Enough
  <2>2. DOMAIN tables \subseteq used /\ used \subseteq Frames BY DEF OwnFrames, HeapTyped
  <2> QED BY <1>1, <1>2, <2>1, <2>2 DEF MayMap
<1>5. HeapPages' = HeapPages \cup {heapEnd} /\ heapEnd \notin HeapPages
  BY <1>1, <1>3, HeapInPages, SpaceAssumption DEF HeapPages, HeapTyped
<1>6. backing' = [q \in HeapPages \cup {heapEnd} |-> IF q = heapEnd THEN f ELSE backing[q]]
  BY <1>3 DEF MapPage, HeapTyped
<1>7. (\A q \in HeapPages : backing'[q] = backing[q]) /\ backing'[heapEnd] = f
  BY <1>5, <1>6
<1> HIDE DEF f, u
<1>8. /\ TablesTyped' /\ TablesOwned'
      /\ DOMAIN pdes' = DOMAIN pdes /\ DOMAIN tables \subseteq DOMAIN tables'
      /\ DOMAIN tables' \subseteq used' /\ used' = u \cup DOMAIN tables' /\ used' \subseteq Frames
      /\ (DOMAIN tables' \ DOMAIN tables) \cap u = {}
      /\ \A d \in DOMAIN pdes, q \in Pages :
           Walk(d, q)' = IF q = heapEnd /\ (d = cr3 \/ SlotOf(heapEnd) = 0) THEN f ELSE Walk(d, q)
  BY <1>3, <1>4, MapPageTables
<1>9. used \subseteq u /\ f \in u /\ u = used \cup {f} BY DEF u
<1>10. HeapPages \subseteq Pages /\ cr3 \in DOMAIN pdes BY HeapInPages DEF TablesTyped
<1>11. HeapTyped'
  <2>1. backing' \in [HeapPages' -> Frames] BY <1>2, <1>5, <1>6 DEF HeapTyped
  <2>2. heapEnd' \in Nat /\ HeapStart <= heapEnd' /\ heapEnd' <= MaxPage + 1
    BY <1>1, <1>3, SpaceAssumption DEF HeapTyped
  <2>3. used' \subseteq Frames /\ Reserved \subseteq used' BY <1>8, <1>9 DEF HeapTyped
  <2> QED BY <2>1, <2>2, <2>3 DEF HeapTyped
<1>12. Mapped'
  <2> SUFFICES ASSUME NEW d \in DOMAIN pdes, NEW p \in Pages
               PROVE  /\ Walk(d, p)' = None \/ (p \in HeapPages' /\ Walk(d, p)' = backing'[p])
                      /\ p \in HeapPages' /\ SlotOf(p) = 0 => Walk(d, p)' = backing'[p]
    BY <1>8 DEF Mapped, Pages, SlotOf, None
  <2>1. CASE p = heapEnd
    <3>1. Walk(d, p) = None BY <1>5, <2>1 DEF Mapped
    <3> QED BY <1>5, <1>7, <1>8, <2>1, <3>1
  <2>2. CASE p # heapEnd
    <3>1. Walk(d, p)' = Walk(d, p) BY <1>8, <2>2
    <3>2. p \in HeapPages' <=> p \in HeapPages BY <1>5, <2>2
    <3> QED BY <1>7, <3>1, <3>2 DEF Mapped
  <2> QED BY <2>1, <2>2
<1>13. OwnFrames'
  <2>1. \A p \in HeapPages : backing[p] \in used /\ backing[p] \notin DOMAIN tables BY DEF OwnFrames
  <2>2. \A p \in HeapPages' : backing'[p] \in u /\ backing'[p] \notin DOMAIN tables'
    <3> SUFFICES ASSUME NEW p \in HeapPages' PROVE backing'[p] \in u /\ backing'[p] \notin DOMAIN tables'
      OBVIOUS
    <3>1. backing'[p] \in u BY <1>5, <1>7, <1>9, <2>1
    <3>2. backing'[p] \notin DOMAIN tables
      <4>1. DOMAIN tables \subseteq used BY DEF OwnFrames
      <4> QED BY <1>2, <1>5, <1>7, <2>1, <4>1
    <3> QED BY <1>8, <3>1, <3>2
  <2>3. \A p, q \in HeapPages' : p # q => backing'[p] # backing'[q]
    <3>1. \A p, q \in HeapPages : p # q => backing[p] # backing[q] BY DEF OwnFrames
    <3> QED BY <1>2, <1>5, <1>7, <2>1, <3>1
  <2> QED BY <1>8, <2>2, <2>3 DEF OwnFrames
<1>14. FaultsOnlyBeyond' BY <1>3 DEF FaultsOnlyBeyond
<1>15. \A p \in HeapPages : Walk(cr3, p)' = Walk(cr3, p)
  <2>1. \A p \in HeapPages : p \in Pages /\ p # heapEnd BY <1>5, <1>10
  <2> QED BY <1>3, <1>8, <1>10, <2>1 DEF Walk
<1>16. CacheCoherent'
  <2>1. \A p \in DOMAIN tlb : p \in HeapPages BY DEF CacheWhere
  <2> QED BY <1>3, <1>15, <2>1 DEF CacheCoherent
<1>17. (\A p \in Pages : p = heapEnd => Walk(cr3, p)' = backing'[p])
  <2> SUFFICES ASSUME NEW p \in Pages, p = heapEnd PROVE Walk(cr3, p)' = backing'[p] OBVIOUS
  <2>1. PICK d \in DOMAIN pdes : d = cr3 BY <1>10
  <2>2. Walk(d, p)' = f BY <1>8, <2>1
  <2>3. Walk(cr3, p)' = Walk(d, p)' BY <1>3, <2>1 DEF Walk
  <2> QED BY <1>7, <2>2, <2>3
<1>18. backing'[heapEnd] \notin Reserved BY <1>2, <1>7 DEF HeapTyped
<1>19. DOMAIN tables' \cap Reserved = {KernelTable}
  <2>1. DOMAIN tables \cap Reserved = {KernelTable} /\ Reserved \subseteq u
    BY <1>9 DEF Exchanged, HeapTyped
  <2> QED BY <1>8, <2>1
<1> QED BY <1>5, <1>7, <1>8, <1>11, <1>12, <1>13, <1>14, <1>15, <1>16, <1>17, <1>18, <1>19
LEMMA GrownSeen ==
  ASSUME IInv, Grow, \A p \in HeapPages : Walk(cr3, p) = backing[p]
  PROVE  \A p \in HeapPages' : Walk(cr3, p)' = backing'[p]
<1> SUFFICES ASSUME NEW p \in HeapPages' PROVE Walk(cr3, p)' = backing'[p] OBVIOUS
<1>1. CASE p = heapEnd
  <2>1. p \in Pages BY <1>1, SpaceAssumption DEF Grow, IInv, HeapTyped, Pages
  <2> QED BY <1>1, <2>1, Grown
<1>2. CASE p \in HeapPages BY <1>2, Grown
<1> QED BY <1>1, <1>2, Grown

LEMMA GrowHeapStep == ASSUME IInv, GrowHeap PROVE IInv'
<1> USE DEF IInv
<1>1. Grow /\ UNCHANGED <<phase, temp, remapped>> /\ phase \in {"boot", "run"} /\ tlb' = tlb /\ cr3' = cr3
  BY DEF GrowHeap, Grow, loadVars
<1>2. Loading'
  <2>1. ASSUME phase # "run" PROVE \A p \in HeapPages' : Walk(Boot, p)' = backing'[p]
    <3>1. cr3 = Boot /\ \A p \in HeapPages : Walk(cr3, p) = backing[p] BY <2>1 DEF Loading
    <3>2. \A p \in HeapPages' : Walk(cr3, p)' = backing'[p] BY <1>1, <3>1, GrownSeen
    <3> QED BY <1>1, <3>1, <3>2
  <2> QED BY <1>1, <2>1, Grown DEF Loading
<1>3. Exchanged' BY <1>1, Grown DEF Exchanged, Loading
<1>4. CacheWhere' BY <1>1, Grown DEF CacheWhere, Untouched
<1> HIDE DEF IInv
<1>5. TablesTyped' /\ HeapTyped' /\ TablesOwned' /\ Mapped' /\ OwnFrames' /\ FaultsOnlyBeyond' /\ CacheCoherent'
  BY <1>1, Grown
<1> QED BY <1>2, <1>3, <1>4, <1>5 DEF IInv

LEMMA GrowTempStep == ASSUME IInv, GrowTemp PROVE IInv'
<1> USE DEF IInv
<1>1. Grow /\ UNCHANGED <<temp, remapped>> /\ phase = "temp" /\ tlb' = tlb /\ cr3' = cr3
      /\ heapEnd' = heapEnd + 1 /\ phase' = IF heapEnd' = temp + ModulePages + 1 THEN "remap" ELSE "temp"
  BY DEF GrowTemp, Grow
<1>2. Loading'
  <2>1. cr3 = Boot /\ DOMAIN pdes = {Boot} /\ \A p \in HeapPages : Walk(cr3, p) = backing[p] BY <1>1 DEF Loading
  <2>2. \A p \in HeapPages' : Walk(cr3, p)' = backing'[p] BY <1>1, <2>1, GrownSeen
  <2>3. \A p \in HeapPages' : Walk(Boot, p)' = backing'[p] BY <1>1, <2>1, <2>2
  <2> QED BY <1>1, <2>1, <2>3, Grown DEF Loading
<1>3. Exchanged'
  <2>1. remapped = 0 /\ temp \in Nat /\ temp <= heapEnd /\ heapEnd <= temp + ModulePages /\ heapEnd \in Nat
    BY <1>1 DEF Exchanged, Loading, HeapTyped
  <2>2. ModulePages \in Nat \ {0} BY SpaceAssumption
  <2>3. \A p \in HeapPages' :
          backing'[p] \in Reserved => p \in temp .. temp + remapped - 1 /\ backing'[p] = Module(p - temp)
    BY <1>1, Grown DEF Exchanged
  <2>4. HeapStart <= temp BY <1>1 DEF Exchanged
  <2>5. DOMAIN tables' \cap Reserved = {KernelTable} BY <1>1, Grown
  <2>6. phase' = "temp" => temp <= heapEnd' /\ heapEnd' <= temp + ModulePages BY <1>1, <2>1, <2>2
  <2>7. phase' = "remap" => heapEnd' = temp + ModulePages + 1 /\ remapped < ModulePages BY <1>1, <2>1, <2>2
  <2> QED BY <1>1, <2>1, <2>3, <2>4, <2>5, <2>6, <2>7 DEF Exchanged
<1>4. CacheWhere' BY <1>1, Grown DEF CacheWhere, Untouched
<1> HIDE DEF IInv
<1>5. TablesTyped' /\ HeapTyped' /\ TablesOwned' /\ Mapped' /\ OwnFrames' /\ FaultsOnlyBeyond' /\ CacheCoherent'
  BY <1>1, Grown
<1> QED BY <1>2, <1>3, <1>4, <1>5 DEF IInv

-------------------------------------------------------------------------------
(* The loader's exchange of frames *)

LEMMA RemapStep == ASSUME IInv, RemapTemp PROVE IInv'
<1> DEFINE p == temp + remapped  f == Module(remapped)  old == Walk(cr3, p)  u == used \ {old}
<1> USE DEF IInv
<1>1. /\ phase = "remap" /\ stopped = "no" /\ MapPage(p, f, u) /\ remapped' = remapped + 1
      /\ phase' = IF remapped' = ModulePages THEN "run" ELSE "remap"
      /\ UNCHANGED <<cr3, tlb, heapEnd, temp, stopped>>
  BY DEF RemapTemp, FrameFreed
<1>2. /\ temp \in Nat /\ remapped \in Nat /\ heapEnd \in Nat /\ HeapStart <= temp /\ ModulePages \in Nat
      /\ heapEnd = temp + ModulePages + 1 /\ remapped < ModulePages /\ HeapStart \in Nat
  BY <1>1, SpaceAssumption DEF Loading, Exchanged, HeapTyped
<1>3. p \in HeapPages /\ p \in Pages /\ p \in Nat
  <2>1. p \in Nat /\ HeapStart <= p /\ p < heapEnd BY <1>2
  <2> HIDE DEF p, IInv
  <2> QED BY <2>1, HeapInPages DEF IInv
<1>4. cr3 = Boot /\ DOMAIN pdes = {Boot} /\ \A q \in HeapPages : Walk(Boot, q) = backing[q]
  BY <1>1 DEF Loading
<1>5. old = backing[p] /\ old \in Frames /\ old # None BY <1>3, <1>4, ReservedFrames DEF HeapTyped
<1>6. f \in Reserved /\ f # KernelTable /\ f \in Frames BY <1>2, ReservedFrames
<1>7. old \notin Reserved
  <2>1. p \notin temp .. temp + remapped - 1 BY <1>2
  <2> QED BY <1>3, <1>5, <2>1 DEF Exchanged
<1>8. old \notin DOMAIN tables BY <1>3, <1>5 DEF OwnFrames
<1>9. ~TableMissing(p) BY <1>5 DEF Walk, TableMissing
<1>10. MayMap(p, f, u)
  <2>1. DOMAIN tables \subseteq used /\ used \subseteq Frames BY DEF OwnFrames, HeapTyped
  <2> HIDE DEF p, f, old
  <2> QED BY <1>3, <1>6, <1>8, <1>9, <2>1 DEF MayMap
<1>11. backing' = [q \in HeapPages |-> IF q = p THEN f ELSE backing[q]]
  <2> HIDE DEF p, f
  <2>1. backing' = [q \in DOMAIN backing \cup {p} |-> IF q = p THEN f ELSE backing[q]] BY <1>1 DEF MapPage
  <2> QED BY <1>3, <2>1 DEF HeapTyped
<1>12. p \in temp .. temp + remapped /\ p - temp = remapped BY <1>2
<1>13. p \in Untouched BY <1>1, <1>2 DEF Untouched
<1>14. f = Module(p - temp) BY <1>12
<1> HIDE DEF p, f, old, u
<1>15. /\ TablesTyped' /\ TablesOwned'
       /\ DOMAIN pdes' = DOMAIN pdes /\ DOMAIN tables \subseteq DOMAIN tables'
       /\ DOMAIN tables' \subseteq used' /\ used' = u \cup DOMAIN tables' /\ used' \subseteq Frames
       /\ (DOMAIN tables' \ DOMAIN tables) \cap u = {}
       /\ \A d \in DOMAIN pdes, q \in Pages :
            Walk(d, q)' = IF q = p /\ (d = cr3 \/ SlotOf(p) = 0) THEN f ELSE Walk(d, q)
  BY <1>1, <1>10, MapPageTables
<1>16. HeapPages' = HeapPages /\ HeapPages \subseteq Pages BY <1>1, HeapInPages DEF HeapPages
<1>17. Reserved \subseteq u /\ u \subseteq used BY <1>7 DEF u, HeapTyped
<1>18. backing'[p] = f /\ \A q \in HeapPages : q # p => backing'[q] = backing[q] BY <1>3, <1>11
<1>19. HeapTyped'
  <2>1. backing' \in [HeapPages' -> Frames] BY <1>6, <1>11, <1>16 DEF HeapTyped
  <2> QED BY <1>1, <1>15, <1>17, <2>1 DEF HeapTyped
<1>20. \A q \in HeapPages : Walk(Boot, q)' = backing'[q]
  <2> SUFFICES ASSUME NEW q \in HeapPages PROVE Walk(Boot, q)' = backing'[q] OBVIOUS
  <2>1. Boot \in DOMAIN pdes /\ q \in Pages BY <1>4, <1>16
  <2>2. Walk(Boot, q)' = IF q = p THEN f ELSE Walk(Boot, q) BY <1>4, <1>15, <2>1
  <2> QED BY <1>4, <1>18, <2>2
<1>21. Mapped'
  <2> SUFFICES ASSUME NEW d \in DOMAIN pdes, NEW q \in Pages
               PROVE  /\ Walk(d, q)' = None \/ (q \in HeapPages' /\ Walk(d, q)' = backing'[q])
                      /\ q \in HeapPages' /\ SlotOf(q) = 0 => Walk(d, q)' = backing'[q]
    BY <1>15 DEF Mapped, Pages, SlotOf, None
  <2>1. d = Boot BY <1>4
  <2>2. CASE q \in HeapPages BY <1>16, <1>20, <2>1, <2>2
  <2>3. CASE q \notin HeapPages
    <3>1. Walk(d, q)' = Walk(d, q) BY <1>3, <1>15, <2>3
    <3> QED BY <1>16, <2>3, <3>1 DEF Mapped
  <2> QED BY <2>2, <2>3
<1>22. Loading' BY <1>1, <1>2, <1>4, <1>15, <1>16, <1>20 DEF Loading
<1>23. \A q \in HeapPages : q # p => backing[q] \in u /\ backing[q] # f /\ backing[q] \notin DOMAIN tables
  <2> SUFFICES ASSUME NEW q \in HeapPages, q # p
               PROVE  backing[q] \in u /\ backing[q] # f /\ backing[q] \notin DOMAIN tables
    OBVIOUS
  <2>1. backing[q] \in used /\ backing[q] \notin DOMAIN tables /\ backing[q] # old
    BY <1>3, <1>5 DEF OwnFrames
  <2>2. backing[q] # f
    <3> SUFFICES ASSUME backing[q] = f PROVE FALSE OBVIOUS
    <3>1. q \in temp .. temp + remapped - 1 /\ f = Module(q - temp) BY <1>6 DEF Exchanged
    <3>2. q - temp < remapped /\ q \in Int BY <1>2, <3>1
    <3>3. f = Module(remapped) BY DEF f
    <3> QED BY <1>2, <3>1, <3>2, <3>3 DEF Module
  <2> QED BY <2>1, <2>2 DEF u
<1>24. OwnFrames'
  <2>1. f \in u /\ f \notin DOMAIN tables BY <1>6, <1>17 DEF Exchanged
  <2>2. \A q \in HeapPages : backing'[q] \in u /\ backing'[q] \notin DOMAIN tables'
    BY <1>15, <1>18, <1>23, <2>1
  <2>3. \A q, r \in HeapPages : q # r => backing'[q] # backing'[r]
    <3>1. \A q, r \in HeapPages : q # r => backing[q] # backing[r] BY DEF OwnFrames
    <3> QED BY <1>18, <1>23, <3>1
  <2> QED BY <1>15, <1>16, <2>2, <2>3 DEF OwnFrames
<1>25. Exchanged'
  <2>1. \A q \in HeapPages :
          backing'[q] \in Reserved => q \in temp .. temp + remapped /\ backing'[q] = Module(q - temp)
    <3> SUFFICES ASSUME NEW q \in HeapPages, backing'[q] \in Reserved
                 PROVE  q \in temp .. temp + remapped /\ backing'[q] = Module(q - temp)
      OBVIOUS
    <3>1. CASE q = p BY <1>12, <1>14, <1>18, <3>1
    <3>2. CASE q # p
      <4>1. q \in temp .. temp + remapped - 1 /\ backing[q] = Module(q - temp)
        BY <1>18, <3>2 DEF Exchanged
      <4> QED BY <1>2, <1>18, <3>2, <4>1
    <3> QED BY <3>1, <3>2
  <2>2. temp .. temp + remapped = temp' .. temp' + remapped' - 1 BY <1>1, <1>2
  <2>3. DOMAIN tables' \cap Reserved = {KernelTable}
    <3>1. DOMAIN tables \cap Reserved = {KernelTable} BY DEF Exchanged
    <3> QED BY <1>15, <1>17, <3>1
  <2>4. phase' = "remap" => remapped' < ModulePages BY <1>1, <1>2
  <2>5. \A q \in HeapPages' :
          backing'[q] \in Reserved => q \in temp' .. temp' + remapped' - 1 /\ backing'[q] = Module(q - temp')
    BY <1>1, <1>16, <2>1, <2>2
  <2>6. phase' \in {"run", "remap"} BY <1>1
  <2> QED BY <1>1, <1>2, <2>3, <2>4, <2>5, <2>6 DEF Exchanged
<1>26. \A q \in DOMAIN tlb : q \in HeapPages /\ q # p /\ q \notin Untouched /\ tlb[q] # None
  BY <1>13 DEF CacheWhere
<1>27. CacheWhere' BY <1>1, <1>16, <1>26 DEF CacheWhere, Untouched
<1>28. CacheCoherent'
  <2>1. ASSUME NEW q \in DOMAIN tlb PROVE tlb[q] = Walk(Boot, q)'
    <3>1. q \in HeapPages /\ q # p BY <1>26
    <3>2. tlb[q] = backing[q] BY <1>4, <3>1 DEF CacheCoherent
    <3> QED BY <1>18, <1>20, <3>1, <3>2
  <2>2. cr3' = Boot BY <1>1, <1>4
  <2> QED BY <1>1, <2>1, <2>2 DEF CacheCoherent
<1>29. FaultsOnlyBeyond' BY <1>1 DEF FaultsOnlyBeyond
<1> QED BY <1>15, <1>19, <1>21, <1>22, <1>24, <1>25, <1>27, <1>28, <1>29
-------------------------------------------------------------------------------
(* Accesses and directories *)

\* What no table and no page of the heap changes.
LEMMA HeapKept ==
  ASSUME IInv, UNCHANGED <<pdes, tables, used, heapEnd, backing>>, cr3' \in DOMAIN pdes
  PROVE  /\ TablesTyped' /\ HeapTyped' /\ TablesOwned' /\ Mapped' /\ OwnFrames' /\ HeapPages' = HeapPages
         /\ \A d \in DOMAIN pdes, p \in Pages : Walk(d, p)' = Walk(d, p)
<1> USE DEF IInv
<1>1. HeapPages' = HeapPages BY DEF HeapPages
<1>2. \A d, p : Walk(d, p)' = Walk(d, p) BY DEF Walk
<1>3. TablesTyped' BY DEF TablesTyped
<1>4. HeapTyped' BY <1>1 DEF HeapTyped
<1>5. TablesOwned' BY DEF TablesOwned
<1>6. Mapped' BY <1>1, <1>2 DEF Mapped
<1>7. OwnFrames' BY <1>1 DEF OwnFrames
<1> HIDE DEF IInv
<1> QED BY <1>1, <1>2, <1>3, <1>4, <1>5, <1>6, <1>7

\* A step that changes neither the loader's state nor the cache.
LEMMA RestKept ==
  ASSUME IInv, UNCHANGED <<pdes, tables, used, heapEnd, backing, cr3, loadVars>>
  PROVE  Loading' /\ Exchanged' /\ Untouched' = Untouched /\ (tlb' = tlb => CacheWhere' /\ CacheCoherent')
<1> USE DEF IInv, loadVars
<1>1. HeapPages' = HeapPages /\ Untouched' = Untouched BY DEF HeapPages, Untouched
<1>2. \A d, p : Walk(d, p)' = Walk(d, p) BY DEF Walk
<1>3. \A p : Walk(cr3, p)' = Walk(cr3, p) BY DEF Walk
<1>4. Loading' BY <1>1, <1>2 DEF Loading
<1>5. Exchanged' BY <1>1 DEF Exchanged
<1>6. tlb' = tlb => CacheWhere' /\ CacheCoherent' BY <1>1, <1>3 DEF CacheWhere, CacheCoherent
<1> QED BY <1>1, <1>4, <1>5, <1>6

LEMMA StutterStep == ASSUME IInv, UNCHANGED vars PROVE IInv'
<1>1. UNCHANGED <<pdes, tables, used, heapEnd, backing, cr3, loadVars, tlb, stopped>> BY DEF vars, loadVars
<1>2. cr3' \in DOMAIN pdes BY <1>1 DEF IInv, TablesTyped
<1>3. FaultsOnlyBeyond' BY <1>1 DEF IInv, FaultsOnlyBeyond
<1> QED BY <1>1, <1>2, <1>3, HeapKept, RestKept DEF IInv

LEMMA OutOfMemoryStep == ASSUME IInv, OutOfMemory PROVE IInv'
<1>1. UNCHANGED <<pdes, tables, used, heapEnd, backing, cr3, loadVars, tlb>> /\ stopped' = "memory"
  BY DEF OutOfMemory
<1>2. cr3' \in DOMAIN pdes BY <1>1 DEF IInv, TablesTyped
<1>3. FaultsOnlyBeyond' BY <1>1 DEF FaultsOnlyBeyond
<1> QED BY <1>1, <1>2, <1>3, HeapKept, RestKept DEF IInv

LEMMA TouchStep == ASSUME IInv, NEW p \in HeapPages, Touch(p) PROVE IInv'
<1>1. UNCHANGED <<pdes, tables, used, heapEnd, backing, cr3, loadVars>> /\ p \notin Untouched
  BY DEF Touch
<1>2. cr3 \in DOMAIN pdes /\ cr3' \in DOMAIN pdes BY <1>1 DEF IInv, TablesTyped
<1>3. p \in Pages /\ p \in Nat /\ p < heapEnd /\ heapEnd \in Nat BY HeapInPages DEF IInv, HeapTyped
<1>4. FaultsOnlyBeyond'
  <2> SUFFICES ASSUME Walk(cr3, p) = None PROVE heapEnd > Entries
    BY <1>1 DEF FaultsOnlyBeyond, Touch
  <2>1. backing[p] # None BY ReservedFrames DEF IInv, HeapTyped
  <2>2. SlotOf(p) # 0 BY <1>2, <1>3, <2>1 DEF IInv, Mapped
  <2>3. p >= Entries /\ Entries \in Nat BY <1>3, <2>2, BehindFirstSlot, SpaceAssumption
  <2> QED BY <1>3, <2>3
<1>5. CacheWhere' /\ CacheCoherent'
  <2>1. HeapPages' = HeapPages /\ Untouched' = Untouched BY <1>1, <1>2, HeapKept, RestKept
  <2>2. \A q : Walk(cr3, q)' = Walk(cr3, q) BY <1>1 DEF Walk
  <2>3. CASE tlb' = tlb BY <1>1, <2>3, RestKept
  <2>4. CASE tlb' # tlb
    <3>1. Walk(cr3, p) # None
          /\ tlb' = [q \in DOMAIN tlb \cup {p} |-> IF q = p THEN Walk(cr3, p) ELSE tlb[q]]
      BY <2>4 DEF Touch
    <3>2. DOMAIN tlb' = DOMAIN tlb \cup {p} BY <3>1
    <3>3. CacheWhere' BY <1>1, <2>1, <3>1, <3>2 DEF IInv, CacheWhere
    <3>4. CacheCoherent' BY <2>2, <3>1, <3>2 DEF IInv, CacheCoherent
    <3> QED BY <3>3, <3>4
  <2> QED BY <2>3, <2>4
<1> QED BY <1>1, <1>2, <1>4, <1>5, HeapKept, RestKept DEF IInv

\* The temporary pages lie behind all that is cached.
LEMMA MallocTempStep == ASSUME IInv, MallocTemp PROVE IInv'
<1>1. /\ UNCHANGED <<pdes, tables, used, heapEnd, backing, cr3, tlb, remapped, stopped>>
      /\ phase = "boot" /\ phase' = "temp" /\ temp' = heapEnd
  BY DEF MallocTemp
<1>2. cr3' \in DOMAIN pdes BY <1>1 DEF IInv, TablesTyped
<1>3. /\ TablesTyped' /\ HeapTyped' /\ TablesOwned' /\ Mapped' /\ OwnFrames' /\ HeapPages' = HeapPages
      /\ \A d \in DOMAIN pdes, p \in Pages : Walk(d, p)' = Walk(d, p)
  BY <1>1, <1>2, HeapKept
<1>4. heapEnd \in Nat /\ HeapStart <= heapEnd /\ remapped = 0 /\ ModulePages \in Nat
  BY <1>1, SpaceAssumption DEF IInv, HeapTyped, Exchanged
<1>5. FaultsOnlyBeyond' BY <1>1 DEF IInv, FaultsOnlyBeyond
<1>6. Loading'
  <2>1. \A p \in HeapPages : p \in Pages BY HeapInPages DEF IInv
  <2> QED BY <1>1, <1>3, <1>4, <2>1 DEF IInv, Loading
<1>7. Exchanged'
  <2>1. \A p \in HeapPages : backing[p] \notin Reserved
    <3> SUFFICES ASSUME NEW p \in HeapPages, backing[p] \in Reserved PROVE FALSE OBVIOUS
    <3>1. p \in temp .. temp + remapped - 1 /\ temp \in Nat BY DEF IInv, Exchanged, Loading
    <3> QED BY <1>4, <3>1
  <2> QED BY <1>1, <1>3, <1>4, <2>1 DEF IInv, Exchanged
<1>8. CacheWhere'
  <2>1. \A p \in HeapPages : p \notin heapEnd .. heapEnd + ModulePages - 1
    BY <1>4, HeapInPages DEF IInv
  <2>2. Untouched' = heapEnd .. heapEnd + ModulePages - 1 BY <1>1 DEF Untouched
  <2> QED BY <1>1, <1>3, <2>1, <2>2 DEF IInv, CacheWhere
<1>9. CacheCoherent' BY <1>1 DEF IInv, CacheCoherent, Walk
<1> QED BY <1>3, <1>5, <1>6, <1>7, <1>8, <1>9 DEF IInv

LEMMA LoadCr3Step == ASSUME IInv, NEW d, LoadCr3(d) PROVE IInv'
<1>1. /\ UNCHANGED <<pdes, tables, used, heapEnd, backing, loadVars, stopped>>
      /\ phase = "run" /\ cr3' \in DOMAIN pdes /\ tlb' = <<>>
  BY DEF LoadCr3
<1>2. FaultsOnlyBeyond' BY <1>1 DEF IInv, FaultsOnlyBeyond
<1>3. Loading' BY <1>1 DEF IInv, Loading, loadVars
<1>4. HeapPages' = HeapPages BY <1>1 DEF HeapPages
<1>5. Exchanged' BY <1>1, <1>4 DEF IInv, Exchanged, loadVars
<1>6. DOMAIN tlb' = {} BY <1>1
<1>7. CacheWhere' /\ CacheCoherent' BY <1>6 DEF CacheWhere, CacheCoherent
<1> QED BY <1>1, <1>2, <1>3, <1>5, <1>7, HeapKept DEF IInv

\* Fewer directories, or one more that has the kernel's table alone.
LEMMA DirectoriesStep ==
  ASSUME IInv, phase = "run", UNCHANGED <<tables, used, cr3, tlb, heapEnd, backing, loadVars, stopped>>,
         cr3 \in DOMAIN pdes', Boot \in DOMAIN pdes',
         pdes' = [e \in DOMAIN pdes' |-> pdes'[e]],
         \A e \in DOMAIN pdes' : pdes'[e] = KernelOnly \/ (e \in DOMAIN pdes /\ pdes'[e] = pdes[e]),
         \A e \in DOMAIN pdes' : e \in DOMAIN pdes => pdes'[e] = pdes[e]
  PROVE  IInv'
<1> USE DEF IInv
<1>1. /\ 0 \in Slots /\ KernelTable \in DOMAIN tables /\ KernelTable # None
      /\ KernelOnly \in [Slots -> DOMAIN tables \cup {None}] /\ KernelOnly[0] = KernelTable
      /\ \A s \in Slots : KernelOnly[s] # None => s = 0
  BY FirstSlot DEF TablesTyped, KernelOnly, KernelTable, None
<1>2. TablesTyped' BY <1>1 DEF TablesTyped
<1>3. HeapPages' = HeapPages BY DEF HeapPages
<1>4. HeapTyped' BY <1>3 DEF HeapTyped
<1>5. Boot \in DOMAIN pdes /\ pdes[Boot][0] = KernelTable BY DEF TablesTyped, TablesOwned
<1>6. TablesOwned'
  <2>1. \A e \in DOMAIN pdes' : pdes'[e][0] = KernelTable BY <1>1 DEF TablesOwned
  <2>2. ASSUME NEW e \in DOMAIN pdes', NEW g \in DOMAIN pdes', NEW r \in Slots, NEW s \in Slots,
               pdes'[e][r] = pdes'[g][s], pdes'[e][r] # None
        PROVE  r = s /\ (e = g \/ r = 0)
    <3>1. CASE pdes'[e] = KernelOnly /\ pdes'[g] = KernelOnly BY <1>1, <2>2, <3>1
    <3>2. CASE pdes'[e] = KernelOnly /\ g \in DOMAIN pdes /\ pdes'[g] = pdes[g]
      <4>1. r = 0 /\ pdes[g][s] = pdes[Boot][0] BY <1>1, <1>5, <2>2, <3>2
      <4> QED BY <1>1, <1>5, <2>2, <3>2, <4>1 DEF TablesOwned
    <3>3. CASE pdes'[g] = KernelOnly /\ e \in DOMAIN pdes /\ pdes'[e] = pdes[e]
      <4>1. s = 0 /\ pdes[e][r] = pdes[Boot][0] BY <1>1, <1>5, <2>2, <3>3
      <4> QED BY <1>1, <1>5, <2>2, <3>3, <4>1 DEF TablesOwned
    <3>4. CASE e \in DOMAIN pdes /\ pdes'[e] = pdes[e] /\ g \in DOMAIN pdes /\ pdes'[g] = pdes[g]
      BY <2>2, <3>4 DEF TablesOwned
    <3> QED BY <3>1, <3>2, <3>3, <3>4
  <2> QED BY <2>1, <2>2 DEF TablesOwned
<1>7. Mapped'
  <2> SUFFICES ASSUME NEW e \in DOMAIN pdes', NEW p \in Pages
               PROVE  /\ Walk(e, p)' = None \/ (p \in HeapPages' /\ Walk(e, p)' = backing'[p])
                      /\ p \in HeapPages' /\ SlotOf(p) = 0 => Walk(e, p)' = backing'[p]
    BY DEF Mapped
  <2>1. CASE e \in DOMAIN pdes /\ pdes'[e] = pdes[e]
    <3>1. Walk(e, p)' = Walk(e, p) BY <2>1 DEF Walk
    <3> QED BY <1>3, <2>1, <3>1 DEF Mapped
  <2>2. CASE pdes'[e] = KernelOnly
    <3>1. SlotOf(p) \in Slots BY PageInSlots
    <3>2. CASE SlotOf(p) = 0
      <4>1. Walk(e, p)' = Walk(Boot, p) BY <1>1, <1>5, <2>2, <3>2 DEF Walk
      <4> QED BY <1>3, <1>5, <4>1 DEF Mapped
    <3>3. CASE SlotOf(p) # 0
      <4>1. KernelOnly[SlotOf(p)] = None BY <1>1, <3>1, <3>3
      <4>2. Walk(e, p)' = None BY <2>2, <4>1 DEF Walk
      <4> QED BY <3>3, <4>2
    <3> QED BY <3>2, <3>3
  <2> QED BY <2>1, <2>2
<1>8. OwnFrames' BY <1>3 DEF OwnFrames
<1>9. Loading' BY DEF Loading, loadVars
<1>10. Exchanged' BY <1>3 DEF Exchanged, loadVars
<1>11. CacheWhere' BY <1>3 DEF CacheWhere, Untouched, loadVars
<1>12. cr3 \in DOMAIN pdes /\ pdes'[cr3] = pdes[cr3] BY DEF TablesTyped
<1>13. CacheCoherent' BY <1>12 DEF CacheCoherent, Walk
<1>14. FaultsOnlyBeyond' BY DEF FaultsOnlyBeyond
<1> QED BY <1>2, <1>4, <1>6, <1>7, <1>8, <1>9, <1>10, <1>11, <1>13, <1>14

LEMMA NewDirectoryStep == ASSUME IInv, NEW d, NewDirectory(d) PROVE IInv'
<1>1. Boot \in DOMAIN pdes /\ cr3 \in DOMAIN pdes BY DEF IInv, TablesTyped
<1>2. pdes' = [e \in DOMAIN pdes \cup {d} |-> IF e = d THEN KernelOnly ELSE pdes[e]] /\ d \notin DOMAIN pdes
  BY DEF NewDirectory
<1> QED BY <1>1, <1>2, DirectoriesStep DEF NewDirectory

LEMMA FreeDirectoryStep == ASSUME IInv, NEW d, FreeDirectory(d) PROVE IInv'
<1>1. Boot \in DOMAIN pdes /\ cr3 \in DOMAIN pdes BY DEF IInv, TablesTyped
<1>2. pdes' = [e \in DOMAIN pdes \ {d} |-> pdes[e]] /\ d # cr3 /\ d # Boot
  BY DEF FreeDirectory, Freeable
<1> QED BY <1>1, <1>2, DirectoriesStep DEF FreeDirectory

-------------------------------------------------------------------------------

LEMMA InitIsGood == Init => IInv
<1> SUFFICES ASSUME Init PROVE IInv OBVIOUS
<1>1. HeapStart \in Nat /\ ModulePages \in Nat /\ Boot # KernelTable BY SpaceAssumption DEF Boot, KernelTable
<1>2. HeapPages = {} BY <1>1 DEF Init, HeapPages
<1>3. DOMAIN pdes = {Boot} /\ pdes[Boot] = KernelOnly /\ DOMAIN tables = {KernelTable} /\ DOMAIN backing = {}
      /\ DOMAIN tlb = {}
  BY DEF Init
<1>4. TablesTyped
  <2>1. NoEntries \in [TableEntries -> MaybeFrame] BY DEF NoEntries, TableEntries, MaybeFrame
  <2>2. KernelOnly \in [Slots -> {KernelTable} \cup {None}] BY DEF KernelOnly
  <2> QED BY <1>3, <2>1, <2>2, ReservedFrames DEF Init, TablesTyped
<1>5. HeapTyped BY <1>1, <1>2, <1>3, ReservedFrames DEF Init, HeapTyped
<1>6. TablesOwned BY <1>3, FirstSlot DEF TablesOwned, KernelOnly
<1>7. Mapped
  <2> SUFFICES ASSUME NEW p \in Pages PROVE Walk(Boot, p) = None BY <1>2, <1>3 DEF Mapped
  <2>1. SlotOf(p) \in Slots /\ EntryOf(p) \in 0 .. Entries - 1 BY PageInSlots DEF TableEntries
  <2>2. tables[KernelTable][EntryOf(p)] = None BY <2>1 DEF Init, NoEntries
  <2> QED BY <1>3, <2>1, <2>2 DEF Walk, KernelOnly
<1>8. Loading BY <1>2, <1>3 DEF Init, Loading
<1>9. Exchanged BY <1>2, <1>3, ReservedFrames DEF Init, Exchanged
<1>10. CacheWhere /\ CacheCoherent BY <1>3 DEF CacheWhere, CacheCoherent
<1>11. OwnFrames BY <1>2, <1>3, ReservedFrames DEF Init, OwnFrames
<1>12. FaultsOnlyBeyond BY DEF Init, FaultsOnlyBeyond
<1> QED BY <1>4, <1>5, <1>6, <1>7, <1>8, <1>9, <1>10, <1>11, <1>12 DEF IInv

LEMMA Step == IInv /\ [Next]_vars => IInv'
<1> SUFFICES ASSUME IInv, [Next]_vars PROVE IInv' OBVIOUS
<1>1. CASE GrowHeap BY <1>1, GrowHeapStep
<1>2. CASE OutOfMemory BY <1>2, OutOfMemoryStep
<1>3. ASSUME NEW p \in HeapPages, Touch(p) PROVE IInv' BY <1>3, TouchStep
<1>4. CASE MallocTemp BY <1>4, MallocTempStep
<1>5. CASE GrowTemp BY <1>5, GrowTempStep
<1>6. CASE RemapTemp BY <1>6, RemapStep
<1>7. ASSUME NEW d \in Dirs, NewDirectory(d) PROVE IInv' BY <1>7, NewDirectoryStep
<1>8. ASSUME NEW d \in Dirs, LoadCr3(d) PROVE IInv' BY <1>8, LoadCr3Step
<1>9. ASSUME NEW d \in Dirs, FreeDirectory(d) PROVE IInv' BY <1>9, FreeDirectoryStep
<1>10. CASE UNCHANGED vars BY <1>10, StutterStep
<1> QED BY <1>1, <1>2, <1>3, <1>4, <1>5, <1>6, <1>7, <1>8, <1>9, <1>10 DEF Next

\* What the theorems below are parts of.
LEMMA Invariant == Spec => []IInv
BY InitIsGood, Step, PTL DEF Spec

\* However many processes there are and however the heap grew, no directory
\* leads from a heap page to another page's memory.
THEOREM OneHeapForAll == Spec => []OneHeap
<1>1. ASSUME IInv PROVE OneHeap
  <2> SUFFICES ASSUME NEW d \in DOMAIN pdes, NEW p \in HeapPages
               PROVE  Walk(d, p) = backing[p] \/ (SlotOf(p) # 0 /\ Walk(d, p) = None)
    BY DEF OneHeap
  <2>1. p \in Pages BY <1>1, HeapInPages DEF IInv
  <2> QED BY <1>1, <2>1 DEF IInv, Mapped
<1> QED BY <1>1, Invariant, PTL

\* No frame is two pages, or a page and a table, whatever load_module exchanges.
THEOREM FramesHaveOneUse == Spec => []OwnFrames
<1>1. IInv => OwnFrames BY DEF IInv
<1> QED BY <1>1, Invariant, PTL

\* The missing invlpg of map_page never makes the kernel use an old frame.
THEOREM CacheStaysCoherent == Spec => []CacheCoherent
<1>1. IInv => CacheCoherent BY DEF IInv
<1> QED BY <1>1, Invariant, PTL

\* As long as the heap fits under the kernel's table, using it never faults.
THEOREM FaultsComeLate == Spec => []FaultsOnlyBeyond
<1>1. IInv => FaultsOnlyBeyond BY DEF IInv
<1> QED BY <1>1, Invariant, PTL
===============================================================================
