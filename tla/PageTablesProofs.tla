--------------------------- MODULE PageTablesProofs ---------------------------
(***************************************************************************)
(* Proofs for PageTables: with tables of any size, however pages are       *)
(* mapped and unmapped, the processor caches no translation that the       *)
(* tables do not have, the frames in use are the heap's pages and their    *)
(* tables, and the heap sees the mapping AddressSpace promises.            *)
(***************************************************************************)
EXTENDS PageTables, FiniteSetTheorems, WellFoundedInduction, TLAPS

AllPages == 0 .. Entries * Entries - 1
\* The page that entry e of the table of that slot maps.
At(slot, e) == slot * Entries + e

\* The pages whose frames are in use for them: the heap's, and the windows on
\* the tables that come and go.
Middle == Slots \ {0, Self}
Nodes == HeapPages \cup {Window(s) : s \in Middle}

-------------------------------------------------------------------------------
(* Numbers of pages, slots and entries *)

LEMMA ProductsOrdered ==
  ASSUME NEW x \in Int, NEW y \in Int, NEW k \in Nat, x <= y
  PROVE  x * k <= y * k
<1>1. (y - x) * k >= 0 OBVIOUS
<1>2. (y - x) * k = y * k - x * k OBVIOUS
<1>3. x * k \in Int /\ y * k \in Int OBVIOUS
<1> QED BY <1>1, <1>2, <1>3

LEMMA EntriesNat == Entries \in Nat /\ Entries > 1 /\ Self \in Nat /\ Self >= 1
BY TableAssumption DEF Self

LEMMA PlaceOf ==
  ASSUME NEW p \in Nat
  PROVE  /\ SlotOf(p) \in Nat /\ EntryOf(p) \in Slots
         /\ SlotOf(p) * Entries \in Nat /\ p = At(SlotOf(p), EntryOf(p))
<1> DEFINE q == SlotOf(p)  r == EntryOf(p)
<1>1. Entries \in Nat /\ Entries > 0 BY EntriesNat
<1>2. q \in Int /\ r \in 0 .. Entries - 1 /\ p = Entries * q + r BY <1>1, SMT DEF SlotOf, EntryOf
<1>3. q >= 0
  <2> SUFFICES ASSUME q <= -1 PROVE FALSE BY <1>2
  <2>1. q * Entries <= (-1) * Entries BY <1>1, <1>2, ProductsOrdered
  <2> QED BY <2>1, <1>1, <1>2
<1>4. Entries * q = q * Entries /\ q * Entries \in Nat BY <1>1, <1>2, <1>3
<1> HIDE DEF q, r
<1>5. q \in Nat /\ r \in Slots /\ q * Entries \in Nat /\ p = At(q, r)
  BY <1>1, <1>2, <1>3, <1>4 DEF At, Slots
<1> QED BY <1>5 DEF q, r

\* A page is at one place.
LEMMA OnePlace ==
  ASSUME NEW s \in Nat, NEW e \in Slots, NEW q \in Nat, NEW r \in Slots, At(s, e) = At(q, r)
  PROVE  s = q /\ e = r
<1>1. Entries \in Nat /\ e \in Nat /\ r \in Nat /\ e < Entries /\ r < Entries
  BY EntriesNat DEF Slots
<1>2. s * Entries + e = q * Entries + r /\ s * Entries \in Nat /\ q * Entries \in Nat
  BY <1>1 DEF At
<1>3. ASSUME s < q PROVE FALSE
  <2>1. (s + 1) * Entries <= q * Entries BY <1>1, <1>3, ProductsOrdered
  <2>2. (s + 1) * Entries = s * Entries + Entries BY <1>1
  <2> QED BY <1>1, <1>2, <2>1, <2>2
<1>4. ASSUME q < s PROVE FALSE
  <2>1. (q + 1) * Entries <= s * Entries BY <1>1, <1>4, ProductsOrdered
  <2>2. (q + 1) * Entries = q * Entries + Entries BY <1>1
  <2> QED BY <1>1, <1>2, <2>1, <2>2
<1>5. s = q BY <1>3, <1>4
<1> QED BY <1>1, <1>2, <1>5

LEMMA PlaceOfAt ==
  ASSUME NEW s \in Slots, NEW e \in Slots
  PROVE  At(s, e) \in AllPages /\ SlotOf(At(s, e)) = s /\ EntryOf(At(s, e)) = e
<1>1. Entries \in Nat /\ s \in Nat /\ e \in Nat /\ e < Entries /\ s <= Entries - 1
  BY EntriesNat DEF Slots
<1>2. s * Entries \in Nat /\ At(s, e) \in Nat BY <1>1 DEF At
<1>3. At(s, e) \in AllPages
  <2>1. s * Entries <= (Entries - 1) * Entries BY <1>1, ProductsOrdered
  <2>2. (Entries - 1) * Entries = Entries * Entries - Entries BY <1>1
  <2>3. Entries * Entries \in Nat BY <1>1
  <2> QED BY <1>1, <1>2, <2>1, <2>2, <2>3 DEF AllPages, At
<1>4. /\ SlotOf(At(s, e)) \in Nat /\ EntryOf(At(s, e)) \in Slots
      /\ At(s, e) = At(SlotOf(At(s, e)), EntryOf(At(s, e)))
  BY <1>2, PlaceOf
<1> HIDE DEF At
<1> QED BY <1>1, <1>3, <1>4, OnePlace

LEMMA PlaceOfPage ==
  ASSUME NEW p \in AllPages
  PROVE  SlotOf(p) \in Slots /\ EntryOf(p) \in Slots /\ At(SlotOf(p), EntryOf(p)) = p
<1>1. Entries \in Nat /\ Entries * Entries \in Nat BY EntriesNat
<1>2. p \in Nat /\ p < Entries * Entries BY <1>1 DEF AllPages
<1>3. /\ SlotOf(p) \in Nat /\ EntryOf(p) \in Slots
      /\ SlotOf(p) * Entries \in Nat /\ p = At(SlotOf(p), EntryOf(p))
  BY <1>2, PlaceOf
<1>4. SlotOf(p) <= Entries - 1
  <2> SUFFICES ASSUME Entries <= SlotOf(p) PROVE FALSE BY <1>1, <1>3
  <2>1. Entries * Entries <= SlotOf(p) * Entries BY <1>1, <1>3, ProductsOrdered
  <2>2. EntryOf(p) \in Nat BY <1>3 DEF Slots
  <2> QED BY <1>1, <1>2, <1>3, <2>1, <2>2 DEF At
<1> QED BY <1>1, <1>3, <1>4 DEF Slots

LEMMA SlotsOrdered ==
  ASSUME NEW p \in Nat, NEW q \in Nat, p <= q
  PROVE  SlotOf(p) <= SlotOf(q)
<1> DEFINE s == SlotOf(p)  r == SlotOf(q)
<1>1. Entries \in Nat BY EntriesNat
<1>2. /\ s \in Nat /\ EntryOf(p) \in Nat /\ s * Entries \in Nat /\ p = s * Entries + EntryOf(p)
      /\ r \in Nat /\ EntryOf(q) < Entries /\ EntryOf(q) \in Nat
      /\ r * Entries \in Nat /\ q = r * Entries + EntryOf(q)
  <2>1. EntryOf(q) \in Slots /\ EntryOf(p) \in Slots BY PlaceOf
  <2> QED BY <1>1, <2>1, PlaceOf DEF At, Slots
<1> HIDE DEF s, r
<1>3. s <= r
  <2> SUFFICES ASSUME r + 1 <= s PROVE FALSE BY <1>2
  <2>1. (r + 1) * Entries <= s * Entries BY <1>1, <1>2, ProductsOrdered
  <2>2. (r + 1) * Entries = r * Entries + Entries BY <1>1, <1>2
  <2> QED BY <1>1, <1>2, <2>1, <2>2
<1> QED BY <1>3 DEF s, r

LEMMA SlotNames ==
  /\ 0 \in Slots /\ Self \in Slots /\ Self # 0 /\ Slots \subseteq Nat
  /\ 0 \in AllPages /\ SlotOf(0) = 0 /\ EntryOf(0) = 0
<1>1. 0 \in Slots /\ Self \in Slots /\ Self # 0 /\ Slots \subseteq Nat
  BY EntriesNat DEF Slots, Self
<1>2. At(0, 0) = 0
  <2>1. Entries \in Nat BY EntriesNat
  <2> QED BY <2>1 DEF At
<1> QED BY <1>1, <1>2, PlaceOfAt

LEMMA WindowPlace ==
  ASSUME NEW s \in Slots
  PROVE  /\ Window(s) \in AllPages /\ SlotOf(Window(s)) = Self /\ EntryOf(Window(s)) = s
         /\ Window(s) \in Nat
<1>1. Window(s) = At(Self, s) BY DEF Window, At
<1>2. AllPages \subseteq Nat BY DEF AllPages
<1> QED BY <1>1, <1>2, SlotNames, PlaceOfAt

LEMMA HeapPlace ==
  ASSUME NEW p \in HeapPages
  PROVE  /\ p \in AllPages /\ p \in Nat /\ p # 0 /\ p <= MaxPage
         /\ SlotOf(p) \in Slots /\ SlotOf(p) # Self
         /\ EntryOf(p) \in Slots /\ At(SlotOf(p), EntryOf(p)) = p
         /\ SlotOf(p) <= SlotOf(MaxPage)
<1>1. MaxPage \in Nat /\ MaxPage < (Entries - 1) * Entries /\ Entries \in Nat /\ Entries > 1
  BY TableAssumption
<1>2. p \in Nat /\ p # 0 /\ p <= MaxPage BY <1>1 DEF HeapPages, HeapStart
<1>3. (Entries - 1) * Entries = Entries * Entries - Entries /\ Entries * Entries \in Nat BY <1>1
<1>4. p \in AllPages BY <1>1, <1>2, <1>3 DEF AllPages
<1>5. SlotOf(p) \in Slots /\ EntryOf(p) \in Slots /\ At(SlotOf(p), EntryOf(p)) = p BY <1>4, PlaceOfPage
<1>6. SlotOf(p) # Self
  <2> SUFFICES ASSUME SlotOf(p) = Self PROVE FALSE OBVIOUS
  <2>1. p = Self * Entries + EntryOf(p) BY <1>5 DEF At
  <2>2. EntryOf(p) \in Nat BY <1>5 DEF Slots
  <2> QED BY <1>1, <1>2, <1>3, <2>1, <2>2 DEF Self
<1> QED BY <1>1, <1>2, <1>4, <1>5, <1>6, SlotsOrdered

LEMMA NodePlace ==
  ASSUME NEW n \in Nodes
  PROVE  /\ n \in AllPages /\ n # 0 /\ n # Window(0) /\ n # Window(Self)
         /\ SlotOf(n) # Self => n \in HeapPages
         /\ SlotOf(n) = Self => EntryOf(n) \in Middle /\ n = Window(EntryOf(n))
<1>1. CASE n \in HeapPages BY <1>1, HeapPlace, SlotNames, WindowPlace
<1>2. CASE n \notin HeapPages
  <2>1. PICK s \in Middle : n = Window(s) BY <1>2 DEF Nodes
  <2>2. s \in Slots /\ s # 0 /\ s # Self BY <2>1 DEF Middle
  <2>3. n \in AllPages /\ SlotOf(n) = Self /\ EntryOf(n) = s BY <2>1, <2>2, WindowPlace
  <2> QED BY <2>1, <2>2, <2>3, SlotNames, WindowPlace
<1> QED BY <1>1, <1>2

LEMMA FrameNames ==
  /\ Reserved \subseteq Frames /\ LowFrame \in Reserved /\ Directory \in Reserved
  /\ KernelTable \in Reserved /\ Directory # KernelTable /\ LowFrame # Directory
  /\ LowFrame # KernelTable /\ None \notin Frames
  /\ Frames \subseteq Nat
BY TableAssumption DEF Reserved, LowFrame, Directory, KernelTable, Frames, None

-------------------------------------------------------------------------------
(* The processor's walk *)

Cells == [Slots -> Frames \cup {None}]
View(m) == [p \in AllPages |-> Walk(m, p)]
Change(w, n, f) == [p \in AllPages |-> IF p = n THEN f ELSE w[p]]

\* Each table is in one slot of the directory.
Distinct(m) ==
    \A s, r \in Slots : m[Directory][s] = m[Directory][r] /\ m[Directory][s] # None => s = r
MemTyped(m) == m \in [Frames -> Cells]
\* The directory's last entry is the directory.
SelfMapped(m) == m[Directory][Self] = Directory

LEMMA WalkTyped ==
  ASSUME NEW m, MemTyped(m), NEW p \in AllPages
  PROVE  View(m)[p] = Walk(m, p) /\ Walk(m, p) \in Frames \cup {None}
<1>1. SlotOf(p) \in Slots /\ EntryOf(p) \in Slots BY PlaceOfPage
<1>2. m[Directory][SlotOf(p)] \in Frames \cup {None} BY <1>1, FrameNames DEF MemTyped, Cells
<1> QED BY <1>1, <1>2 DEF MemTyped, Cells, Walk, View

\* Through a window the processor sees the directory.
LEMMA WalkWindow ==
  ASSUME NEW m, MemTyped(m), SelfMapped(m), NEW s \in Slots
  PROVE  Walk(m, Window(s)) = m[Directory][s] /\ View(m)[Window(s)] = m[Directory][s]
<1>1. /\ Window(s) \in AllPages /\ SlotOf(Window(s)) = Self /\ EntryOf(Window(s)) = s
  BY WindowPlace
<1>2. Directory # None BY FrameNames
<1> QED BY <1>1, <1>2 DEF Walk, View, SelfMapped

\* An entry of a table is written.
LEMMA WriteEntry ==
  ASSUME NEW m, MemTyped(m), Distinct(m), SelfMapped(m),
         NEW s \in Slots, s # Self, NEW e \in Slots, NEW t, t = m[Directory][s], t # None,
         NEW v \in Frames \cup {None}
  PROVE  /\ MemTyped([m EXCEPT ![t][e] = v])
         /\ View([m EXCEPT ![t][e] = v]) = Change(View(m), At(s, e), v)
         /\ [m EXCEPT ![t][e] = v][Directory] = m[Directory]
<1> DEFINE x == [m EXCEPT ![t][e] = v]
<1>1. t \in Frames /\ m[t] \in Cells BY FrameNames DEF MemTyped, Cells
<1>2. t # Directory BY SlotNames DEF Distinct, SelfMapped
<1>3. /\ x \in [Frames -> Cells] /\ x[t][e] = v /\ \A r \in Slots \ {e} : x[t][r] = m[t][r]
      /\ \A f \in Frames \ {t} : x[f] = m[f]
  BY <1>1 DEF MemTyped, Cells
<1>4. x[Directory] = m[Directory] BY <1>2, <1>3, FrameNames
<1> HIDE DEF x
<1>5. ASSUME NEW p \in AllPages
      PROVE  Walk(x, p) = IF p = At(s, e) THEN v ELSE Walk(m, p)
  <2>1. SlotOf(p) \in Slots /\ EntryOf(p) \in Slots /\ At(SlotOf(p), EntryOf(p)) = p BY PlaceOfPage
  <2>2. SlotOf(At(s, e)) = s /\ EntryOf(At(s, e)) = e BY PlaceOfAt
  <2>3. m[Directory][SlotOf(p)] \in Frames \cup {None} BY <2>1, FrameNames DEF MemTyped, Cells
  <2>4. CASE SlotOf(p) = s BY <2>1, <2>2, <2>4, <1>3, <1>4 DEF Walk
  <2>5. CASE SlotOf(p) # s
    <3>1. m[Directory][SlotOf(p)] # t BY <2>1, <2>5 DEF Distinct
    <3> QED BY <2>2, <2>3, <2>5, <3>1, <1>3, <1>4 DEF Walk
  <2> QED BY <2>4, <2>5
<1>6. View(x) = Change(View(m), At(s, e), v) BY <1>5 DEF View, Change
<1> QED BY <1>3, <1>4, <1>6 DEF x, MemTyped

\* A new table, without entries, is entered in the directory.
LEMMA EnterTable ==
  ASSUME NEW m, MemTyped(m), Distinct(m), SelfMapped(m), NEW s \in Middle,
         m[Directory][s] = None, NEW t \in Frames, \A r \in Slots : m[Directory][r] # t
  PROVE  /\ MemTyped(NewTable([m EXCEPT ![Directory][s] = t], t))
         /\ View(NewTable([m EXCEPT ![Directory][s] = t], t)) = Change(View(m), Window(s), t)
         /\ NewTable([m EXCEPT ![Directory][s] = t], t)[Directory][s] = t
<1> DEFINE y == [m EXCEPT ![Directory][s] = t]
           x == NewTable(y, t)
<1>1. s \in Slots /\ s # Self /\ Directory \in Frames BY FrameNames DEF Middle
<1>2. t # Directory /\ t # None BY FrameNames, SlotNames DEF SelfMapped
<1>3. NoEntries \in Cells /\ \A e \in Slots : NoEntries[e] = None BY DEF NoEntries, Cells
<1>4. /\ y \in [Frames -> Cells] /\ y[Directory][s] = t
      /\ \A r \in Slots \ {s} : y[Directory][r] = m[Directory][r]
      /\ \A f \in Frames \ {Directory} : y[f] = m[f]
  BY <1>1 DEF MemTyped, Cells
<1>5. /\ x \in [Frames -> Cells] /\ x[Directory][s] = t
      /\ \A r \in Slots \ {s} : x[Directory][r] = m[Directory][r]
      /\ \A f \in Frames \ {Directory, t} : x[f] = m[f]
      /\ x[t] = NoEntries
  <2> HIDE DEF y, NoEntries
  <2> QED BY <1>1, <1>2, <1>3, <1>4 DEF NewTable
<1> HIDE DEF x, y
<1>6. ASSUME NEW p \in AllPages
      PROVE  Walk(x, p) = IF p = Window(s) THEN t ELSE Walk(m, p)
  <2>1. SlotOf(p) \in Slots /\ EntryOf(p) \in Slots /\ At(SlotOf(p), EntryOf(p)) = p BY PlaceOfPage
  <2>2. Window(s) = At(Self, s) /\ SlotOf(Window(s)) = Self /\ EntryOf(Window(s)) = s
    BY <1>1, WindowPlace DEF Window, At
  <2>3. CASE SlotOf(p) = s
    <3>1. Walk(m, p) = None BY <2>3 DEF Walk
    <3>2. Walk(x, p) = None BY <2>1, <2>3, <1>2, <1>3, <1>5 DEF Walk
    <3> QED BY <3>1, <3>2, <2>2, <2>3, <1>1
  <2>4. CASE SlotOf(p) = Self
    <3>1. x[Directory][Self] = Directory BY <1>1, <1>5, SlotNames DEF SelfMapped
    <3>2. Walk(x, p) = x[Directory][EntryOf(p)] /\ Walk(m, p) = m[Directory][EntryOf(p)]
      BY <2>4, <3>1, FrameNames DEF Walk, SelfMapped
    <3> QED BY <3>2, <2>1, <2>2, <2>4, <1>5
  <2>5. CASE SlotOf(p) # s /\ SlotOf(p) # Self
    <3>1. x[Directory][SlotOf(p)] = m[Directory][SlotOf(p)] BY <2>1, <2>5, <1>5
    <3>2. m[Directory][SlotOf(p)] \in Frames \cup {None} BY <2>1, <1>1 DEF MemTyped, Cells
    <3>3. p # Window(s) BY <2>2, <2>5
    <3>4. m[Directory][SlotOf(p)] # Directory
      BY <2>1, <2>5, SlotNames, FrameNames DEF Distinct, SelfMapped
    <3> QED BY <3>1, <3>2, <3>3, <3>4, <2>1, <1>5 DEF Walk
  <2> QED BY <2>3, <2>4, <2>5
<1>7. View(x) = Change(View(m), Window(s), t) BY <1>6 DEF View, Change
<1> QED BY <1>5, <1>7 DEF x, y, MemTyped

\* A table without entries is taken out of the directory.
LEMMA LeaveTable ==
  ASSUME NEW m, MemTyped(m), Distinct(m), SelfMapped(m), NEW s \in Middle,
         \A p \in AllPages : SlotOf(p) = s => Walk(m, p) = None
  PROVE  /\ MemTyped([m EXCEPT ![Directory][s] = None])
         /\ View([m EXCEPT ![Directory][s] = None]) = Change(View(m), Window(s), None)
         /\ SelfMapped([m EXCEPT ![Directory][s] = None])
<1> DEFINE x == [m EXCEPT ![Directory][s] = None]
<1>1. s \in Slots /\ s # Self /\ Directory \in Frames BY FrameNames DEF Middle
<1>2. /\ x \in [Frames -> Cells] /\ x[Directory][s] = None
      /\ \A r \in Slots \ {s} : x[Directory][r] = m[Directory][r]
      /\ \A f \in Frames \ {Directory} : x[f] = m[f]
  BY <1>1 DEF MemTyped, Cells
<1> HIDE DEF x
<1>3. x[Directory][Self] = Directory BY <1>1, <1>2, SlotNames DEF SelfMapped
<1>4. ASSUME NEW p \in AllPages
      PROVE  Walk(x, p) = IF p = Window(s) THEN None ELSE Walk(m, p)
  <2>1. SlotOf(p) \in Slots /\ EntryOf(p) \in Slots /\ At(SlotOf(p), EntryOf(p)) = p BY PlaceOfPage
  <2>2. Window(s) = At(Self, s) /\ SlotOf(Window(s)) = Self /\ EntryOf(Window(s)) = s
    BY <1>1, WindowPlace DEF Window, At
  <2>3. CASE SlotOf(p) = s
    <3>1. Walk(m, p) = None BY <2>3
    <3>2. Walk(x, p) = None BY <2>1, <2>3, <1>2 DEF Walk
    <3> QED BY <3>1, <3>2
  <2>4. CASE SlotOf(p) = Self
    <3>1. Walk(x, p) = x[Directory][EntryOf(p)] /\ Walk(m, p) = m[Directory][EntryOf(p)]
      BY <2>4, <1>3, FrameNames DEF Walk, SelfMapped
    <3> QED BY <3>1, <2>1, <2>2, <2>4, <1>2
  <2>5. CASE SlotOf(p) # s /\ SlotOf(p) # Self
    <3>1. x[Directory][SlotOf(p)] = m[Directory][SlotOf(p)] BY <2>1, <2>5, <1>2
    <3>2. m[Directory][SlotOf(p)] \in Frames \cup {None} BY <2>1, <1>1 DEF MemTyped, Cells
    <3>3. p # Window(s) BY <2>2, <2>5
    <3>4. m[Directory][SlotOf(p)] # Directory
      BY <2>1, <2>5, SlotNames, FrameNames DEF Distinct, SelfMapped
    <3> QED BY <3>1, <3>2, <3>3, <3>4, <2>1, <1>2 DEF Walk
  <2> QED BY <2>3, <2>4, <2>5
<1>5. View(x) = Change(View(m), Window(s), None) BY <1>4 DEF View, Change
<1> QED BY <1>2, <1>3, <1>5 DEF x, MemTyped, SelfMapped

\* A frame that is no table is written.
LEMMA WriteFrame ==
  ASSUME NEW m, MemTyped(m), SelfMapped(m), NEW f \in Frames, \A r \in Slots : m[Directory][r] # f
  PROVE  /\ MemTyped([m EXCEPT ![f] = Data]) /\ View([m EXCEPT ![f] = Data]) = View(m)
         /\ SelfMapped([m EXCEPT ![f] = Data])
<1> DEFINE x == [m EXCEPT ![f] = Data]
<1>1. Data \in Cells BY FrameNames DEF Data, Cells
<1>2. f # Directory BY SlotNames DEF SelfMapped
<1>3. x \in [Frames -> Cells] /\ \A g \in Frames \ {f} : x[g] = m[g] BY <1>1 DEF MemTyped
<1> HIDE DEF x
<1>4. x[Directory] = m[Directory] BY <1>2, <1>3, FrameNames
<1>5. ASSUME NEW p \in AllPages PROVE Walk(x, p) = Walk(m, p)
  <2>1. SlotOf(p) \in Slots BY PlaceOfPage
  <2>2. m[Directory][SlotOf(p)] \in Frames \cup {None} BY <2>1, FrameNames DEF MemTyped, Cells
  <2> QED BY <2>1, <2>2, <1>3, <1>4 DEF Walk
<1>6. View(x) = View(m) BY <1>5 DEF View
<1> QED BY <1>3, <1>4, <1>6 DEF x, MemTyped, SelfMapped

-------------------------------------------------------------------------------
(* The inductive invariant *)

\* Pages M are mapped; the tables are theirs, and in the slots X.
Fits(w, M, X) ==
    /\ w[0] = LowFrame /\ w[Window(0)] = KernelTable
    /\ \A s \in Middle : w[Window(s)] # None <=> s \in X \/ \E p \in M : SlotOf(p) = s
    /\ \A p \in AllPages : SlotOf(p) # Self => (w[p] # None <=> p \in M \cup {0})

\* The frames u are the kernel's and those of pages and tables, each of one.
Owned(w, u) ==
    /\ \A p \in Nodes : w[p] \notin Reserved
    /\ \A p, q \in Nodes : w[p] = w[q] /\ w[p] # None => p = q
    /\ \A f : f \in u <=> f \in Reserved \/ (f # None /\ \E p \in Nodes : w[p] = f)

\* What the processor has cached, it would find.
Coherent(w, t) == DOMAIN t \subseteq AllPages /\ \A p \in DOMAIN t : t[p] = w[p] /\ w[p] # None

\* The pages that are mapped: free_page takes them off one by one.
Mapped ==
    IF todo.op = "free" THEN (HeapStart .. todo.end - 1) \cup todo.pages
    ELSE HeapStart .. heapEnd - 1
\* The slot of the table that unmap_virtual_address is to drop, if it is to drop
\* one: it then maps no page of M.
Idles(x) == {s \in Slots : x = Window(s)}
Dropped(x, M) == x = None \/ \E s \in Middle : x = Window(s) /\ \A p \in M : SlotOf(p) # s

Sound(m, M, X, u) ==
    MemTyped(m) /\ SelfMapped(m) /\ Fits(View(m), M, X) /\ Owned(View(m), u)

\* How far a call has come.
CallOK ==
    /\ heapEnd \in HeapStart .. MaxPage + 1
    /\ todo \in [op : {"idle", "alloc", "free"}, pages : SUBSET Nat, end : Nat, table : Int]
    /\ todo.op = "idle" => todo = Idle
    /\ todo.op = "alloc" =>
        /\ todo.pages = heapEnd .. todo.end - 1 /\ heapEnd <= todo.end /\ todo.end <= MaxPage + 1
    /\ todo.op = "free" =>
        /\ HeapStart <= todo.end /\ todo.end <= heapEnd
        /\ todo.pages \subseteq todo.end .. heapEnd - 1
    /\ todo.table # None => todo.op = "free"
    /\ Dropped(todo.table, Mapped)

IInv ==
    Sound(mem, Mapped, Idles(todo.table), used) /\ Coherent(View(mem), tlb) /\ CallOK

-------------------------------------------------------------------------------
(* Changes of what the walk finds *)

LEMMA AddOwned ==
  ASSUME NEW w, NEW u, Owned(w, u), NEW n \in Nodes, w[n] = None, NEW f \in Frames, f \notin u
  PROVE  Owned(Change(w, n, f), u \cup {f})
<1> DEFINE x == Change(w, n, f)
<1>1. n \in AllPages /\ Nodes \subseteq AllPages BY NodePlace
<1>2. x[n] = f /\ \A p \in Nodes \ {n} : x[p] = w[p] BY <1>1 DEF Change
<1>3. f # None /\ f \notin Reserved /\ \A p \in Nodes : w[p] # f BY FrameNames DEF Owned
<1> HIDE DEF x
<1>4. \A p \in Nodes : x[p] \notin Reserved BY <1>2, <1>3 DEF Owned
<1>5. \A p, q \in Nodes : x[p] = x[q] /\ x[p] # None => p = q BY <1>2, <1>3 DEF Owned
<1>6. ASSUME NEW g
      PROVE  g \in u \cup {f} <=> g \in Reserved \/ (g # None /\ \E p \in Nodes : x[p] = g)
  <2>1. g \in u <=> g \in Reserved \/ (g # None /\ \E p \in Nodes : w[p] = g) BY DEF Owned
  <2>2. (g # None /\ \E p \in Nodes : x[p] = g)
        <=> g = f \/ (g # None /\ \E p \in Nodes : w[p] = g)
    BY <1>2, <1>3
  <2> QED BY <2>1, <2>2
<1>7. Owned(x, u \cup {f}) BY <1>4, <1>5, <1>6 DEF Owned
<1> QED BY <1>7 DEF x

LEMMA DropOwned ==
  ASSUME NEW w, NEW u, Owned(w, u), NEW n \in Nodes, w[n] # None
  PROVE  Owned(Change(w, n, None), u \ {w[n]})
<1> DEFINE x == Change(w, n, None)
<1>1. n \in AllPages /\ Nodes \subseteq AllPages BY NodePlace
<1>2. x[n] = None /\ \A p \in Nodes \ {n} : x[p] = w[p] BY <1>1 DEF Change
<1>3. None \notin Reserved BY FrameNames
<1> HIDE DEF x
<1>4. \A p \in Nodes : x[p] \notin Reserved BY <1>2, <1>3 DEF Owned
<1>5. \A p, q \in Nodes : x[p] = x[q] /\ x[p] # None => p = q BY <1>2 DEF Owned
<1>6. ASSUME NEW g
      PROVE  g \in u \ {w[n]} <=> g \in Reserved \/ (g # None /\ \E p \in Nodes : x[p] = g)
  <2>1. g \in u <=> g \in Reserved \/ (g # None /\ \E p \in Nodes : w[p] = g) BY DEF Owned
  <2>2. (g # None /\ \E p \in Nodes : x[p] = g)
        <=> g # w[n] /\ (g # None /\ \E p \in Nodes : w[p] = g)
    BY <1>2 DEF Owned
  <2>3. w[n] \notin Reserved BY DEF Owned
  <2> QED BY <2>1, <2>2, <2>3
<1>7. Owned(x, u \ {w[n]}) BY <1>4, <1>5, <1>6 DEF Owned
<1> QED BY <1>7 DEF x

LEMMA AddCoherent ==
  ASSUME NEW w, NEW t, Coherent(w, t), NEW n, w[n] = None, NEW f
  PROVE  Coherent(Change(w, n, f), t)
BY DEF Coherent, Change

LEMMA DropCoherent ==
  ASSUME NEW w, NEW t, Coherent(w, t), NEW n, NEW f
  PROVE  Coherent(Change(w, n, f), Flushed(t, n))
BY DEF Coherent, Change, Flushed, Restrict

LEMMA CacheMore ==
  ASSUME NEW w, NEW t, Coherent(w, t), NEW n \in AllPages, w[n] # None
  PROVE  Coherent(w, Cached(t, n, w[n]))
BY DEF Coherent, Cached

LEMMA FitsTable ==
  ASSUME NEW w, NEW M, NEW X, Fits(w, M, X), NEW s \in Middle, NEW f \in Frames
  PROVE  Fits(Change(w, Window(s), f), M, X \cup {s})
<1> DEFINE x == Change(w, Window(s), f)
<1>1. /\ Window(s) \in Nodes /\ Window(s) \in AllPages /\ Window(s) # 0 /\ Window(s) # Window(0)
      /\ SlotOf(Window(s)) = Self
  <2>1. Window(s) \in Nodes BY DEF Nodes
  <2>2. s \in Slots BY DEF Middle
  <2> QED BY <2>1, <2>2, NodePlace, WindowPlace
<1>2. \A r \in Middle : Window(r) \in AllPages /\ (Window(r) = Window(s) => r = s)
  BY WindowPlace DEF Middle
<1>3. x[Window(s)] = f /\ f # None /\ \A p \in AllPages : p # Window(s) => x[p] = w[p]
  BY <1>1, FrameNames DEF Change
<1>4. 0 \in AllPages /\ Window(0) \in AllPages BY SlotNames, WindowPlace
<1> HIDE DEF x
<1>5. Fits(x, M, X \cup {s})
  <2>1. \A r \in Middle : x[Window(r)] # None <=> r \in X \cup {s} \/ \E p \in M : SlotOf(p) = r
    BY <1>2, <1>3 DEF Fits
  <2>2. \A p \in AllPages : SlotOf(p) # Self => (x[p] # None <=> p \in M \cup {0})
    BY <1>1, <1>3 DEF Fits
  <2> QED BY <1>1, <1>3, <1>4, <2>1, <2>2 DEF Fits
<1> QED BY <1>5 DEF x

LEMMA FitsUntable ==
  ASSUME NEW w, NEW M, NEW X, Fits(w, M, X), NEW s \in Middle, \A p \in M : SlotOf(p) # s
  PROVE  Fits(Change(w, Window(s), None), M, X \ {s})
<1> DEFINE x == Change(w, Window(s), None)
<1>1. /\ Window(s) \in Nodes /\ Window(s) \in AllPages /\ Window(s) # 0 /\ Window(s) # Window(0)
      /\ SlotOf(Window(s)) = Self
  <2>1. Window(s) \in Nodes BY DEF Nodes
  <2>2. s \in Slots BY DEF Middle
  <2> QED BY <2>1, <2>2, NodePlace, WindowPlace
<1>2. \A r \in Middle : Window(r) \in AllPages /\ (Window(r) = Window(s) => r = s)
  BY WindowPlace DEF Middle
<1>3. x[Window(s)] = None /\ \A p \in AllPages : p # Window(s) => x[p] = w[p]
  BY <1>1 DEF Change
<1>4. 0 \in AllPages /\ Window(0) \in AllPages BY SlotNames, WindowPlace
<1> HIDE DEF x
<1>5. Fits(x, M, X \ {s})
  <2>1. \A r \in Middle : x[Window(r)] # None <=> r \in X \ {s} \/ \E p \in M : SlotOf(p) = r
    BY <1>2, <1>3 DEF Fits
  <2>2. \A p \in AllPages : SlotOf(p) # Self => (x[p] # None <=> p \in M \cup {0})
    BY <1>1, <1>3 DEF Fits
  <2> QED BY <1>1, <1>3, <1>4, <2>1, <2>2 DEF Fits
<1> QED BY <1>5 DEF x

LEMMA FitsPage ==
  ASSUME NEW w, NEW M, NEW X, Fits(w, M, X), NEW n \in HeapPages, NEW f \in Frames,
         SlotOf(n) # 0 => w[Window(SlotOf(n))] # None
  PROVE  Fits(Change(w, n, f), M \cup {n}, X \ {SlotOf(n)})
<1> DEFINE x == Change(w, n, f)
<1>1. n \in AllPages /\ n # 0 /\ SlotOf(n) # Self /\ SlotOf(n) \in Slots BY HeapPlace
<1>2. \A r \in Slots : Window(r) \in AllPages /\ Window(r) # n BY <1>1, WindowPlace
<1>3. x[n] = f /\ f # None /\ \A p \in AllPages : p # n => x[p] = w[p]
  BY <1>1, FrameNames DEF Change
<1>4. 0 \in AllPages /\ 0 \in Slots BY SlotNames
<1> HIDE DEF x
<1>5. Fits(x, M \cup {n}, X \ {SlotOf(n)})
  <2>1. ASSUME NEW r \in Middle
        PROVE  x[Window(r)] # None <=> r \in X \ {SlotOf(n)} \/ \E p \in M \cup {n} : SlotOf(p) = r
    <3>1. r \in Slots /\ r # 0 BY DEF Middle
    <3>2. x[Window(r)] = w[Window(r)] BY <1>2, <1>3, <3>1
    <3>3. w[Window(r)] # None <=> r \in X \/ \E p \in M : SlotOf(p) = r BY DEF Fits
    <3> QED BY <3>1, <3>2, <3>3
  <2>2. \A p \in AllPages : SlotOf(p) # Self => (x[p] # None <=> p \in (M \cup {n}) \cup {0})
    BY <1>3 DEF Fits
  <2> QED BY <1>1, <1>2, <1>3, <1>4, <2>1, <2>2 DEF Fits
<1> QED BY <1>5 DEF x

LEMMA FitsUnpage ==
  ASSUME NEW w, NEW M, NEW X, Fits(w, M, X), NEW n \in HeapPages, NEW Y,
         \A r \in Middle : r \in Y \/ (\E p \in M \ {n} : SlotOf(p) = r)
                           <=> r \in X \/ \E p \in M : SlotOf(p) = r
  PROVE  Fits(Change(w, n, None), M \ {n}, Y)
<1> DEFINE x == Change(w, n, None)
<1>1. n \in AllPages /\ n # 0 /\ SlotOf(n) # Self /\ SlotOf(n) \in Slots BY HeapPlace
<1>2. \A r \in Slots : Window(r) \in AllPages /\ Window(r) # n BY <1>1, WindowPlace
<1>3. x[n] = None /\ \A p \in AllPages : p # n => x[p] = w[p]
  BY <1>1 DEF Change
<1>4. 0 \in AllPages /\ 0 \in Slots BY SlotNames
<1> HIDE DEF x
<1>5. Fits(x, M \ {n}, Y)
  <2>1. ASSUME NEW r \in Middle
        PROVE  x[Window(r)] # None <=> r \in Y \/ \E p \in M \ {n} : SlotOf(p) = r
    <3>1. r \in Slots BY DEF Middle
    <3>2. x[Window(r)] = w[Window(r)] BY <1>2, <1>3, <3>1
    <3>3. w[Window(r)] # None <=> r \in X \/ \E p \in M : SlotOf(p) = r BY DEF Fits
    <3> QED BY <3>2, <3>3
  <2>2. \A p \in AllPages : SlotOf(p) # Self => (x[p] # None <=> p \in (M \ {n}) \cup {0})
    BY <1>1, <1>3 DEF Fits
  <2> QED BY <1>1, <1>2, <1>3, <1>4, <2>1, <2>2 DEF Fits
<1> QED BY <1>5 DEF x

-------------------------------------------------------------------------------
(* What the invariant says of tables and frames *)

LEMMA TablesFound ==
  ASSUME NEW m, NEW M, NEW X, NEW u, Sound(m, M, X, u)
  PROVE  /\ Distinct(m) /\ m[Directory][0] = KernelTable
         /\ \A s \in Slots : m[Directory][s] # None => m[Directory][s] \in u
         /\ \A s \in Slots, p \in HeapPages :
                Walk(m, p) # None => m[Directory][s] # Walk(m, p)
<1> USE DEF Sound
<1>1. \A s \in Slots : m[Directory][s] = View(m)[Window(s)] BY WalkWindow
<1>2. m[Directory][0] = KernelTable /\ m[Directory][Self] = Directory
  BY <1>1, SlotNames DEF Fits, SelfMapped
<1>3. \A s \in Slots : s = 0 \/ s = Self \/ s \in Middle BY DEF Middle
<1>4. \A s \in Middle : /\ Window(s) \in Nodes /\ s \in Slots /\ m[Directory][s] \notin Reserved
                        /\ m[Directory][s] # None => m[Directory][s] \in u
  BY <1>1 DEF Owned, Nodes, Middle
<1>5. Distinct(m)
  <2> SUFFICES ASSUME NEW s \in Slots, NEW r \in Slots,
                      m[Directory][s] = m[Directory][r], m[Directory][s] # None
               PROVE  s = r
    BY DEF Distinct
  <2>1. CASE s \in Middle /\ r \in Middle
    <3>1. Window(s) = Window(r) BY <2>1, <1>1, <1>4 DEF Owned
    <3> QED BY <3>1, WindowPlace
  <2>2. CASE ~(s \in Middle /\ r \in Middle)
    BY <2>2, <1>2, <1>3, <1>4, FrameNames, SlotNames
  <2> QED BY <2>1, <2>2
<1>6. \A s \in Slots : m[Directory][s] # None => m[Directory][s] \in u
  BY <1>2, <1>3, <1>4, FrameNames DEF Owned
<1>7. ASSUME NEW s \in Slots, NEW p \in HeapPages, Walk(m, p) # None
      PROVE  m[Directory][s] # Walk(m, p)
  <2>1. p \in Nodes /\ p \in AllPages /\ SlotOf(p) # Self BY HeapPlace DEF Nodes
  <2>2. View(m)[p] = Walk(m, p) /\ Walk(m, p) \notin Reserved BY <2>1, WalkTyped DEF Owned
  <2>3. CASE s \in Middle
    <3>1. Window(s) # p BY <2>1, WindowPlace
    <3> QED BY <2>1, <2>2, <2>3, <3>1, <1>1, <1>4, <1>7 DEF Owned
  <2>4. CASE s \notin Middle BY <2>2, <2>4, <1>2, <1>3, FrameNames
  <2> QED BY <2>3, <2>4
<1> QED BY <1>2, <1>5, <1>6, <1>7

LEMMA ReachedIsWalk ==
  ASSUME NEW m, MemTyped(m), Coherent(View(m), tlb), NEW p \in AllPages
  PROVE  Reached(m, p) = Walk(m, p)
BY WalkTyped DEF Reached, Coherent

\* Too few places own frames for all frames to be in use.
LEMMA FrameLeft ==
  ASSUME NEW S, IsFiniteSet(S), Cardinality(S) < FreeFrames, NEW u, NEW g,
         \A f \in Frames \ Reserved : f \in u => \E i \in S : g[i] = f
  PROVE  ~(Frames \subseteq u)
<1> SUFFICES ASSUME Frames \subseteq u PROVE FALSE OBVIOUS
<1> DEFINE T == 3 .. 2 + FreeFrames
           h == [f \in T |-> CHOOSE i \in S : g[i] = f]
<1>1. FreeFrames \in Nat BY TableAssumption
<1>2. T \subseteq Frames \ Reserved
  BY <1>1 DEF Frames, Reserved, LowFrame, Directory, KernelTable
<1>3. IsFiniteSet(T) /\ Cardinality(T) = FreeFrames
  <2>1. IsFiniteSet(T) /\ Cardinality(T) = IF 3 > 2 + FreeFrames THEN 0 ELSE 2 + FreeFrames - 3 + 1
    BY <1>1, FS_Interval
  <2> QED BY <2>1, <1>1
<1>4. \A f \in T : h[f] \in S /\ g[h[f]] = f BY <1>2
<1>5. h \in [T -> S] BY <1>4
<1> HIDE DEF h, T
<1>6. \E x, y \in T : x # y /\ h[x] = h[y] BY <1>3, <1>5, FS_PigeonHole
<1> QED BY <1>4, <1>6

\* While page n is not mapped there is a frame for it, and one for its table if
\* that is missing.
LEMMA FramesLeft ==
  ASSUME NEW w, NEW M, M \subseteq HeapPages, Fits(w, M, {}), NEW u, Owned(w, u),
         NEW n \in HeapPages, w[n] = None, NEW f
  PROVE  /\ ~(Frames \subseteq u)
         /\ SlotOf(n) \in Middle /\ w[Window(SlotOf(n))] = None => ~(Frames \subseteq u \cup {f})
<1> DEFINE N == MaxPage + SlotOf(MaxPage)
           S == (1 .. N) \ {n}
           g == [i \in S |-> IF i <= MaxPage THEN w[i]
                             ELSE IF w[Window(i - MaxPage)] # None THEN w[Window(i - MaxPage)]
                             ELSE f]
<1>1. MaxPage \in Nat /\ FreeFrames \in Nat /\ FreeFrames >= N /\ SlotOf(MaxPage) \in Nat
  <2>1. MaxPage \in Nat BY TableAssumption
  <2>2. SlotOf(MaxPage) \in Nat BY <2>1, PlaceOf
  <2>3. FreeFrames >= MaxPage + SlotOf(MaxPage) BY TableAssumption DEF SlotOf
  <2> QED BY <2>1, <2>2, <2>3, TableAssumption
<1>2. n \in Nat /\ n # 0 /\ n <= MaxPage /\ SlotOf(n) \in Slots /\ SlotOf(n) # Self BY HeapPlace
<1>3. IsFiniteSet(S) /\ Cardinality(S) < FreeFrames
  <2>1. n \in 1 .. N /\ N \in Nat BY <1>1, <1>2
  <2> HIDE DEF N
  <2>2. IsFiniteSet(1 .. N) /\ Cardinality(1 .. N) = N
    <3>1. IsFiniteSet(1 .. N) /\ Cardinality(1 .. N) = IF 1 > N THEN 0 ELSE N - 1 + 1
      BY <2>1, FS_Interval
    <3> QED BY <3>1, <2>1
  <2>3. IsFiniteSet(S) /\ Cardinality(S) = N - 1 BY <2>1, <2>2, FS_RemoveElement
  <2> QED BY <1>1, <2>1, <2>3
<1>4. ASSUME NEW x, x \notin Reserved, x \in u PROVE \E i \in S : g[i] = x
  <2>1. x # None /\ \E p \in Nodes : w[p] = x BY <1>4 DEF Owned
  <2>2. PICK p \in Nodes : w[p] = x BY <2>1
  <2>3. CASE p \in HeapPages
    <3>1. p \in Nat /\ p # 0 /\ p <= MaxPage BY <2>3, HeapPlace
    <3>2. p \in S BY <1>1, <2>1, <2>2, <3>1
    <3> QED BY <2>2, <3>1, <3>2
  <2>4. CASE p \notin HeapPages
    <3>1. PICK s \in Middle : p = Window(s) BY <2>4 DEF Nodes
    <3>2. PICK q \in M : SlotOf(q) = s BY <2>1, <2>2, <3>1 DEF Fits
    <3>3. s \in Nat /\ s # 0 /\ s <= SlotOf(MaxPage) BY <3>1, <3>2, HeapPlace, SlotNames DEF Middle
    <3>4. MaxPage + s \in S /\ ~(MaxPage + s <= MaxPage) /\ (MaxPage + s) - MaxPage = s
      BY <1>1, <1>2, <3>3
    <3>5. g[MaxPage + s] = x BY <2>1, <2>2, <3>1, <3>4
    <3> QED BY <3>4, <3>5
  <2> QED BY <2>3, <2>4
<1>5. ASSUME SlotOf(n) \in Middle, w[Window(SlotOf(n))] = None PROVE \E i \in S : g[i] = f
  <2>1. SlotOf(n) \in Nat /\ SlotOf(n) # 0 /\ SlotOf(n) <= SlotOf(MaxPage)
    BY <1>5, HeapPlace, SlotNames DEF Middle
  <2> DEFINE i == MaxPage + SlotOf(n)
  <2>2. i \in S /\ ~(i <= MaxPage) /\ i - MaxPage = SlotOf(n) BY <1>1, <1>2, <2>1
  <2>3. g[i] = f BY <1>5, <2>2
  <2> QED BY <2>2, <2>3
<1> HIDE DEF g, S
<1>6. ~(Frames \subseteq u) BY <1>3, <1>4, FrameLeft
<1>7. ASSUME SlotOf(n) \in Middle, w[Window(SlotOf(n))] = None PROVE ~(Frames \subseteq u \cup {f})
  BY <1>3, <1>4, <1>5, <1>7, FrameLeft
<1> QED BY <1>6, <1>7

\* A set of numbers has a least one: the one below which fewest lie.
LEMMA Least ==
  ASSUME NEW T \in SUBSET Nat, T # {}
  PROVE  Min(T) \in T
<1> DEFINE UpTo(x) == T \cap (0 .. x)
           family == {UpTo(x) : x \in T}
<1>1. family \subseteq FiniteSubsetsOf(Nat)
  <2> SUFFICES ASSUME NEW x \in T PROVE UpTo(x) \in FiniteSubsetsOf(Nat) OBVIOUS
  <2>1. IsFiniteSet(0 .. x) BY FS_Interval
  <2>2. IsFiniteSet(UpTo(x)) BY <2>1, FS_Subset
  <2> QED BY <2>2 DEF FiniteSubsetsOf
<1>2. IsWellFoundedOn(StrictSubsetOrdering(Nat), FiniteSubsetsOf(Nat)) BY FS_StrictSubsetOrderingWellFounded
<1>3. family # {} OBVIOUS
<1>4. PICK least \in family : \A other \in family : ~(<<other, least>> \in StrictSubsetOrdering(Nat))
  <2> HIDE DEF family
  <2> QED BY <1>1, <1>2, <1>3, WFMin
<1>5. PICK m \in T : least = UpTo(m) BY <1>4
<1>6. ASSUME NEW y \in T PROVE m <= y
  <2> SUFFICES ASSUME y < m PROVE FALSE OBVIOUS
  <2>1. UpTo(y) \subseteq UpTo(m) /\ m \in UpTo(m) /\ m \notin UpTo(y) OBVIOUS
  <2>2. UpTo(y) \in SUBSET Nat /\ UpTo(m) \in SUBSET Nat /\ UpTo(y) # UpTo(m) BY <2>1
  <2>3. <<UpTo(y), UpTo(m)>> \in StrictSubsetOrdering(Nat)
    <3> HIDE DEF UpTo
    <3> QED BY <2>1, <2>2 DEF StrictSubsetOrdering
  <2>4. UpTo(y) \in family OBVIOUS
  <2> HIDE DEF UpTo, family
  <2> QED BY <1>4, <1>5, <2>3, <2>4
<1> QED BY <1>6 DEF Min

LEMMA NextFrameIsFree ==
  ASSUME NEW u, ~(Frames \subseteq u)
  PROVE  NextFrame(u) \in Frames /\ NextFrame(u) \notin u
<1>1. Frames \ u \in SUBSET Nat /\ Frames \ u # {} BY FrameNames
<1>2. Min(Frames \ u) \in Frames \ u BY <1>1, Least
<1> QED BY <1>2 DEF NextFrame

-------------------------------------------------------------------------------
(* map_page *)

\* Entry p of the table of that page, which is t, is written.
PageWritten(m, p, f, t) == [m EXCEPT ![t][EntryOf(p)] = f]
TableOf(m, p, t) == t = m[Directory][SlotOf(p)] /\ t # None

LEMMA WritePage ==
  ASSUME NEW m, NEW M, NEW X, NEW u, Sound(m, M, X, u), Coherent(View(m), tlb),
         NEW p \in HeapPages, p \notin M, NEW f \in Frames, f \notin u,
         NEW t, TableOf(m, p, t)
  PROVE  /\ Sound(PageWritten(m, p, f, t), M \cup {p}, X \ {SlotOf(p)}, u \cup {f})
         /\ Coherent(View(PageWritten(m, p, f, t)), Cached(tlb, Window(SlotOf(p)), t))
         /\ View(PageWritten(m, p, f, t)) = Change(View(m), p, f)
<1> DEFINE x == PageWritten(m, p, f, t)
           w == View(m)
           s == SlotOf(p)
<1>1. /\ p \in AllPages /\ p # 0 /\ s \in Slots /\ s # Self /\ EntryOf(p) \in Slots
      /\ At(s, EntryOf(p)) = p /\ p \in Nodes
  BY HeapPlace DEF Nodes
<1> t = m[Directory][s] /\ t # None BY DEF TableOf
<1>2. MemTyped(m) /\ SelfMapped(m) /\ Fits(w, M, X) /\ Owned(w, u) /\ Distinct(m)
  BY TablesFound DEF Sound
<1>3. MemTyped(x) /\ View(x) = Change(w, p, f) /\ x[Directory] = m[Directory]
  <2>1. f \in Frames \cup {None} OBVIOUS
  <2> QED BY <1>1, <1>2, <2>1, WriteEntry DEF PageWritten
<1>4. w[p] = None BY <1>1, <1>2 DEF Fits
<1>5. w[Window(s)] = t BY <1>1, <1>2, WalkWindow
<1> HIDE DEF x, w, s
<1>6. SelfMapped(x) BY <1>2, <1>3 DEF SelfMapped
<1>7. Owned(View(x), u \cup {f}) BY <1>1, <1>2, <1>3, <1>4, AddOwned
<1>8. Fits(View(x), M \cup {p}, X \ {s})
  <2>1. s # 0 => w[Window(s)] # None BY <1>5
  <2> QED BY <1>2, <1>3, <2>1, FitsPage DEF s
<1>9. Coherent(View(x), tlb) BY <1>3, <1>4, AddCoherent DEF w
<1>10. Coherent(View(x), Cached(tlb, Window(s), t))
  <2>1. Window(s) \in AllPages BY <1>1, WindowPlace
  <2>2. View(x)[Window(s)] = t
    <3>1. x[Directory][s] = t BY <1>3 DEF s
    <3> QED BY <1>1, <1>3, <1>6, <3>1, WalkWindow
  <2> QED BY <1>9, <2>1, <2>2, CacheMore
<1>11. Sound(x, M \cup {p}, X \ {s}, u \cup {f}) BY <1>3, <1>6, <1>7, <1>8 DEF Sound
<1> QED BY <1>3, <1>10, <1>11 DEF x, w, s

Entered(m, s, t) == [m EXCEPT ![Directory][s] = t]

LEMMA MakeTable ==
  ASSUME NEW m, NEW M, NEW u, Sound(m, M, {}, u), Coherent(View(m), tlb),
         NEW s \in Middle, m[Directory][s] = None, NEW t \in Frames, t \notin u
  PROVE  /\ Reached(Entered(m, s, t), Window(s)) = t
         /\ Sound(NewTable(Entered(m, s, t), t), M, {s}, u \cup {t})
         /\ Coherent(View(NewTable(Entered(m, s, t), t)), tlb)
         /\ NewTable(Entered(m, s, t), t)[Directory][s] = t
         /\ View(NewTable(Entered(m, s, t), t)) = Change(View(m), Window(s), t)
<1> DEFINE x == Entered(m, s, t)
           y == NewTable(x, t)
           w == View(m)
<1>1. MemTyped(m) /\ SelfMapped(m) /\ Fits(w, M, {}) /\ Owned(w, u) /\ Distinct(m)
  BY TablesFound DEF Sound
<1>2. s \in Slots /\ s # Self /\ Window(s) \in Nodes /\ t # None
  BY FrameNames DEF Middle, Nodes
<1>3. w[Window(s)] = None BY <1>1, <1>2, WalkWindow
<1>4. \A r \in Slots : m[Directory][r] # t BY <1>2, TablesFound
<1>5. MemTyped(y) /\ View(y) = Change(w, Window(s), t) /\ y[Directory][s] = t
  BY <1>1, <1>4, EnterTable DEF Entered
<1>6. /\ x[Directory][s] = t /\ x[Directory][Self] = Directory /\ y[Directory][Self] = Directory
  <2>1. /\ x[Directory][s] = t /\ \A r \in Slots \ {s} : x[Directory][r] = m[Directory][r]
        /\ DOMAIN x = Frames
    BY <1>1, <1>2, FrameNames DEF MemTyped, Cells, Entered
  <2>2. x[Directory][Self] = Directory BY <1>1, <1>2, <2>1, SlotNames DEF SelfMapped
  <2>3. t # Directory BY <1>1, <1>4, SlotNames DEF SelfMapped
  <2> HIDE DEF x
  <2> QED BY <2>1, <2>2, <2>3, FrameNames DEF NewTable
<1> HIDE DEF x, y, w
<1>7. Reached(x, Window(s)) = t
  <2>1. Window(s) \notin DOMAIN tlb BY <1>3 DEF Coherent, w
  <2>2. SlotOf(Window(s)) = Self /\ EntryOf(Window(s)) = s BY <1>2, WindowPlace
  <2> QED BY <1>6, <2>1, <2>2, FrameNames DEF Reached, Walk
<1>8. Owned(View(y), u \cup {t}) BY <1>1, <1>2, <1>3, <1>5, AddOwned
<1>9. Fits(View(y), M, {s})
  <2>1. Fits(View(y), M, {} \cup {s}) BY <1>1, <1>5, FitsTable
  <2>2. {} \cup {s} = {s} OBVIOUS
  <2> QED BY <2>1, <2>2
<1>10. Coherent(View(y), tlb) BY <1>3, <1>5, AddCoherent DEF w
<1>11. Sound(y, M, {s}, u \cup {t}) BY <1>5, <1>6, <1>8, <1>9 DEF Sound, SelfMapped
<1> QED BY <1>5, <1>7, <1>10, <1>11 DEF x, y, w

\* A page appears, and the other heap pages stay where they are.
Appears(w, x, p, f) == x[p] = f /\ \A q \in HeapPages : q # p => x[q] = w[q]

LEMMA MapStep ==
  ASSUME NEW M, M \subseteq HeapPages, Sound(mem, M, {}, used), Coherent(View(mem), tlb),
         NEW p \in HeapPages, p \notin M, NEW f, f = NextFrame(used),
         MapPage(p, f, used \cup {f})
  PROVE  /\ Sound(mem', M \cup {p}, {}, used') /\ Coherent(View(mem'), tlb')
         /\ f \in Frames /\ f \notin used /\ Appears(View(mem), View(mem'), p, f)
<1> DEFINE s == SlotOf(p)
           w == View(mem)
<1>1. p \in AllPages /\ p # 0 /\ s \in Slots /\ s # Self BY HeapPlace
<1>2. /\ MemTyped(mem) /\ SelfMapped(mem) /\ Fits(w, M, {}) /\ Owned(w, used)
      /\ mem[Directory][0] = KernelTable
  BY TablesFound DEF Sound
<1>3. w[p] = None BY <1>1, <1>2 DEF Fits
<1>4. w[Window(s)] = mem[Directory][s] BY <1>1, <1>2, WalkWindow
<1>5. ~(Frames \subseteq used) BY <1>2, <1>3, FramesLeft
<1>6. f \in Frames /\ f \notin used BY <1>5, NextFrameIsFree
<1>7. Window(s) \in AllPages BY <1>1, WindowPlace
<1>8. ASSUME NEW x, x = Change(w, p, f) PROVE Appears(w, x, p, f)
  <2>1. HeapPages \subseteq AllPages BY HeapPlace
  <2> QED BY <1>1, <1>8, <2>1 DEF Appears, Change
<1>9. CASE mem[Directory][s] # None
  <2> DEFINE t == mem[Directory][s]
  <2>1. Reached(mem, Window(s)) = t
    <3>1. Reached(mem, Window(s)) = Walk(mem, Window(s)) BY <1>2, <1>7, ReachedIsWalk
    <3> QED BY <3>1, <1>1, <1>2, WalkWindow
  <2>2. /\ mem' = PageWritten(mem, p, f, t) /\ used' = used \cup {f}
        /\ tlb' = Cached(tlb, Window(s), t)
    BY <1>9, <2>1 DEF MapPage, PageWritten
  <2>3. TableOf(mem, p, t) BY <1>9 DEF TableOf
  <2> HIDE DEF t, s
  <2>4. /\ Sound(PageWritten(mem, p, f, t), M \cup {p}, {} \ {SlotOf(p)}, used \cup {f})
        /\ Coherent(View(PageWritten(mem, p, f, t)), Cached(tlb, Window(SlotOf(p)), t))
        /\ View(PageWritten(mem, p, f, t)) = Change(View(mem), p, f)
    BY <1>6, <2>3, WritePage
  <2>5. {} \ {SlotOf(p)} = {} OBVIOUS
  <2> QED BY <1>6, <1>8, <2>2, <2>4, <2>5 DEF s
<1>10. CASE mem[Directory][s] = None
  <2> DEFINE t == NextFrame(used \cup {f})
             y == NewTable(Entered(mem, s, t), t)
  <2>1. s \in Middle
    <3>1. s # 0 BY <1>2, <1>10, FrameNames
    <3> QED BY <1>1, <3>1 DEF Middle
  <2>2. t \in Frames /\ t \notin used \cup {f}
    <3>1. ~(Frames \subseteq used \cup {f}) BY <1>2, <1>3, <1>4, <1>10, <2>1, FramesLeft
    <3> QED BY <3>1, NextFrameIsFree
  <2>3. t = NextFrame(used \cup {f}) OBVIOUS
  <2> HIDE DEF t
  <2>4. /\ Reached(Entered(mem, s, t), Window(s)) = t
        /\ Sound(y, M, {s}, used \cup {t})
        /\ Coherent(View(y), tlb)
        /\ y[Directory][s] = t
        /\ View(y) = Change(View(mem), Window(s), t)
    BY <1>10, <2>1, <2>2, MakeTable
  <2>5. /\ mem' = PageWritten(y, p, f, t) /\ used' = (used \cup {f}) \cup {t}
        /\ tlb' = Cached(tlb, Window(s), t)
    <3>1. MapPage(p, NextFrame(used), used \cup {f}) OBVIOUS
    <3> QED BY <1>10, <2>3, <2>4 DEF MapPage, PageWritten, Entered
  <2> HIDE DEF y
  <2>6. TableOf(y, p, t) /\ f \notin used \cup {t}
    BY <1>6, <2>2, <2>4, FrameNames DEF TableOf
  <2>7. /\ Sound(PageWritten(y, p, f, t), M \cup {p}, {s} \ {SlotOf(p)}, (used \cup {t}) \cup {f})
        /\ Coherent(View(PageWritten(y, p, f, t)), Cached(tlb, Window(SlotOf(p)), t))
        /\ View(PageWritten(y, p, f, t)) = Change(View(y), p, f)
    BY <1>6, <2>4, <2>6, WritePage
  <2>8. {s} \ {SlotOf(p)} = {} /\ (used \cup {t}) \cup {f} = (used \cup {f}) \cup {t} OBVIOUS
  <2>9. Appears(w, View(mem'), p, f)
    <3>1. HeapPages \subseteq AllPages /\ \A q \in HeapPages : q # Window(s)
      BY <1>1, HeapPlace, WindowPlace
    <3> QED BY <1>1, <2>4, <2>5, <2>7, <3>1 DEF Appears, Change
  <2> QED BY <1>6, <2>5, <2>7, <2>8, <2>9
<1> QED BY <1>9, <1>10

-------------------------------------------------------------------------------
(* unmap_virtual_address *)

LEMMA IdlesAre ==
  /\ Idles(None) = {}
  /\ \A s \in Slots : Idles(Window(s)) = {s}
<1>1. \A s \in Slots : Window(s) \in Nat /\ SlotOf(Window(s)) = Self /\ EntryOf(Window(s)) = s
  BY WindowPlace
<1>2. None \notin Nat BY DEF None
<1> QED BY <1>1, <1>2 DEF Idles

\* A page goes, and the other heap pages stay where they are.
Goes(w, x, p) == w[p] # None /\ x[p] = None /\ \A q \in HeapPages : q # p => x[q] = w[q]

LEMMA UnmapHeapPage ==
  ASSUME NEW M, M \subseteq HeapPages, Sound(mem, M, {}, used), Coherent(View(mem), tlb),
         NEW p \in HeapPages, p \in M, UnmapPage(p)
  PROVE  \E x : /\ todo' = [todo EXCEPT !.pages = @ \ {p}, !.table = x] /\ heapEnd' = heapEnd
                /\ Dropped(x, M \ {p}) /\ Sound(mem', M \ {p}, Idles(x), used')
                /\ Coherent(View(mem'), tlb') /\ Goes(View(mem), View(mem'), p)
<1> DEFINE s == SlotOf(p)
           w == View(mem)
           t == mem[Directory][s]
           x == IF Empty(mem'[t]) THEN Window(s) ELSE None
<1>1. /\ p \in AllPages /\ p # 0 /\ s \in Slots /\ s # Self /\ EntryOf(p) \in Slots
      /\ At(s, EntryOf(p)) = p /\ p \in Nodes
  BY HeapPlace DEF Nodes
<1>2. /\ MemTyped(mem) /\ SelfMapped(mem) /\ Fits(w, M, {}) /\ Owned(w, used)
      /\ mem[Directory][0] = KernelTable /\ Distinct(mem)
  BY TablesFound DEF Sound
<1>3. w[p] # None /\ w[p] = Walk(mem, p)
  <2>1. w[p] # None BY <1>1, <1>2 DEF Fits
  <2> QED BY <2>1, <1>1, <1>2, WalkTyped
<1>4. t # None /\ w[p] = mem[t][EntryOf(p)] BY <1>3 DEF Walk
<1>5. Window(s) \in AllPages /\ w[Window(s)] = t BY <1>1, <1>2, WindowPlace, WalkWindow
<1>6. Reached(mem, Window(s)) = t
  <2>1. Reached(mem, Window(s)) = Walk(mem, Window(s)) BY <1>2, <1>5, ReachedIsWalk
  <2> QED BY <2>1, <1>1, <1>2, WalkWindow
<1>7. /\ mem' = [mem EXCEPT ![t][EntryOf(p)] = None]
      /\ used' = used \ {w[p]}
      /\ tlb' = Flushed(Cached(tlb, Window(s), t), p)
      /\ todo' = [todo EXCEPT !.pages = @ \ {p}, !.table = x]
      /\ heapEnd' = heapEnd
  BY <1>4, <1>6 DEF UnmapPage
<1>8. /\ MemTyped(mem') /\ View(mem') = Change(w, p, None) /\ mem'[Directory] = mem[Directory]
  <2> HIDE DEF t, w, s, x
  <2>1. t = mem[Directory][s] BY DEF t
  <2>2. None \in Frames \cup {None} OBVIOUS
  <2>3. /\ MemTyped([mem EXCEPT ![t][EntryOf(p)] = None])
        /\ View([mem EXCEPT ![t][EntryOf(p)] = None]) = Change(View(mem), At(s, EntryOf(p)), None)
        /\ [mem EXCEPT ![t][EntryOf(p)] = None][Directory] = mem[Directory]
    BY <1>1, <1>2, <1>4, <2>1, <2>2, WriteEntry
  <2> QED BY <1>1, <1>7, <2>3 DEF w
<1>9. SelfMapped(mem') BY <1>2, <1>8 DEF SelfMapped
<1>10. mem'[Directory][s] = t BY <1>8
<1>11. x = IF Empty(mem'[t]) THEN Window(s) ELSE None OBVIOUS
<1> HIDE DEF t, w, x, s
<1>12. Owned(View(mem'), used') BY <1>1, <1>2, <1>3, <1>7, <1>8, DropOwned
<1>13. Coherent(View(mem'), tlb')
  <2>1. Coherent(w, Cached(tlb, Window(s), t))
    <3>1. Coherent(w, tlb) BY DEF w
    <3> QED BY <3>1, <1>4, <1>5, CacheMore
  <2> QED BY <2>1, <1>7, <1>8, DropCoherent
<1>14. Goes(w, View(mem'), p)
  <2>1. HeapPages \subseteq AllPages BY HeapPlace
  <2> QED BY <2>1, <1>1, <1>3, <1>8 DEF Goes, Change
\* The table is empty if it maps no page but p.
<1>15. Empty(mem'[t]) <=> s # 0 /\ \A q \in M \ {p} : SlotOf(q) # s
  <2>1. \A e \in Slots : View(mem')[At(s, e)] = mem'[t][e]
    <3> SUFFICES ASSUME NEW e \in Slots PROVE View(mem')[At(s, e)] = mem'[t][e] OBVIOUS
    <3>1. At(s, e) \in AllPages /\ SlotOf(At(s, e)) = s /\ EntryOf(At(s, e)) = e BY <1>1, PlaceOfAt
    <3>2. Walk(mem', At(s, e)) = mem'[t][e] BY <3>1, <1>4, <1>10 DEF Walk
    <3> QED BY <3>1, <3>2, <1>8, WalkTyped
  <2>2. \A q \in AllPages : SlotOf(q) = s => (View(mem')[q] # None <=> q \in M \ {p} \/ q = 0)
    BY <1>1, <1>2, <1>8 DEF Fits, Change
  <2>3. ASSUME Empty(mem'[t]) PROVE s # 0 /\ \A q \in M \ {p} : SlotOf(q) # s
    <3>1. ASSUME NEW q \in AllPages, SlotOf(q) = s PROVE View(mem')[q] = None
      <4>1. EntryOf(q) \in Slots /\ At(s, EntryOf(q)) = q BY <3>1, PlaceOfPage
      <4> QED BY <4>1, <2>1, <2>3 DEF Empty
    <3>2. s # 0 BY <3>1, <2>2, SlotNames
    <3>3. \A q \in M : q \in AllPages BY HeapPlace
    <3> QED BY <3>1, <3>2, <3>3, <2>2
  <2>4. ASSUME s # 0, \A q \in M \ {p} : SlotOf(q) # s PROVE Empty(mem'[t])
    <3>1. ASSUME NEW e \in Slots PROVE mem'[t][e] = None
      <4>1. At(s, e) \in AllPages /\ SlotOf(At(s, e)) = s BY <1>1, PlaceOfAt
      <4>2. At(s, e) # 0 BY <2>4, <4>1, SlotNames
      <4> QED BY <2>1, <2>2, <2>4, <4>1, <4>2
    <3> QED BY <3>1 DEF Empty
  <2> QED BY <2>3, <2>4
<1>16. Dropped(x, M \ {p}) /\ \A r \in Middle : r \in Idles(x) <=> r = s /\ Empty(mem'[t])
  <2>1. CASE Empty(mem'[t])
    <3>1. s \in Middle /\ x = Window(s) BY <1>1, <1>11, <1>15, <2>1 DEF Middle
    <3>2. Idles(x) = {s} BY <1>1, <3>1, IdlesAre
    <3> QED BY <1>15, <2>1, <3>1, <3>2 DEF Dropped
  <2>2. CASE ~Empty(mem'[t])
    <3>1. x = None /\ Idles(x) = {} BY <1>11, <2>2, IdlesAre
    <3> QED BY <2>2, <3>1 DEF Dropped
  <2> QED BY <2>1, <2>2
<1>17. Fits(View(mem'), M \ {p}, Idles(x))
  <2>1. \A r \in Middle : r \in Idles(x) \/ (\E q \in M \ {p} : SlotOf(q) = r)
                          <=> r \in {} \/ \E q \in M : SlotOf(q) = r
    <3>1. \A r \in Middle : r # 0 BY DEF Middle
    <3> QED BY <1>15, <1>16, <3>1 DEF s
  <2> QED BY <1>2, <1>8, <2>1, FitsUnpage
<1>18. Sound(mem', M \ {p}, Idles(x), used') BY <1>8, <1>9, <1>12, <1>17 DEF Sound
<1> QED BY <1>7, <1>13, <1>14, <1>16, <1>18 DEF w

LEMMA UnmapTableStep ==
  ASSUME NEW M, M \subseteq HeapPages, NEW s \in Middle, Sound(mem, M, {s}, used),
         Coherent(View(mem), tlb), \A q \in M : SlotOf(q) # s, UnmapPage(Window(s))
  PROVE  /\ todo' = [todo EXCEPT !.pages = @ \ {Window(s)}, !.table = None] /\ heapEnd' = heapEnd
         /\ Sound(mem', M, {}, used') /\ Coherent(View(mem'), tlb')
         /\ \A q \in HeapPages : View(mem')[q] = View(mem)[q]
<1> DEFINE w == View(mem)
           p == Window(s)
<1>1. /\ s \in Slots /\ s # 0 /\ s # Self /\ p \in Nodes /\ p \in AllPages /\ SlotOf(p) = Self
      /\ EntryOf(p) = s
  BY WindowPlace DEF Middle, Nodes
<1>2. /\ MemTyped(mem) /\ SelfMapped(mem) /\ Fits(w, M, {s}) /\ Owned(w, used) /\ Distinct(mem)
  BY TablesFound DEF Sound
<1>3. w[p] = mem[Directory][s] /\ w[p] # None BY <1>1, <1>2, WalkWindow DEF Fits
<1>4. Window(Self) \in AllPages /\ w[Window(Self)] = Directory /\ Directory # None
  BY <1>2, SlotNames, WindowPlace, WalkWindow, FrameNames DEF SelfMapped
<1>5. Reached(mem, Window(Self)) = Directory
  <2>1. Reached(mem, Window(Self)) = Walk(mem, Window(Self)) BY <1>2, <1>4, ReachedIsWalk
  <2> QED BY <2>1, <1>2, <1>4, SlotNames, WalkWindow
<1> DEFINE y == [mem EXCEPT ![Directory][s] = None]
<1>6. MemTyped(y) /\ View(y) = Change(w, p, None) /\ SelfMapped(y)
  <2>1. ASSUME NEW q \in AllPages, SlotOf(q) = s PROVE Walk(mem, q) = None
    <3>1. w[q] # None <=> q \in M \cup {0} BY <1>1, <1>2, <2>1 DEF Fits
    <3>2. q \notin M \cup {0} BY <1>1, <2>1, SlotNames
    <3> QED BY <3>1, <3>2, <1>2, <2>1, WalkTyped
  <2> QED BY <2>1, <1>2, LeaveTable
<1>7. ~Empty(y[Directory])
  <2>1. y[Directory][Self] = Directory BY <1>6 DEF SelfMapped
  <2> QED BY <2>1, SlotNames, FrameNames DEF Empty
<1>8. /\ mem' = y /\ used' = used \ {w[p]}
      /\ tlb' = Flushed(Cached(tlb, Window(Self), Directory), p)
      /\ todo' = [todo EXCEPT !.pages = @ \ {p}, !.table = None]
      /\ heapEnd' = heapEnd
  BY <1>1, <1>3, <1>5, <1>7 DEF UnmapPage
<1> HIDE DEF y, w
<1>9. Owned(View(mem'), used') BY <1>1, <1>2, <1>3, <1>6, <1>8, DropOwned
<1>10. Coherent(View(mem'), tlb')
  <2>1. Coherent(w, Cached(tlb, Window(Self), Directory))
    <3>1. Coherent(w, tlb) BY DEF w
    <3> QED BY <3>1, <1>4, CacheMore
  <2> QED BY <2>1, <1>6, <1>8, DropCoherent
<1>11. Fits(View(mem'), M, {})
  <2>1. Fits(Change(w, p, None), M, {s} \ {s}) BY <1>2, FitsUntable
  <2>2. {s} \ {s} = {} OBVIOUS
  <2> QED BY <2>1, <2>2, <1>6, <1>8
<1>12. \A q \in HeapPages : View(mem')[q] = w[q]
  <2>1. \A q \in HeapPages : q \in AllPages /\ q # p BY <1>1, HeapPlace
  <2> QED BY <2>1, <1>6, <1>8 DEF Change
<1> QED BY <1>6, <1>8, <1>9, <1>10, <1>11, <1>12 DEF Sound, w

-------------------------------------------------------------------------------
(* The invariant is inductive *)

LEMMA MappedPages == CallOK => Mapped \subseteq HeapPages
BY TableAssumption DEF CallOK, Mapped, HeapPages, HeapStart

\* What a step does to the mapping the heap sees.
OneAppears ==
    \E p \in HeapPages, f \in Frames :
        /\ p \notin Mapped /\ Mapped' = Mapped \cup {p} /\ f \notin used
        /\ Appears(View(mem), View(mem'), p, f)
OneGoes ==
    \E p \in Mapped : Mapped' = Mapped \ {p} /\ Goes(View(mem), View(mem'), p)
NoneMoves == Mapped' = Mapped /\ \A q \in HeapPages : View(mem')[q] = View(mem)[q]
Outcome == OneAppears \/ OneGoes \/ NoneMoves

LEMMA InitIInv == Init => IInv
<1> SUFFICES ASSUME Init PROVE IInv OBVIOUS
<1>1. /\ 0 \in Slots /\ Self \in Slots /\ Self # 0 /\ SlotOf(0) = 0 /\ EntryOf(0) = 0
      /\ 0 \in AllPages /\ Window(0) \in AllPages
  BY SlotNames, WindowPlace
<1>2. NoEntries \in Cells /\ Data \in Cells /\ \A e \in Slots : NoEntries[e] = None
  BY FrameNames DEF NoEntries, Data, Cells
<1> DEFINE D == [NoEntries EXCEPT ![0] = KernelTable, ![Self] = Directory]
           K == [NoEntries EXCEPT ![0] = LowFrame]
<1>3. /\ D \in Cells /\ D[0] = KernelTable /\ D[Self] = Directory
      /\ \A e \in Slots : e # 0 /\ e # Self => D[e] = None
  BY <1>1, <1>2, FrameNames DEF Cells
<1>4. K \in Cells /\ K[0] = LowFrame /\ \A e \in Slots : e # 0 => K[e] = None
  BY <1>1, <1>2, FrameNames DEF Cells
<1>5. mem = [f \in Frames |-> CASE f = Directory -> D [] f = KernelTable -> K [] OTHER -> Data]
  BY DEF Init
<1> HIDE DEF D, K
<1>6. MemTyped(mem) /\ mem[Directory] = D /\ mem[KernelTable] = K
  BY <1>2, <1>3, <1>4, <1>5, FrameNames DEF MemTyped
<1>7. SelfMapped(mem) BY <1>3, <1>6 DEF SelfMapped
<1> DEFINE w == View(mem)
<1>8. \A s \in Slots : w[Window(s)] = D[s] BY <1>6, <1>7, WalkWindow
<1>9. \A p \in AllPages : SlotOf(p) # Self => w[p] = IF p = 0 THEN LowFrame ELSE None
  <2> SUFFICES ASSUME NEW p \in AllPages, SlotOf(p) # Self
               PROVE  w[p] = IF p = 0 THEN LowFrame ELSE None
    OBVIOUS
  <2>1. /\ SlotOf(p) \in Slots /\ EntryOf(p) \in Slots /\ At(SlotOf(p), EntryOf(p)) = p
        /\ w[p] = Walk(mem, p)
    BY <1>6, PlaceOfPage, WalkTyped
  <2>2. At(0, 0) = 0 BY <1>1, PlaceOfPage
  <2>3. CASE SlotOf(p) # 0 BY <2>1, <2>3, <1>1, <1>3, <1>6 DEF Walk
  <2>4. CASE SlotOf(p) = 0
    BY <2>1, <2>2, <2>4, <1>1, <1>3, <1>4, <1>6, FrameNames DEF Walk
  <2> QED BY <2>3, <2>4
<1> HIDE DEF w
<1>10. todo.op = "idle" /\ todo.table = None /\ heapEnd = 1 /\ used = Reserved /\ DOMAIN tlb = {}
  BY DEF Init, Idle, HeapStart
<1>11. Mapped = {} BY <1>10 DEF Mapped, HeapStart
<1>12. Fits(w, {}, {})
  <2>1. \A s \in Middle : s \in Slots /\ s # 0 /\ s # Self BY DEF Middle
  <2> QED BY <2>1, <1>1, <1>3, <1>8, <1>9, FrameNames DEF Fits
<1>13. Owned(w, used)
  <2>1. ASSUME NEW n \in Nodes PROVE w[n] = None
    <3>1. n \in AllPages /\ n # 0 BY NodePlace
    <3>2. CASE SlotOf(n) # Self BY <3>1, <3>2, <1>9
    <3>3. CASE SlotOf(n) = Self
      <4>1. EntryOf(n) \in Middle /\ n = Window(EntryOf(n)) BY <3>3, NodePlace
      <4> QED BY <4>1, <1>3, <1>8 DEF Middle
    <3> QED BY <3>2, <3>3
  <2> QED BY <2>1, <1>10, FrameNames DEF Owned
<1>14. Coherent(w, tlb) BY <1>10 DEF Coherent
<1>15. CallOK
  <2>1. todo = Idle BY DEF Init
  <2>2. MaxPage \in Nat BY TableAssumption
  <2> QED BY <2>1, <2>2, <1>10 DEF CallOK, Idle, None, Dropped, HeapStart
<1>16. Idles(todo.table) = {} BY <1>10, IdlesAre
<1> QED BY <1>6, <1>7, <1>11, <1>12, <1>13, <1>14, <1>15, <1>16 DEF IInv, Sound, w

LEMMA AllocStep == IInv /\ AllocPage => IInv' /\ Outcome
<1> SUFFICES ASSUME IInv, AllocPage PROVE IInv' /\ Outcome OBVIOUS
<1> DEFINE p == heapEnd
           f == NextFrame(used)
<1>1. todo.op = "alloc" /\ todo.pages # {} /\ MapPage(p, f, used \cup {f})
      /\ heapEnd' = heapEnd + 1 /\ todo' = [todo EXCEPT !.pages = @ \ {heapEnd}]
  BY DEF AllocPage
<1>2. CallOK BY DEF IInv
<1>3. /\ heapEnd \in Nat /\ HeapStart <= heapEnd /\ todo.end \in Nat /\ MaxPage \in Nat
      /\ todo \in [op : {"idle", "alloc", "free"}, pages : SUBSET Nat, end : Nat, table : Int]
      /\ todo.pages = heapEnd .. todo.end - 1 /\ todo.end <= MaxPage + 1 /\ todo.table = None
  BY <1>1, <1>2, TableAssumption DEF CallOK, HeapStart
<1>4. heapEnd < todo.end BY <1>1, <1>3
<1>5. Mapped = HeapStart .. heapEnd - 1 BY <1>1 DEF Mapped
<1>6. p \in HeapPages /\ p \notin Mapped BY <1>3, <1>4, <1>5 DEF HeapPages, HeapStart
<1>7. Mapped \subseteq HeapPages BY <1>2, MappedPages
<1>8. Sound(mem, Mapped, {}, used) /\ Coherent(View(mem), tlb) BY <1>3, IdlesAre DEF IInv
<1>9. f = NextFrame(used) OBVIOUS
<1> HIDE DEF f
<1>10. /\ Sound(mem', Mapped \cup {p}, {}, used') /\ Coherent(View(mem'), tlb')
       /\ f \in Frames /\ f \notin used /\ Appears(View(mem), View(mem'), p, f)
  BY <1>1, <1>6, <1>7, <1>8, <1>9, MapStep
<1>11. /\ todo'.op = "alloc" /\ todo'.end = todo.end /\ todo'.table = None
       /\ todo'.pages = (heapEnd + 1) .. todo.end - 1
       /\ todo' \in [op : {"idle", "alloc", "free"}, pages : SUBSET Nat, end : Nat, table : Int]
  <2>1. (heapEnd .. todo.end - 1) \ {heapEnd} = (heapEnd + 1) .. todo.end - 1 BY <1>3, <1>4
  <2>2. (heapEnd + 1) .. todo.end - 1 \in SUBSET Nat BY <1>3
  <2>3. todo' = [todo EXCEPT !.pages = (heapEnd + 1) .. todo.end - 1] BY <1>1, <1>3, <2>1
  <2> QED BY <1>1, <1>3, <2>2, <2>3
<1>12. Mapped' = Mapped \cup {p}
  <2>1. Mapped' = HeapStart .. heapEnd' - 1 BY <1>11 DEF Mapped
  <2> QED BY <1>1, <1>3, <1>5, <2>1 DEF HeapStart
<1>13. CallOK' BY <1>1, <1>3, <1>4, <1>11 DEF CallOK, HeapStart, Dropped
<1>14. Idles(todo'.table) = {} BY <1>11, IdlesAre
<1>15. IInv' BY <1>10, <1>12, <1>13, <1>14 DEF IInv
<1>16. Outcome BY <1>6, <1>10, <1>12 DEF Outcome, OneAppears
<1> QED BY <1>15, <1>16

LEMMA FreeStep == IInv /\ FreePage => IInv' /\ Outcome
<1> SUFFICES ASSUME IInv, FreePage PROVE IInv' /\ Outcome OBVIOUS
<1> DEFINE p == Min(todo.pages)
<1>1. todo.op = "free" /\ todo.pages # {} /\ todo.table = None /\ UnmapPage(p) BY DEF FreePage
<1>2. CallOK BY DEF IInv
<1>3. /\ heapEnd \in HeapStart .. MaxPage + 1 /\ todo.end \in Nat /\ MaxPage \in Nat
      /\ todo \in [op : {"idle", "alloc", "free"}, pages : SUBSET Nat, end : Nat, table : Int]
      /\ todo.pages \in SUBSET Nat
      /\ HeapStart <= todo.end /\ todo.end <= heapEnd /\ todo.pages \subseteq todo.end .. heapEnd - 1
  BY <1>1, <1>2, TableAssumption DEF CallOK
<1>4. p \in todo.pages BY <1>1, <1>3, Least
<1> HIDE DEF p
<1>5. Mapped = (HeapStart .. todo.end - 1) \cup todo.pages BY <1>1 DEF Mapped
<1>6. Mapped \subseteq HeapPages BY <1>2, MappedPages
<1>7. p \in Mapped /\ p \in HeapPages /\ p >= todo.end /\ p \in Nat BY <1>3, <1>4, <1>5, <1>6
<1>8. Sound(mem, Mapped, {}, used) /\ Coherent(View(mem), tlb) BY <1>1, IdlesAre DEF IInv
<1>9. PICK x : /\ todo' = [todo EXCEPT !.pages = @ \ {p}, !.table = x] /\ heapEnd' = heapEnd
               /\ Dropped(x, Mapped \ {p}) /\ Sound(mem', Mapped \ {p}, Idles(x), used')
               /\ Coherent(View(mem'), tlb') /\ Goes(View(mem), View(mem'), p)
  BY <1>1, <1>6, <1>7, <1>8, UnmapHeapPage
<1>10. x \in Int BY <1>9, WindowPlace DEF Dropped, Middle, None
<1>11. /\ todo'.op = "free" /\ todo'.end = todo.end /\ todo'.table = x
       /\ todo'.pages = todo.pages \ {p}
       /\ todo' \in [op : {"idle", "alloc", "free"}, pages : SUBSET Nat, end : Nat, table : Int]
  BY <1>1, <1>3, <1>9, <1>10
<1>12. Mapped' = Mapped \ {p}
  <2>1. Mapped' = (HeapStart .. todo'.end - 1) \cup todo'.pages BY <1>11 DEF Mapped
  <2>2. p \notin HeapStart .. todo.end - 1 BY <1>3, <1>7
  <2> QED BY <1>5, <1>11, <2>1, <2>2
<1>13. CallOK' BY <1>3, <1>9, <1>11, <1>12 DEF CallOK
<1>14. IInv' BY <1>9, <1>11, <1>12, <1>13 DEF IInv
<1>15. Outcome BY <1>7, <1>9, <1>12 DEF Outcome, OneGoes
<1> QED BY <1>14, <1>15

LEMMA TableStep == IInv /\ UnmapTable => IInv' /\ Outcome
<1> SUFFICES ASSUME IInv, UnmapTable PROVE IInv' /\ Outcome OBVIOUS
<1>1. todo.table # None /\ UnmapPage(todo.table) BY DEF UnmapTable
<1>2. CallOK BY DEF IInv
<1>3. /\ heapEnd \in HeapStart .. MaxPage + 1 /\ todo.end \in Nat /\ todo.op = "free"
      /\ todo \in [op : {"idle", "alloc", "free"}, pages : SUBSET Nat, end : Nat, table : Int]
      /\ HeapStart <= todo.end /\ todo.end <= heapEnd /\ todo.pages \subseteq todo.end .. heapEnd - 1
  BY <1>1, <1>2 DEF CallOK
<1>4. PICK s \in Middle : todo.table = Window(s) /\ \A q \in Mapped : SlotOf(q) # s
  BY <1>1, <1>2 DEF CallOK, Dropped
<1>5. Mapped \subseteq HeapPages BY <1>2, MappedPages
<1>6. s \in Slots /\ Idles(todo.table) = {s} BY <1>4, IdlesAre DEF Middle
<1>7. Sound(mem, Mapped, {s}, used) /\ Coherent(View(mem), tlb) BY <1>6 DEF IInv
<1>8. /\ todo' = [todo EXCEPT !.pages = @ \ {Window(s)}, !.table = None] /\ heapEnd' = heapEnd
      /\ Sound(mem', Mapped, {}, used') /\ Coherent(View(mem'), tlb')
      /\ \A q \in HeapPages : View(mem')[q] = View(mem)[q]
  <2>1. UnmapPage(Window(s)) BY <1>1, <1>4
  <2> QED BY <2>1, <1>4, <1>5, <1>7, UnmapTableStep
<1>9. todo.pages \ {Window(s)} = todo.pages
  <2>1. Mapped = (HeapStart .. todo.end - 1) \cup todo.pages BY <1>3 DEF Mapped
  <2>2. todo.pages \subseteq HeapPages BY <2>1, <1>5
  <2>3. Window(s) \notin HeapPages BY <1>6, HeapPlace, WindowPlace
  <2> QED BY <2>2, <2>3
<1>10. /\ todo'.op = "free" /\ todo'.end = todo.end /\ todo'.table = None
       /\ todo'.pages = todo.pages
       /\ todo' \in [op : {"idle", "alloc", "free"}, pages : SUBSET Nat, end : Nat, table : Int]
  <2>1. todo' = [todo EXCEPT !.pages = todo.pages, !.table = None] BY <1>8, <1>9
  <2>2. None \in Int /\ todo.pages \in SUBSET Nat BY <1>3 DEF None
  <2> HIDE DEF None
  <2> QED BY <1>3, <2>1, <2>2
<1>11. Mapped' = Mapped BY <1>3, <1>10 DEF Mapped
<1>12. CallOK' BY <1>3, <1>8, <1>10 DEF CallOK, Dropped
<1>13. Idles(todo'.table) = {} BY <1>10, IdlesAre
<1>14. IInv' BY <1>8, <1>11, <1>12, <1>13 DEF IInv
<1> QED BY <1>8, <1>11, <1>14 DEF Outcome, NoneMoves

LEMMA CallStep ==
  ASSUME IInv, NEW pages \in 1 .. MaxPage, CallAllocPage(pages) \/ CallFreePage(pages)
  PROVE  IInv' /\ Outcome
<1>1. todo = Idle /\ mem' = mem /\ used' = used /\ tlb' = tlb /\ heapEnd' = heapEnd
  BY DEF CallAllocPage, CallFreePage
<1>2. CallOK /\ heapEnd \in Nat /\ HeapStart <= heapEnd /\ heapEnd <= MaxPage + 1 /\ MaxPage \in Nat
  BY TableAssumption DEF IInv, CallOK, HeapStart
<1>3. Mapped = HeapStart .. heapEnd - 1 /\ todo.table = None BY <1>1 DEF Mapped, Idle
<1>4. /\ Mapped' = Mapped /\ CallOK' /\ todo'.table = None
  <2>1. CASE CallAllocPage(pages)
    <3>1. /\ todo'.op = "alloc" /\ todo'.pages = heapEnd .. heapEnd + pages - 1
          /\ todo'.end = heapEnd + pages /\ todo'.table = None /\ heapEnd + pages <= MaxPage + 1
          /\ DOMAIN todo' = {"op", "pages", "end", "table"}
          /\ todo' = Calling("alloc", heapEnd .. heapEnd + pages - 1, heapEnd + pages)
      BY <2>1 DEF CallAllocPage, Calling
    <3>2. Mapped' = Mapped BY <1>1, <1>3, <3>1 DEF Mapped
    <3>3. todo' \in [op : {"idle", "alloc", "free"}, pages : SUBSET Nat, end : Nat, table : Int]
      <4>1. heapEnd .. heapEnd + pages - 1 \in SUBSET Nat /\ heapEnd + pages \in Nat BY <1>2
      <4> QED BY <3>1, <4>1 DEF Calling, None
    <3>4. CallOK' BY <1>1, <1>2, <3>1, <3>3 DEF CallOK, Dropped, HeapStart
    <3> QED BY <3>1, <3>2, <3>4
  <2>2. CASE CallFreePage(pages)
    <3>1. /\ todo'.op = "free" /\ todo'.pages = heapEnd - pages .. heapEnd - 1
          /\ todo'.end = heapEnd - pages /\ todo'.table = None /\ heapEnd - pages >= HeapStart
          /\ todo' = Calling("free", heapEnd - pages .. heapEnd - 1, heapEnd - pages)
      BY <2>2 DEF CallFreePage, Calling
    <3>2. Mapped' = Mapped
      <4>1. Mapped' = (HeapStart .. (heapEnd - pages) - 1) \cup (heapEnd - pages .. heapEnd - 1)
        BY <3>1 DEF Mapped
      <4> QED BY <1>2, <1>3, <3>1, <4>1 DEF HeapStart
    <3>3. todo' \in [op : {"idle", "alloc", "free"}, pages : SUBSET Nat, end : Nat, table : Int]
      <4>1. heapEnd - pages .. heapEnd - 1 \in SUBSET Nat /\ heapEnd - pages \in Nat
        BY <1>2, <3>1 DEF HeapStart
      <4> QED BY <3>1, <4>1 DEF Calling, None
    <3>4. CallOK' BY <1>1, <1>2, <3>1, <3>3 DEF CallOK, Dropped, HeapStart
    <3> QED BY <3>1, <3>2, <3>4
  <2> QED BY <2>1, <2>2
<1>5. Idles(todo.table) = {} /\ Idles(todo'.table) = {} BY <1>3, <1>4, IdlesAre
<1>6. Sound(mem, Mapped, {}, used) /\ Coherent(View(mem), tlb) BY <1>5 DEF IInv
<1>7. IInv' BY <1>1, <1>4, <1>5, <1>6 DEF IInv
<1>8. Outcome BY <1>1, <1>4 DEF Outcome, NoneMoves
<1> QED BY <1>7, <1>8

LEMMA ReturnStep == IInv /\ Return => IInv' /\ Outcome
<1> SUFFICES ASSUME IInv, Return PROVE IInv' /\ Outcome OBVIOUS
<1>1. /\ todo # Idle /\ todo.pages = {} /\ todo.table = None
      /\ heapEnd' = todo.end /\ todo' = Idle /\ mem' = mem /\ used' = used /\ tlb' = tlb
  BY DEF Return
<1>2. /\ CallOK /\ heapEnd \in Nat /\ HeapStart <= heapEnd /\ heapEnd <= MaxPage + 1
      /\ MaxPage \in Nat /\ todo.end \in Nat /\ todo.op \in {"idle", "alloc", "free"}
  BY TableAssumption DEF IInv, CallOK, HeapStart
<1>3. todo'.op = "idle" /\ todo'.table = None BY <1>1 DEF Idle
<1>4. Mapped' = HeapStart .. todo.end - 1 BY <1>1, <1>3 DEF Mapped
<1>5. Mapped = Mapped' /\ HeapStart <= todo.end /\ todo.end <= MaxPage + 1
  <2>1. CASE todo.op = "alloc"
    <3>1. heapEnd <= todo.end /\ todo.pages = heapEnd .. todo.end - 1 /\ todo.end <= MaxPage + 1
      BY <2>1, <1>2 DEF CallOK
    <3>2. heapEnd \notin heapEnd .. todo.end - 1 BY <3>1, <1>1
    <3>3. heapEnd = todo.end BY <3>1, <3>2, <1>2
    <3> QED BY <2>1, <3>1, <3>3, <1>2, <1>4 DEF Mapped
  <2>2. CASE todo.op = "free"
    <3>1. HeapStart <= todo.end /\ todo.end <= heapEnd BY <2>2, <1>2 DEF CallOK
    <3> QED BY <2>2, <3>1, <1>1, <1>2, <1>4 DEF Mapped, HeapStart
  <2>3. CASE todo.op = "idle" BY <2>3, <1>1, <1>2 DEF CallOK
  <2> QED BY <1>2, <2>1, <2>2, <2>3
<1>6. CallOK' BY <1>1, <1>2, <1>3, <1>5 DEF CallOK, Idle, None, Dropped, HeapStart
<1>7. Idles(todo.table) = {} /\ Idles(todo'.table) = {} BY <1>1, <1>3, IdlesAre
<1>8. Sound(mem, Mapped, {}, used) /\ Coherent(View(mem), tlb) BY <1>7 DEF IInv
<1>9. IInv' BY <1>1, <1>5, <1>6, <1>7, <1>8 DEF IInv
<1>10. Outcome BY <1>1, <1>5 DEF Outcome, NoneMoves
<1> QED BY <1>9, <1>10

LEMMA WriteStep == ASSUME IInv, NEW p, Write(p) PROVE IInv' /\ Outcome
<1> DEFINE f == Reached(mem, p)
<1>1. /\ todo = Idle /\ p \in HeapStart .. heapEnd - 1 /\ f # None
      /\ mem' = [mem EXCEPT ![f] = Data] /\ tlb' = Cached(tlb, p, f)
      /\ used' = used /\ heapEnd' = heapEnd /\ todo' = todo
  BY DEF Write
<1>2. CallOK /\ Sound(mem, Mapped, Idles(todo.table), used) /\ Coherent(View(mem), tlb)
  BY DEF IInv
<1>3. p \in HeapPages
  <2>1. Mapped = HeapStart .. heapEnd - 1 BY <1>1 DEF Mapped, Idle
  <2> QED BY <2>1, <1>1, <1>2, MappedPages
<1>4. p \in AllPages /\ MemTyped(mem) /\ SelfMapped(mem) BY <1>2, <1>3, HeapPlace DEF Sound
<1>5. f = Walk(mem, p) /\ f \in Frames /\ View(mem)[p] = f
  BY <1>1, <1>2, <1>4, ReachedIsWalk, WalkTyped
<1>6. \A r \in Slots : mem[Directory][r] # f BY <1>1, <1>2, <1>3, <1>5, TablesFound
<1>7. MemTyped(mem') /\ View(mem') = View(mem) /\ SelfMapped(mem')
  <2> HIDE DEF f
  <2> QED BY <1>1, <1>4, <1>5, <1>6, WriteFrame
<1>8. Coherent(View(mem'), tlb')
  <2> HIDE DEF f
  <2>1. Coherent(View(mem), Cached(tlb, p, View(mem)[p])) BY <1>1, <1>2, <1>4, <1>5, CacheMore
  <2> QED BY <2>1, <1>1, <1>5, <1>7
<1>9. Mapped' = Mapped BY <1>1 DEF Mapped
<1>10. CallOK' BY <1>1, <1>2, <1>9 DEF CallOK
<1>11. Sound(mem', Mapped, Idles(todo.table), used) BY <1>2, <1>7 DEF Sound
<1>12. IInv' BY <1>1, <1>8, <1>9, <1>10, <1>11 DEF IInv
<1>13. Outcome BY <1>7, <1>9 DEF Outcome, NoneMoves
<1> QED BY <1>12, <1>13

LEMMA Step == IInv /\ [Next]_vars => IInv' /\ Outcome
<1> SUFFICES ASSUME IInv, [Next]_vars PROVE IInv' /\ Outcome OBVIOUS
<1>1. ASSUME NEW pages \in 1 .. MaxPage, CallAllocPage(pages) \/ CallFreePage(pages)
      PROVE  IInv' /\ Outcome
  BY <1>1, CallStep
<1>2. CASE AllocPage BY <1>2, AllocStep
<1>3. CASE FreePage BY <1>3, FreeStep
<1>4. CASE UnmapTable BY <1>4, TableStep
<1>5. CASE Return BY <1>5, ReturnStep
<1>6. ASSUME NEW p \in HeapStart .. MaxPage, Write(p) PROVE IInv' /\ Outcome BY <1>6, WriteStep
<1>7. CASE UNCHANGED vars
  <2>1. mem' = mem /\ used' = used /\ tlb' = tlb /\ heapEnd' = heapEnd /\ todo' = todo
    BY <1>7 DEF vars
  <2>2. Mapped' = Mapped BY <2>1 DEF Mapped
  <2>3. CallOK' BY <2>1, <2>2 DEF CallOK, IInv
  <2>4. IInv' BY <2>1, <2>2, <2>3 DEF IInv
  <2> QED BY <2>1, <2>2, <2>4 DEF Outcome, NoneMoves
<1> QED BY <1>1, <1>2, <1>3, <1>4, <1>5, <1>6, <1>7 DEF Next, Proceed

\* The tables are those of the mapped pages, the frames in use are theirs, and
\* the cache agrees with them, in every reachable state.
LEMMA Inductive == Spec => []IInv
BY InitIInv, Step, PTL DEF Spec

-------------------------------------------------------------------------------
(* What follows *)

\* No access goes through a translation that the tables no longer have: however
\* tables come and go, the pages and the windows the processor has cached are
\* where the tables say.
THEOREM NoStaleTranslation == Spec => []CacheCoherent
<1>1. IInv => CacheCoherent
  <2> SUFFICES ASSUME IInv, NEW p \in DOMAIN tlb PROVE tlb[p] = Walk(mem, p)
    BY DEF CacheCoherent
  <2>1. p \in AllPages /\ tlb[p] = View(mem)[p] BY DEF IInv, Coherent
  <2> QED BY <2>1 DEF View
<1> QED BY <1>1, Inductive, PTL

\* What the heap reaches is what is mapped.
MappingKnown ==
    /\ DOMAIN Mapping = Mapped /\ \A p \in Mapped : Mapping[p] = View(mem)[p]
    /\ Mapped \subseteq HeapPages
    /\ Mapping = [p \in Mapped |-> View(mem)[p]]

LEMMA MappingIs == IInv => MappingKnown
<1> SUFFICES ASSUME IInv PROVE MappingKnown OBVIOUS
<1>1. Mapped \subseteq HeapPages BY MappedPages DEF IInv
<1>2. MemTyped(mem) /\ Coherent(View(mem), tlb) /\ Fits(View(mem), Mapped, Idles(todo.table))
  BY DEF IInv, Sound
<1>3. ASSUME NEW p \in HeapPages
      PROVE  Reached(mem, p) = View(mem)[p] /\ (Reached(mem, p) # None <=> p \in Mapped)
  <2>1. p \in AllPages /\ SlotOf(p) # Self /\ p # 0 BY HeapPlace
  <2>2. Reached(mem, p) = View(mem)[p] BY <1>2, <2>1, ReachedIsWalk, WalkTyped
  <2> QED BY <1>2, <2>1, <2>2 DEF Fits
<1>4. {q \in HeapPages : Reached(mem, q) # None} = Mapped BY <1>1, <1>3
<1>5. Mapping = [p \in Mapped |-> View(mem)[p]]
  <2>1. Mapping = [p \in Mapped |-> Reached(mem, p)] BY <1>4 DEF Mapping
  <2>2. \A p \in Mapped : Reached(mem, p) = View(mem)[p] BY <1>1, <1>3
  <2> QED BY <2>1, <2>2
<1> QED BY <1>1, <1>5 DEF MappingKnown

\* Between calls exactly the heap's pages are mapped, tables are there for them
\* and for no others, and the frames in use are theirs: map_page and
\* unmap_virtual_address lose no frame and free none that is in use.
THEOREM NoFrameLost == Spec => []FramesAccounted
<1>1. IInv => FramesAccounted
  <2> SUFFICES ASSUME IInv, todo = Idle
               PROVE  /\ DOMAIN Mapping = HeapStart .. heapEnd - 1
                      /\ \A s \in Slots : mem[Directory][s] # None <=>
                              \E p \in DOMAIN Mapping \cup {0, Window(Self)} : SlotOf(p) = s
                      /\ used = Reserved \cup Range(Mapping) \cup Tables
    BY DEF FramesAccounted
  <2> DEFINE w == View(mem)
  <2>1. /\ Mapped = HeapStart .. heapEnd - 1 /\ Idles(todo.table) = {}
    BY IdlesAre DEF Mapped, Idle
  <2>2. /\ Sound(mem, Mapped, {}, used) /\ MemTyped(mem) /\ SelfMapped(mem)
        /\ Fits(w, Mapped, {}) /\ Owned(w, used) /\ mem[Directory][0] = KernelTable
    BY <2>1, TablesFound DEF IInv, Sound
  <2>3. /\ DOMAIN Mapping = Mapped /\ \A p \in Mapped : Mapping[p] = w[p]
        /\ Mapped \subseteq HeapPages
    BY MappingIs DEF MappingKnown
  <2>4. \A s \in Slots : mem[Directory][s] = w[Window(s)] BY <2>2, WalkWindow
  <2>5. \A s \in Slots : s = 0 \/ s = Self \/ s \in Middle BY DEF Middle
  <2>6. ASSUME NEW s \in Slots
        PROVE  mem[Directory][s] # None <=>
                 \E p \in Mapped \cup {0, Window(Self)} : SlotOf(p) = s
    <3>1. SlotOf(0) = 0 /\ SlotOf(Window(Self)) = Self BY SlotNames, WindowPlace
    <3>2. CASE s \in Middle
      <4>1. s # 0 /\ s # Self BY <3>2 DEF Middle
      <4>2. w[Window(s)] # None <=> \E p \in Mapped : SlotOf(p) = s BY <2>2, <3>2 DEF Fits
      <4> QED BY <2>4, <3>1, <4>1, <4>2
    <3>3. CASE s \notin Middle BY <2>2, <2>5, <3>1, <3>3, FrameNames DEF SelfMapped
    <3> QED BY <3>2, <3>3
  <2>7. Range(Mapping) = {w[p] : p \in Mapped} BY <2>3 DEF Range
  <2>8. \A f : f \in used <=> f \in Reserved \/ f \in Range(Mapping) \/ f \in Tables
    <3> SUFFICES ASSUME NEW f
                 PROVE  f \in used <=> f \in Reserved \/ f \in Range(Mapping) \/ f \in Tables
      OBVIOUS
    <3>1. f \in used <=> f \in Reserved \/ (f # None /\ \E n \in Nodes : w[n] = f)
      BY <2>2 DEF Owned
    <3>2. f \in Tables <=> f # None /\ \E s \in Slots : w[Window(s)] = f
      BY <2>4 DEF Tables
    <3>3. (f # None /\ \E p \in HeapPages : w[p] = f) <=> f \in Range(Mapping)
      <4>1. \A p \in HeapPages : w[p] # None <=> p \in Mapped BY <2>2, HeapPlace DEF Fits
      <4> QED BY <2>3, <2>7, <4>1
    <3>4. \A s \in Slots : s \notin Middle => w[Window(s)] \in Reserved
      BY <2>2, <2>4, <2>5, FrameNames DEF SelfMapped
    <3>5. \A n \in Nodes : n \in HeapPages \/ \E s \in Middle : s \in Slots /\ n = Window(s)
      BY DEF Nodes, Middle
    <3>6. HeapPages \subseteq Nodes /\ \A s \in Middle : Window(s) \in Nodes BY DEF Nodes
    <3> HIDE DEF w
    <3> QED BY <3>1, <3>2, <3>3, <3>4, <3>5, <3>6
  <2> QED BY <2>1, <2>3, <2>6, <2>8
<1> QED BY <1>1, Inductive, PTL

\* At every step of map_page, unmap_virtual_address and of the writes between
\* them the heap sees the mapping AddressSpace promises: one page appears, on a
\* frame that is no other's, or one goes, and the others stay where they are.
THEOREM ImplementsAddressSpace == Spec => AddressSpaceSpec
<1>1. Init => A!Init
  <2> SUFFICES ASSUME Init PROVE A!Init OBVIOUS
  <2>1. MappingKnown BY InitIInv, MappingIs
  <2>2. Mapped = {} BY DEF Init, Idle, Mapped, HeapStart
  <2>3. Mapping = [p \in {} |-> View(mem)[p]] BY <2>1, <2>2 DEF MappingKnown
  <2> QED BY <2>3 DEF A!Init
<1>2. IInv /\ [Next]_vars => [A!Map \/ A!Unmap]_Mapping
  <2> SUFFICES ASSUME IInv, [Next]_vars PROVE [A!Map \/ A!Unmap]_Mapping OBVIOUS
  <2>1. IInv' /\ Outcome BY Step
  <2>2. MappingKnown BY MappingIs
  <2>3. MappingKnown' BY <2>1, MappingIs, PTL
  <2>4. /\ DOMAIN Mapping' = Mapped' /\ \A p \in Mapped' : Mapping'[p] = View(mem')[p]
        /\ Mapped' \subseteq HeapPages /\ Mapping' = [p \in Mapped' |-> View(mem')[p]]
    BY <2>3 DEF MappingKnown
  <2>5. /\ DOMAIN Mapping = Mapped /\ \A p \in Mapped : Mapping[p] = View(mem)[p]
        /\ Mapped \subseteq HeapPages /\ Mapping = [p \in Mapped |-> View(mem)[p]]
    BY <2>2 DEF MappingKnown
  <2>6. CASE OneAppears
    <3>1. PICK p \in HeapPages, f \in Frames :
            /\ p \notin Mapped /\ Mapped' = Mapped \cup {p} /\ f \notin used
            /\ Appears(View(mem), View(mem'), p, f)
      BY <2>6 DEF OneAppears
    <3>2. Mapping'[p] = f /\ \A q \in Mapped : Mapping'[q] = Mapping[q]
      BY <2>4, <2>5, <3>1 DEF Appears
    <3>3. f \notin Range(Mapping)
      <4>1. ASSUME NEW q \in Mapped PROVE Mapping[q] # f
        <5>1. q \in Nodes BY <2>5 DEF Nodes
        <5>2. f # None BY <3>1, FrameNames
        <5> QED BY <2>5, <3>1, <5>1, <5>2 DEF IInv, Sound, Owned
      <4> QED BY <2>5, <4>1 DEF Range
    <3>4. Mapping' = [q \in DOMAIN Mapping \cup {p} |-> IF q = p THEN Mapping'[p] ELSE Mapping[q]]
      <4>1. Mapping' = [q \in Mapped \cup {p} |-> Mapping'[q]] BY <2>4, <3>1
      <4> QED BY <2>5, <3>1, <3>2, <4>1
    <3>5. p \in DOMAIN Mapping' \ DOMAIN Mapping BY <2>4, <2>5, <3>1
    <3> QED BY <3>2, <3>3, <3>4, <3>5 DEF A!Map, A!Range, Range
  <2>7. CASE OneGoes
    <3>1. PICK p \in Mapped : Mapped' = Mapped \ {p} /\ Goes(View(mem), View(mem'), p)
      BY <2>7 DEF OneGoes
    <3>2. \A q \in Mapped \ {p} : View(mem')[q] = View(mem)[q] BY <2>5, <3>1 DEF Goes
    <3>3. Mapping' = [q \in Mapped \ {p} |-> Mapping[q]] BY <2>4, <2>5, <3>1, <3>2
    <3>4. Mapping' = Restrict(Mapping, DOMAIN Mapping \ {p}) BY <2>5, <3>3 DEF Restrict
    <3> QED BY <2>5, <3>4 DEF A!Unmap, A!Restrict, Restrict
  <2>8. CASE NoneMoves
    <3>1. Mapped' = Mapped /\ \A q \in Mapped : View(mem')[q] = View(mem)[q]
      BY <2>5, <2>8 DEF NoneMoves
    <3> QED BY <2>4, <2>5, <3>1
  <2> QED BY <2>1, <2>6, <2>7, <2>8 DEF Outcome
<1> QED BY <1>1, <1>2, Inductive, PTL DEF Spec, AddressSpaceSpec, A!Spec
===============================================================================
