------------------------------ MODULE PageTables ------------------------------
(***************************************************************************)
(* map_page and unmap_virtual_address of kernel/arch/i386/page.c under     *)
(* alloc_page and free_page of heap.c, in one page directory: the tables   *)
(* they make and drop, which they reach through the directory's last entry *)
(* (it points to the directory itself, so that the last part of the        *)
(* address space is a window on the tables), and the processor's cache of  *)
(* translations, which their own accesses go through.  It keeps what it    *)
(* cached: one that forgets only walks more often.                         *)
(*                                                                         *)
(* A page and a frame are known by their numbers.  The kernel as it is     *)
(* gives no heap page back: the call of free_page is commented out.        *)
(***************************************************************************)
EXTENDS Integers, FiniteSetsExt, Functions

CONSTANTS
    Entries,        \* the entries of a directory, and of a table (1024 in the code)
    MaxPage,        \* bound: the last heap page
    FreeFrames      \* the frames there are besides the first three: enough for
                    \* every page and its table

ASSUME TableAssumption ==
    /\ Entries \in Nat /\ Entries > 1
    /\ MaxPage \in Nat /\ MaxPage < (Entries - 1) * Entries
    /\ FreeFrames \in Nat /\ FreeFrames >= MaxPage + MaxPage \div Entries

VARIABLES
    mem,            \* frame -> what it holds, read as page table entries
    used,           \* the frames in use
    tlb,            \* page -> frame, as cached
    heapEnd,        \* the first page behind the heap
    todo            \* alloc_page and free_page: the pages left to map or unmap,
                    \* where the heap ends afterwards, and the table that
                    \* unmap_virtual_address is to unmap, or None

vars == <<mem, used, tlb, heapEnd, todo>>

None == -1

\* Low memory, the kernel's directory and its table: page 0 is the kernel's.
LowFrame == 0
Directory == 1
KernelTable == 2
Reserved == {LowFrame, Directory, KernelTable}
Frames == 0 .. 2 + FreeFrames

Slots == 0 .. Entries - 1
Self == Entries - 1
HeapStart == 1

SlotOf(p) == p \div Entries
EntryOf(p) == p % Entries

\* PAGE_TABLE(slot), and PAGE_DIRECTORY, which is PAGE_TABLE(Self).
Window(slot) == Self * Entries + slot

NoEntries == [e \in Slots |-> None]
\* What else a frame may hold looks like entries, too.
Data == [e \in Slots |-> LowFrame]

Idle == [op |-> "idle", pages |-> {}, end |-> 0, table |-> None]
Calling(op, pages, end) == [op |-> op, pages |-> pages, end |-> end, table |-> None]

Init ==
    /\ mem = [f \in Frames |->
                CASE f = Directory   -> [NoEntries EXCEPT ![0] = KernelTable, ![Self] = Directory]
                  [] f = KernelTable -> [NoEntries EXCEPT ![0] = LowFrame]
                  [] OTHER           -> Data]
    /\ used = Reserved
    /\ tlb = <<>>
    /\ heapEnd = HeapStart
    /\ todo = Idle

\* The hardware's walk through the tables as they are in m, and an access.  One
\* that reaches nothing is a page fault, whose handler spins.
Walk(m, p) ==
    LET t == m[Directory][SlotOf(p)] IN IF t = None THEN None ELSE m[t][EntryOf(p)]
Reached(m, p) == IF p \in DOMAIN tlb THEN tlb[p] ELSE Walk(m, p)
Cached(t, p, f) == [q \in DOMAIN t \cup {p} |-> IF q = p THEN f ELSE t[q]]

\* allocate_next_page, as FirstFit has it
NextFrame(u) == IF Frames \subseteq u THEN 0 ELSE Min(Frames \ u)

-------------------------------------------------------------------------------
(* alloc_page and map_virtual_address *)

NewTableUncleared(m, t) == m
NewTable(m, t) == [m EXCEPT ![t] = NoEntries]

\* A table is entered in the directory first and cleared through its window.
MapPage(p, f, u) ==
    LET slot    == SlotOf(p)
        missing == mem[Directory][slot] = None
        t       == NextFrame(u)
        entered == IF missing THEN [mem EXCEPT ![Directory][slot] = t] ELSE mem
        table   == Reached(entered, Window(slot))
        cleared == IF missing THEN NewTable(entered, table) ELSE entered
    IN  /\ table # None
        /\ mem' = [cleared EXCEPT ![table][EntryOf(p)] = f]
        /\ used' = IF missing THEN u \cup {t} ELSE u
        /\ tlb' = Cached(tlb, Window(slot), table)

CallAllocPage(pages) ==
    /\ todo = Idle /\ heapEnd + pages <= MaxPage + 1
    /\ todo' = Calling("alloc", heapEnd .. heapEnd + pages - 1, heapEnd + pages)
    /\ UNCHANGED <<mem, used, tlb, heapEnd>>

AllocPage ==
    /\ todo.op = "alloc" /\ todo.pages # {}
    /\ MapPage(heapEnd, NextFrame(used), used \cup {NextFrame(used)})
    /\ heapEnd' = heapEnd + 1
    /\ todo' = [todo EXCEPT !.pages = @ \ {heapEnd}]

-------------------------------------------------------------------------------
(* free_page and unmap_virtual_address *)

\* The last pages of the heap.
CallFreePage(pages) ==
    /\ todo = Idle /\ heapEnd - pages >= HeapStart
    /\ todo' = Calling("free", heapEnd - pages .. heapEnd - 1, heapEnd - pages)
    /\ UNCHANGED <<mem, used, tlb, heapEnd>>

NotFlushed(t, p) == t
Flushed(t, p) == Restrict(t, DOMAIN t \ {p})

EmptyButFirst(entries) == \A e \in Slots \ {0} : entries[e] = None
EmptySomewhere(entries) == \E e \in Slots : entries[e] = None
Empty(entries) == \A e \in Slots : entries[e] = None

\* unmap_virtual_address(p) up to where it may call itself for the table.
UnmapPage(p) ==
    LET window  == Window(SlotOf(p))
        table   == Reached(mem, window)
        cleared == [mem EXCEPT ![table][EntryOf(p)] = None]
    IN  /\ table # None
        /\ mem' = cleared
        /\ used' = used \ {mem[table][EntryOf(p)]}
        /\ tlb' = Flushed(Cached(tlb, window, table), p)
        /\ todo' = [todo EXCEPT !.pages = @ \ {p},
                                !.table = IF Empty(cleared[table]) THEN window ELSE None]
        /\ UNCHANGED heapEnd

FreePage ==
    /\ todo.op = "free" /\ todo.table = None /\ todo.pages # {}
    /\ UnmapPage(Min(todo.pages))

UnmapTable == todo.table # None /\ UnmapPage(todo.table)

\* The loops are over; alloc_page has moved the heap's end already.
Return ==
    /\ todo # Idle /\ todo.pages = {} /\ todo.table = None
    /\ heapEnd' = todo.end
    /\ todo' = Idle
    /\ UNCHANGED <<mem, used, tlb>>

\* The kernel writes to a page of its heap.
Write(p) ==
    /\ todo = Idle /\ p \in HeapStart .. heapEnd - 1 /\ Reached(mem, p) # None
    /\ mem' = [mem EXCEPT ![Reached(mem, p)] = Data]
    /\ tlb' = Cached(tlb, p, Reached(mem, p))
    /\ UNCHANGED <<used, heapEnd, todo>>

Proceed == AllocPage \/ FreePage \/ UnmapTable \/ Return

Next ==
    \/ \E pages \in 1 .. MaxPage : CallAllocPage(pages) \/ CallFreePage(pages)
    \/ Proceed
    \/ \E p \in HeapStart .. MaxPage : Write(p)

\* alloc_page and free_page are sequential code: the processor goes on with them.
Spec == Init /\ [][Next]_vars /\ WF_vars(Proceed)

-------------------------------------------------------------------------------
(* Properties *)

\* No access goes through a translation that is no longer in the tables, neither
\* the kernel's to its heap nor map_page's to a table through its window: where a
\* table is dropped and another made at the same place, the window moves along.
CacheCoherent == \A p \in DOMAIN tlb : tlb[p] = Walk(mem, p)

HeapPages == HeapStart .. MaxPage
Mapping == [p \in {q \in HeapPages : Reached(mem, q) # None} |-> Reached(mem, p)]
Tables == {mem[Directory][s] : s \in Slots} \ {None}

\* Between calls the heap's pages and no others are mapped, a table is there for
\* a part of the address space that has pages and for no other, and the frames in
\* use are theirs: no frame is lost, and none is freed that is still in use.
FramesAccounted ==
    todo = Idle =>
        /\ DOMAIN Mapping = HeapStart .. heapEnd - 1
        /\ \A s \in Slots : mem[Directory][s] # None <=>
                            \E p \in DOMAIN Mapping \cup {0, Window(Self)} : SlotOf(p) = s
        /\ used = Reserved \cup Range(Mapping) \cup Tables

\* At every step, the processor reaches the mapping that AddressSpace promises:
\* a new table brings no page with it, and a dropped one takes none along.
A == INSTANCE AddressSpace WITH mapping <- Mapping
AddressSpaceSpec == A!Spec

\* Every call returns: unmap_virtual_address calls itself for an empty table, but
\* not for the directory, which has an entry of its own.
CallsReturn == todo # Idle ~> todo = Idle
===============================================================================
