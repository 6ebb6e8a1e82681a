------------------------------ MODULE KernelSpace -----------------------------
(***************************************************************************)
(* The kernel's half of every address space: map_page and                  *)
(* get_physical_address of kernel/arch/i386/page.c under alloc_page of     *)
(* heap.c, the temporary mapping of load_module, and the processor's cache *)
(* of translations.  All page directories share the kernel's page table,   *)
(* which maps the heap's first pages; what the heap maps behind them goes  *)
(* into the directory that is in use at the time.                          *)
(*                                                                         *)
(* A page is known by its number from KERNEL_VIRTUAL_BASE on, a frame by   *)
(* its own.  allocate_next_page is what FirstFit says it is.               *)
(***************************************************************************)
EXTENDS Integers, FiniteSetsExt

CONSTANTS
    Entries,        \* the entries of a page table (1024 in the code)
    HeapStart,      \* the page HEAP_START is in, behind the kernel
    MaxPage,        \* bound: where the heap ends at most
    FreeFrames,     \* the frames that are free when init_bitmap returns
    ModulePages,    \* the pages of the boot module
    Dirs            \* bound: the page directories of processes

ASSUME SpaceAssumption ==
    /\ Entries \in Nat \ {0} /\ HeapStart \in 0 .. Entries - 1
    /\ MaxPage \in Nat /\ FreeFrames \in Nat /\ ModulePages \in Nat \ {0}
    /\ Dirs \cap Nat = {}

VARIABLES
    pdes,           \* directory -> the kernel's entries of it
    tables,         \* the frame of a page table -> its entries
    used,           \* the frames in use
    cr3, tlb,       \* the directory in use; page -> frame, as cached
    heapEnd,        \* the first page behind the heap
    backing,        \* history: heap page -> the frame it was mapped to
    phase, temp,    \* load_module: "boot", "temp", "remap", then "run"; its temp_pages
    remapped,       \* and its loop counter
    stopped         \* why the machine stopped: "no", "fault" or "memory"

vars == <<pdes, tables, used, cr3, tlb, heapEnd, backing, phase, temp, remapped, stopped>>
loadVars == <<phase, temp, remapped>>

None == -1
Boot == 0
KernelTable == 1
Module(i) == 2 + i
Reserved == 0 .. 1 + ModulePages
Frames == 0 .. 1 + ModulePages + FreeFrames

SlotOfNext(p) == (p + 1) \div Entries
SlotOf(p) == p \div Entries
EntryOf(p) == p % Entries
Slots == 0 .. SlotOf(MaxPage)
HeapPages == HeapStart .. heapEnd - 1

\* An empty table, and the kernel's half of a new directory: fork and
\* load_module fill in the kernel's table and nothing else.
NoEntries == [e \in 0 .. Entries - 1 |-> None]
NothingMapped == [s \in Slots |-> None]
KernelOnly == [s \in Slots |-> IF s = 0 THEN KernelTable ELSE None]

\* The hardware's walk, which get_physical_address does as well.
Walk(d, p) ==
    LET t == pdes[d][SlotOf(p)] IN IF t = None THEN None ELSE tables[t][EntryOf(p)]

\* allocate_next_page when the frames of u are in use: 0 is a refusal.
NextFrame(u) == IF Frames \subseteq u THEN 0 ELSE Min(Frames \ u)

Init ==
    /\ pdes = [d \in {Boot} |-> KernelOnly]
    /\ tables = [t \in {KernelTable} |-> NoEntries]
    /\ used = Reserved
    /\ cr3 = Boot /\ tlb = <<>>
    /\ heapEnd = HeapStart
    /\ backing = <<>>
    /\ phase = "boot" /\ temp = 0 /\ remapped = 0
    /\ stopped = "no"

TableMissing(p) == pdes[cr3][SlotOf(p)] = None

\* map_page, when the frames of u are in use and a frame is left if it needs
\* a table: the table is entered in the directory in use, and cleared.
MapPage(p, f, u) ==
    /\ IF TableMissing(p)
       THEN LET t == NextFrame(u)
            IN  /\ used' = u \cup {t}
                /\ pdes' = [pdes EXCEPT ![cr3][SlotOf(p)] = t]
                /\ tables' = [q \in DOMAIN tables \cup {t} |->
                                IF q = t THEN [NoEntries EXCEPT ![EntryOf(p)] = f] ELSE tables[q]]
       ELSE /\ used' = u
            /\ tables' = [tables EXCEPT ![pdes[cr3][SlotOf(p)]][EntryOf(p)] = f]
            /\ UNCHANGED pdes
    /\ backing' = [q \in DOMAIN backing \cup {p} |-> IF q = p THEN f ELSE backing[q]]

\* A page of alloc_page: the frame for the page is taken before the one for
\* the table.
Enough == \E f, t \in Frames \ used : f # t \/ ~TableMissing(heapEnd)

Grow ==
    /\ stopped = "no" /\ heapEnd <= MaxPage /\ Enough
    /\ MapPage(heapEnd, NextFrame(used), used \cup {NextFrame(used)})
    /\ heapEnd' = heapEnd + 1
    /\ UNCHANGED <<cr3, tlb, stopped>>

GrowHeap == phase \in {"boot", "run"} /\ Grow /\ UNCHANGED loadVars

\* allocate_next_page refuses.  The code then maps frame 0, as a page, a table
\* or both at once: the model stops.
OutOfMemory ==
    /\ stopped = "no" /\ heapEnd <= MaxPage /\ ~Enough
    /\ stopped' = "memory"
    /\ UNCHANGED <<pdes, tables, used, cr3, tlb, heapEnd, backing, loadVars>>

\* The kernel reads or writes a heap page.  Between malloc_pages and the last
\* map_page of load_module, its temporary pages are not among them: malloc_pages
\* has just mapped them, and writes before the first one and behind the last.
UntouchedNone == {}
Untouched == IF phase \in {"temp", "remap"} THEN temp .. temp + ModulePages - 1 ELSE {}

Touch(p) ==
    /\ stopped = "no" /\ p \notin Untouched
    /\ IF p \in DOMAIN tlb \/ Walk(cr3, p) = None
       THEN UNCHANGED tlb
       ELSE tlb' = [q \in DOMAIN tlb \cup {p} |-> IF q = p THEN Walk(cr3, p) ELSE tlb[q]]
    /\ stopped' = IF p \notin DOMAIN tlb /\ Walk(cr3, p) = None THEN "fault" ELSE "no"
    /\ UNCHANGED <<pdes, tables, used, cr3, heapEnd, backing, loadVars>>

-------------------------------------------------------------------------------
(* load_module *)

\* malloc_pages(num_code_pages) maps that many pages and one more.
MallocTemp ==
    /\ phase = "boot" /\ stopped = "no"
    /\ phase' = "temp" /\ temp' = heapEnd
    /\ UNCHANGED <<pdes, tables, used, cr3, tlb, heapEnd, backing, remapped, stopped>>

GrowTemp ==
    /\ phase = "temp" /\ Grow
    /\ phase' = IF heapEnd' = temp + ModulePages + 1 THEN "remap" ELSE "temp"
    /\ UNCHANGED <<temp, remapped>>

FrameFreedAfterwards(p) == {Module(remapped)}
FrameFreed(p) == {Walk(cr3, p)}

\* One turn of the loop: the page's frame is given back, and the page mapped to
\* a frame of the module, without an invlpg.
RemapTemp ==
    LET p == temp + remapped
    IN  /\ phase = "remap" /\ stopped = "no"
        /\ MapPage(p, Module(remapped), used \ FrameFreed(p))
        /\ remapped' = remapped + 1
        /\ phase' = IF remapped' = ModulePages THEN "run" ELSE "remap"
        /\ UNCHANGED <<cr3, tlb, heapEnd, temp, stopped>>

-------------------------------------------------------------------------------
(* Page directories: fork and load_module, run_process, handle_exit *)

NewDirectory(d) ==
    /\ phase = "run" /\ stopped = "no" /\ d \notin DOMAIN pdes
    /\ pdes' = [e \in DOMAIN pdes \cup {d} |-> IF e = d THEN KernelOnly ELSE pdes[e]]
    /\ UNCHANGED <<tables, used, cr3, tlb, heapEnd, backing, loadVars, stopped>>

\* Loading cr3 empties the cache.
LoadCr3(d) ==
    /\ phase = "run" /\ stopped = "no" /\ d \in DOMAIN pdes
    /\ cr3' = d /\ tlb' = <<>>
    /\ UNCHANGED <<pdes, tables, used, heapEnd, backing, loadVars, stopped>>

\* handle_exit frees the directory and the tables that the process owns, which
\* are not the ones map_page allocated.
Freeable == DOMAIN pdes \ {cr3, Boot}

FreeDirectory(d) ==
    /\ phase = "run" /\ stopped = "no" /\ d \in Freeable
    /\ pdes' = [e \in DOMAIN pdes \ {d} |-> pdes[e]]
    /\ UNCHANGED <<tables, used, cr3, tlb, heapEnd, backing, loadVars, stopped>>

Next ==
    \/ GrowHeap
    \/ OutOfMemory
    \/ \E p \in HeapPages : Touch(p)
    \/ MallocTemp
    \/ GrowTemp
    \/ RemapTemp
    \/ \E d \in Dirs : NewDirectory(d) \/ LoadCr3(d) \/ FreeDirectory(d)

Spec == Init /\ [][Next]_vars

-------------------------------------------------------------------------------
(* Properties *)

\* Every process sees one kernel heap.  In the pages of the kernel's table, each
\* directory, also one made before the page was mapped, leads to the page's
\* frame; behind them, to that frame or nowhere, never to another page's memory.
OneHeap ==
    \A d \in DOMAIN pdes, p \in HeapPages :
        Walk(d, p) = backing[p] \/ (SlotOf(p) # 0 /\ Walk(d, p) = None)

\* A kernel that has not outgrown the kernel's table never faults on its heap.
FaultsOnlyBeyond == stopped = "fault" => heapEnd > Entries

\* No frame has two uses: each heap page and page table has a frame of its own,
\* that is in use, also when load_module has traded some for the module's.
OwnFrames ==
    /\ \A p, q \in HeapPages : p # q => backing[p] # backing[q]
    /\ {backing[p] : p \in HeapPages} \cup DOMAIN tables \subseteq used
    /\ {backing[p] : p \in HeapPages} \cap DOMAIN tables = {}

\* The processor never uses a translation that the tables do not give any more,
\* although map_page does not drop the one it replaces.
CacheCoherent == \A p \in DOMAIN tlb : tlb[p] = Walk(cr3, p)
===============================================================================
