------------------------------ MODULE BootMemory ------------------------------
(***************************************************************************)
(* How the physical memory map comes about: the boot assembly maps the     *)
(* kernel, kernel_main makes the boot loader's addresses virtual, and      *)
(* init_bitmap reserves what the boot loader says is taken.  Afterwards    *)
(* frames are allocated and given back as in PageFrames, whose variables   *)
(* and actions these are.                                                  *)
(*                                                                         *)
(* Addresses count bytes and have the width of a uint32_t, except in the   *)
(* boot loader's memory map, where they are twice as wide.                 *)
(***************************************************************************)
EXTENDS PageFrames, SequencesExt

CONSTANTS
    PageSize,       \* PAGE_SIZE (4096 in the code)
    VirtualBase,    \* KERNEL_VIRTUAL_BASE
    KernelStart,    \* kernel_physical_start
    InfoSize,       \* sizeof(multiboot_info_t)
    ListSize,       \* sizeof(multiboot_module_t)
    WordSize,       \* sizeof(uint32_t)
    Loaders         \* bound: what boot loaders leave in memory, see below

ASSUME BootAssumption ==
    /\ {PageSize, VirtualBase, KernelStart, InfoSize, ListSize, WordSize} \subseteq Nat \ {0}
    /\ PageSize > 3 /\ VirtualBase % PageSize = 0 /\ KernelStart % PageSize = 0

VARIABLES
    loader,         \* where the kernel ends, and what the boot loader left:
                    \*   info, list, map: the addresses of its structures
                    \*   modules: the boot modules, [start, end]
                    \*   hasMap, entries: its memory map, [addr, len, type]
    calls,          \* how many calls of mark_used init_bitmap has made
    fault           \* what stopped the kernel: "read" of what is not mapped,
                    \* "bitmap" for a write behind it, else "none"

bootVars == <<loader, calls, fault>>
allVars == <<vars, bootVars>>

AddressSpace == TotalFrames * PageSize
WideNumbers == 0 .. AddressSpace * AddressSpace - 1
Low(a) == a % AddressSpace
High(a) == a \div AddressSpace

\* The frames with a byte of from .. to - 1, in any width.
FramesOf(from, to) == {f \in Frames : f * PageSize < to /\ from < (f + 1) * PageSize}

NumPagesTruncated(from, to) == Low(to \div PageSize - from \div PageSize)
\* NUM_PAGES, of uint32_t operands
NumPages(from, to) ==
    Low(to \div PageSize - from \div PageSize + IF to % PageSize # 0 THEN 1 ELSE 0)

MappedAll == Frames
\* add_mapping of boot.S: page table entries, each a frame's address with two
\* flags, are made as long as they are below kernel_physical_end.
Mapped == {f \in Frames : f * PageSize + 3 < loader.kernelEnd}

\* Loaders gives addresses of 32 bits.  The kernel is below what the virtual
\* addresses from VirtualBase on leave to it, of which the last page is taken by its
\* page directory.  The numbers of the memory map are twice as wide, and any.
ASSUME LoaderAssumption == \A l \in Loaders :
    /\ l.kernelEnd \in Nat /\ KernelStart <= l.kernelEnd
    /\ l.kernelEnd + VirtualBase + PageSize <= AddressSpace
    /\ l.info \in 0 .. AddressSpace - 1
    /\ l.modules \in Seq([start : 0 .. AddressSpace - 1, end : 0 .. AddressSpace - 1])
    /\ \A i \in DOMAIN l.modules : l.modules[i].start <= l.modules[i].end
    /\ l.hasMap \in BOOLEAN
    /\ l.entries \in Seq([addr : WideNumbers, len : WideNumbers, type : Nat])

ToVirtual(a) == Low(a + VirtualBase)

\* The structures of the boot loader; an entry of the map is its size and two
\* numbers of two words each, low word first, and a type.
EntryWords(e) == <<20, Low(e.addr), High(e.addr), Low(e.len), High(e.len), e.type>>
MapWords == [k \in 1 .. 6 * Len(loader.entries) |->
                EntryWords(loader.entries[1 + (k - 1) \div 6])[1 + ((k - 1) % 6)]]
InfoFrames == FramesOf(loader.info, loader.info + InfoSize)
ListFrames == FramesOf(loader.list, loader.list + ListSize * Len(loader.modules))
MapFrames == FramesOf(loader.map, loader.map + WordSize * Len(MapWords))

-------------------------------------------------------------------------------
(* init_bitmap *)

\* A call of mark_used, and the frames the kernel has read to make it.
Call(start, num, reads) == [frame |-> start \div PageSize, num |-> num, reads |-> reads]

InfoVirtual == ToVirtual(loader.info)
ModuleCall(m) == Call(m.start, NumPages(m.start, m.end), InfoFrames \cup ListFrames)

\* The end of the range that starts at start, from the low words.
EndUnchecked(start, length) == Low(start + length)
End(start, length) == IF Low(start + length) = 0 THEN AddressSpace - 1 ELSE Low(start + length)

\* The i-th turn of the loop over the map, which reads three of its words.  For a
\* region that is available it reserves nothing.
MapStart(i) == MapWords[6 * i - 4]
MapLength(i) == MapWords[6 * i - 2]
MapType(i) == MapWords[6 * i]
ReservedType(i) == MapType(i) # 1
MapCall(i) ==
    Call(MapStart(i),
         IF ReservedType(i) THEN NumPages(MapStart(i), End(MapStart(i), MapLength(i))) ELSE 0,
         InfoFrames \cup MapFrames)

MapCalls == [i \in 1 .. (IF loader.hasMap THEN Len(loader.entries) ELSE 0) |-> MapCall(i)]

LowFirst ==
    <<Call(0, KernelStart \div PageSize, InfoFrames),
      Call(KernelStart, NumPages(KernelStart, loader.kernelEnd), InfoFrames)>>

\* All calls, in their order.
Calls ==
    LowFirst \o
    <<Call(InfoVirtual - VirtualBase, NumPages(InfoVirtual, Low(InfoVirtual + InfoSize)), InfoFrames)>>
    \o [i \in DOMAIN loader.modules |-> ModuleCall(loader.modules[i])]
    \o MapCalls

Begins == ~booted /\ fault = "none" /\ mark.num = 0 /\ calls < Len(Calls)
StaysIn(c) == c.frame + c.num <= TotalFrames

\* mark_used from its entry to its loop; a call for no pages does nothing.
MarkUsed ==
    LET c == Calls[calls + 1]
    IN  /\ Begins /\ c.reads \subseteq Mapped /\ StaysIn(c)
        /\ calls' = calls + 1
        /\ mark' = IF c.num = 0 THEN Idle
                   ELSE [offset |-> WordOf(c.frame), bit |-> BitOf(c.frame), num |-> c.num]
        /\ reserved' = reserved \cup (c.frame .. c.frame + c.num - 1)
        /\ UNCHANGED <<bitmap, scanVars, booted, held, loader, fault>>

\* What the kernel would read is not mapped; there are no handlers yet.
Fault ==
    /\ Begins /\ ~(Calls[calls + 1].reads \subseteq Mapped)
    /\ fault' = "read"
    /\ UNCHANGED <<vars, loader, calls>>

\* A count of pages that has wrapped: mark_used writes on behind the bitmap, for
\* more words than are mapped there.
Overrun ==
    /\ Begins /\ Calls[calls + 1].reads \subseteq Mapped /\ ~StaysIn(Calls[calls + 1])
    /\ fault' = "bitmap"
    /\ UNCHANGED <<vars, loader, calls>>

ReturnFromInit == fault = "none" /\ calls = Len(Calls) /\ EndBoot /\ UNCHANGED bootVars

-------------------------------------------------------------------------------

BootInit == Init /\ loader \in Loaders /\ calls = 0 /\ fault = "none"

\* The kernel is linked at KernelStart; the boot loader loads nothing over it.
BootNext ==
    \/ MarkUsed
    \/ MarkWord /\ UNCHANGED bootVars
    \/ Fault \/ Overrun
    \/ ReturnFromInit
    \/ (AllocateNextPage \/ AllocateFails \/ \E f \in Frames : FreePhysicalPage(f))
        /\ UNCHANGED bootVars

BootSpec == BootInit /\ [][BootNext]_allVars

-------------------------------------------------------------------------------
(* Properties *)

\* The regions the map does not give as available; a region in reach has a byte,
\* and none past the last that an address of 32 bits names.
ReservedRegions == {e \in ToSet(loader.entries) : loader.hasMap /\ e.type # 1}
InReach(e) == e.len > 0 /\ e.addr + e.len <= AddressSpace
MapInReach == \A e \in ReservedRegions : InReach(e)

\* What is taken, in bytes: low memory and the kernel, the boot loader's own
\* structure, the modules, and these regions, but those out of reach.
TakenInReach ==
    FramesOf(0, loader.kernelEnd) \cup InfoFrames
    \cup (UNION {FramesOf(m.start, m.end) : m \in ToSet(loader.modules)})
    \cup (UNION {FramesOf(e.addr, e.addr + e.len) : e \in {d \in ReservedRegions : InReach(d)}})

\* From the boot on, what is taken and in reach is marked and nobody's, wherever
\* regions start and end within frames, overlap, or reach the top of the address
\* space, and whatever regions are out of reach.  With none of those, a frame is
\* marked for no other reason than this or that somebody holds it; the code, which
\* reads the low words of 64-bit numbers, marks other frames for a region out of
\* reach.  Frame 0 is apart, as in PageFrames.
TakenIsReserved ==
    booted => /\ TakenInReach \subseteq UsedFrames \cup {0}
              /\ held \cap TakenInReach \subseteq {0}
              /\ MapInReach => UsedFrames \cup {0} = TakenInReach \cup held \cup {0}

\* The count of pages that mark_used is called with ends within the bitmap, the
\* top of the address space included, if no region is out of reach.
StaysInBitmap == MapInReach => fault # "bitmap"

\* The boot loader's structures that the kernel can read stay as they are: the
\* module list, which init_bitmap does not reserve, is read after frames have
\* been handed out and written to.
LoaderDataKept ==
    booted => held \cap Mapped \cap (InfoFrames \cup ListFrames \cup MapFrames) \subseteq {0}
===============================================================================
