--------------------------------- MODULE Heap ---------------------------------
(***************************************************************************)
(* The kernel heap: libc/stdlib/dynamic_allocation.c over alloc_page of    *)
(* kernel/arch/i386/heap.c.  A block is a header, its bytes and a footer;  *)
(* blocks follow one another from start to end, and what lies between the  *)
(* block end and heap_end is not in any block.                             *)
(*                                                                         *)
(* Addresses count bytes from HEAP_START.  Memory is known by the tags the *)
(* allocator wrote and nobody has overwritten: a tag that is not there     *)
(* reads as anything.                                                      *)
(***************************************************************************)
EXTENDS Integers, FiniteSets

CONSTANTS
    PageSize,       \* PAGE_SIZE (4096 in the code)
    MaxPages,       \* bound: the pages the heap may grow to
    MaxLive,        \* bound: how many allocations are held at a time
    Sizes,          \* bound: the sizes asked of malloc
    PageCounts      \* bound: the counts asked of malloc_pages

ASSUME HeapAssumption ==
    /\ PageSize \in Nat /\ PageSize >= 22 /\ {MaxPages, MaxLive} \subseteq Nat
    /\ Sizes \subseteq Nat \ {0} /\ PageCounts \subseteq Nat \ {0}

VARIABLES
    start, end,     \* the statics of dynamic_allocation.c; NULL before the first call
    heapEnd,        \* its heap_end, and heap.c's, which alloc_page moves
    tags,           \* address -> the metadata_t or the ending size written there
    live,           \* history: what callers hold
    extended,       \* the block malloc_pages made larger, if it ever did
    moving          \* what realloc is copying, and how many bytes

heapVars == <<start, end, heapEnd, tags, live, extended>>
vars == <<heapVars, moving>>

NULL == -1
NoMove == [from |-> NULL, size |-> 0]
MetaSize == 5       \* sizeof(metadata_t): a bool and a size_t, packed
SizeT == 4          \* sizeof(size_t)
MinSplit == MetaSize + SizeT + 4

MaxBytes == MaxPages * PageSize

\* NUM_PAGES, END_BLOCK, ENDING_SIZE_FIELD, NEXT_BLOCK and PREV_BLOCK, for a
\* block whose size is given.
NumPages(from, to) ==
    to \div PageSize - from \div PageSize + IF to % PageSize # 0 THEN 1 ELSE 0
EndBlock(b, size) == b + MetaSize + size + SizeT
EndingSizeField(b, size) == b + MetaSize + size
NextBlock(b) == EndBlock(b, tags[b].size)
PrevBlock(b) == b - SizeT - tags[b - SizeT].size - MetaSize

\* The size of a header is MetaSize bytes, of a footer SizeT.
Header(used, size) == [used |-> used, size |-> size, width |-> MetaSize]
Footer(size) == [used |-> FALSE, size |-> size, width |-> SizeT]

\* Writing the bytes a .. a + n - 1 destroys the tags that share a byte.
Over(t, a, n) ==
    [b \in {x \in DOMAIN t : x + t[x].width <= a \/ a + n <= x} |-> t[b]]
Put(t, a, tag) ==
    LET kept == Over(t, a, tag.width)
    IN  [b \in DOMAIN kept \cup {a} |-> IF b = a THEN tag ELSE kept[b]]
\* A block's header and footer; what its bytes held before is forgotten.
PutBlock(t, b, used, size) ==
    Put(Put(Over(t, b, MetaSize + size + SizeT), b, Header(used, size)),
        EndingSizeField(b, size), Footer(size))

\* The blocks met walking from start with NEXT_BLOCK, up to end.
Chain ==
    LET from[b \in Int] ==
            {b} \cup IF b < end /\ b \in DOMAIN tags THEN from[NextBlock(b)] ELSE {}
    IN  IF start = NULL THEN {} ELSE from[start]

Init ==
    /\ start = NULL /\ end = NULL
    /\ heapEnd = 0
    /\ tags = <<>>
    /\ live = {}
    /\ extended = NULL
    /\ moving = NoMove

\* alloc_page(pages), and its caller's update of heap_end.
Grow(pages) ==
    /\ heapEnd + pages * PageSize <= MaxBytes
    /\ heapEnd' = heapEnd + pages * PageSize

\* The allocator returns the bytes of block b: the caller may overwrite size
\* of them, so t loses the tags that are there.
Return(t, b, size, aligned) ==
    /\ Cardinality(live) < MaxLive
    /\ tags' = Over(t, b + MetaSize, size)
    /\ live' = live \cup {[ptr |-> b + MetaSize, size |-> size, aligned |-> aligned]}

-------------------------------------------------------------------------------
(* malloc *)

\* The first call: the pages the block needs, the block at their start.
MallocFirst(size) ==
    /\ extended = NULL /\ start = NULL
    /\ start' = heapEnd /\ end' = heapEnd
    /\ Grow(NumPages(0, EndBlock(0, size)))
    /\ Return(PutBlock(tags, heapEnd, TRUE, size), heapEnd, size, FALSE)
    /\ UNCHANGED extended

Fits(size) == {b \in Chain : ~tags[b].used /\ tags[b].size >= size}

SplitFrom == MinSplit

\* Block b, cut in two if what is left makes a block of 4 bytes.  What is left
\* of end is in no block again, so its tags are forgotten like all that lies
\* behind end: nothing reads them but malloc_pages, in MallocPagesSmallGap.
CutTo(b, size) ==
    LET left == tags[b].size - size
        rest == IF b = end THEN Over(tags, b, MetaSize + tags[b].size + SizeT)
                ELSE PutBlock(tags, EndBlock(b, size), FALSE, left - MetaSize - SizeT)
    IN  IF left >= SplitFrom THEN PutBlock(rest, b, TRUE, size)
        ELSE Put(tags, b, Header(TRUE, tags[b].size))

\* A free block: the first that is large enough.
MallocReuse(size) ==
    /\ extended = NULL /\ start # NULL
    /\ \E b \in Fits(size) :
        /\ \A c \in Fits(size) : b <= c
        /\ Return(CutTo(b, size), b, size, FALSE)
    /\ UNCHANGED <<start, end, heapEnd, extended>>

NeedsPages(b, size) == EndBlock(b, size) > heapEnd

\* No free block: a new one after end.
MallocExtend(size) ==
    /\ extended = NULL /\ start # NULL /\ Fits(size) = {}
    /\ end' = NextBlock(end)
    /\ IF NeedsPages(end', size)
       THEN Grow(NumPages(end', EndBlock(end', size)))
       ELSE UNCHANGED heapEnd
    /\ Return(PutBlock(tags, end', TRUE, size), end', size, FALSE)
    /\ UNCHANGED <<start, extended>>

-------------------------------------------------------------------------------
(* malloc_pages *)

\* Where the block after end would start, and the pages mapped first: one for
\* the first call, one if the header would not fit.
AfterEnd == IF start = NULL THEN heapEnd ELSE NextBlock(end)
FirstPages == IF start = NULL \/ heapEnd - AfterEnd < MetaSize THEN 1 ELSE 0
Gap == heapEnd + FirstPages * PageSize - AfterEnd

FillerSizeOneHeader == Gap - MetaSize - SizeT
FillerSize == Gap - 2 * MetaSize - SizeT

\* The gap up to the page boundary is made a free block of its own, which
\* leaves room for the header of the new block just before the boundary.
MallocPages(pages) ==
    /\ extended = NULL
    /\ Gap >= 2 * MetaSize + SizeT + 4
    /\ start' = IF start = NULL THEN heapEnd ELSE start
    /\ end' = EndBlock(AfterEnd, FillerSize)
    /\ Grow(FirstPages + pages + 1)
    /\ Return(PutBlock(PutBlock(tags, AfterEnd, FALSE, FillerSize), end', TRUE, PageSize * pages),
              end', PageSize * pages, TRUE)
    /\ UNCHANGED extended

\* The gap is too small for that.  The code adds it to the size it reads at
\* AfterEnd, where no block is, and writes the footer where that size says:
\* anything may follow, and the model stops here.
MallocPagesSmallGap(pages) ==
    /\ extended = NULL /\ start # NULL
    /\ Gap < 2 * MetaSize + SizeT + 4
    /\ heapEnd + (FirstPages + pages + 1) * PageSize <= MaxBytes
    /\ extended' = AfterEnd
    /\ UNCHANGED <<start, end, heapEnd, tags, live>>

-------------------------------------------------------------------------------
(* free *)

\* The size of two neighbours made one.
JoinedSizeNoFooter(size, other) == size + MetaSize + other
JoinedSize(size, other) == size + MetaSize + SizeT + other

JoinsNext(b) == b # end /\ ~tags[NextBlock(b)].used
JoinsAnyPrevious(b) == b # start
JoinsPrevious(b) == b # start /\ ~tags[PrevBlock(b)].used

\* The block joins the next one if that is free, and then the previous one.
Free(r) ==
    LET b    == r.ptr - MetaSize
        size == IF JoinsNext(b) THEN JoinedSize(tags[b].size, tags[NextBlock(b)].size)
                ELSE tags[b].size
        last == IF JoinsNext(b) /\ NextBlock(b) = end THEN b ELSE end
    IN  /\ extended = NULL /\ r \in live
        /\ live' = live \ {r}
        /\ end' = IF JoinsPrevious(b) /\ b = last THEN PrevBlock(b) ELSE last
        /\ tags' =
             LET joined == IF JoinsNext(b) THEN PutBlock(tags, b, FALSE, size)
                           ELSE Put(tags, b, Header(FALSE, size))
             IN  IF JoinsPrevious(b)
                 THEN PutBlock(joined, PrevBlock(b), FALSE,
                               JoinedSize(tags[PrevBlock(b)].size, size))
                 ELSE joined
        /\ UNCHANGED <<start, heapEnd, extended>>

Malloc(size) == MallocFirst(size) \/ MallocReuse(size) \/ MallocExtend(size)

-------------------------------------------------------------------------------
(* realloc *)

\* The new block is allocated while the old one is held.
ReallocAllocates(r, size) ==
    /\ Malloc(size)
    /\ moving' = [from |-> r.ptr, size |-> size]

\* memcpy reads the new size from the old block; what it writes is the new
\* block's.  A read of what is not mapped is the end: the fault handler spins.
CopyMapped == moving.from + moving.size <= heapEnd

ReallocFrees ==
    /\ moving # NoMove /\ CopyMapped
    /\ \E r \in live : r.ptr = moving.from /\ Free(r)
    /\ moving' = NoMove

\* calloc is malloc and writes to what it returns, which Return lets every
\* caller make.
Next ==
    \/ /\ moving = NoMove
       /\ \/ \E size \in Sizes : Malloc(size)
          \/ \E pages \in PageCounts : MallocPages(pages) \/ MallocPagesSmallGap(pages)
          \/ \E r \in live : Free(r)
       /\ UNCHANGED moving
    \/ moving = NoMove /\ \E r \in live, size \in Sizes : ReallocAllocates(r, size)
    \/ ReallocFrees

Spec == Init /\ [][Next]_vars

-------------------------------------------------------------------------------
(* Properties *)

IsBlock(b) ==
    /\ b \in DOMAIN tags /\ tags[b].width = MetaSize
    /\ LET f == EndingSizeField(b, tags[b].size)
       IN  f \in DOMAIN tags /\ tags[f] = Footer(tags[b].size)

\* The boundary tags are right whatever callers write in their memory: the
\* blocks follow one another from start to end and end inside the heap, and
\* each has a header and a footer of the same size that nothing has overwritten.
\* NEXT_BLOCK and PREV_BLOCK never leave the heap nor read a stale tag.
BlocksTagged ==
    start # NULL =>
        /\ \A b \in Chain : b <= end /\ IsBlock(b)
        /\ end \in Chain /\ NextBlock(end) <= heapEnd

\* What callers hold are the used blocks, all of them: free and the splitting
\* and joining of blocks neither lose one nor mark one free that is held.
UsedBlocksHeld ==
    /\ \A r \in live : r.ptr - MetaSize \in Chain /\ tags[r.ptr - MetaSize].used
    /\ \A b \in Chain : tags[b].used =>
        \E r \in live : r.ptr = b + MetaSize /\ r.size <= tags[b].size

\* Callers get memory that is mapped, that overlaps no one else's, and that is
\* on a page boundary for malloc_pages.
A == INSTANCE Allocator WITH mapped <- heapEnd
AllocatorSpec == A!Spec

\* The comment in malloc_pages: "extend prev block to take up the space".  The
\* block before the gap is the block end.
ExtendsPreviousBlock == extended # NULL => extended = end
===============================================================================
