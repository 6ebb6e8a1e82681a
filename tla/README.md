# A verification of snfos

snfos is a small i386 kernel: it boots from GRUB, reserves physical memory,
builds a kernel heap, sets up interrupts, loads one program from a boot module
and runs it and the processes it forks, which give way to one another with a
system call. This
directory models its core in TLA+, checks the models with TLC on small
instances, and proves some of the results for every value of the constants
with TLAPS. Paths below are relative to `src/`.

Run `tlc -config X.cfg M` and `tlapm M.tla` here. `PROJECT.json` lists the
runs, which lines each definition stands for, what each property is there to
catch (`hazards`), and for every property a plausible bug that breaks it
(`mutants`; the mutated operator stands just before the definition it mutates).

## The system

| Component | State | Operations | Interacts with |
| --- | --- | --- | --- |
| Physical page frames, `kernel/arch/i386/page.c` | bitmap, `last_allocated`, `freed` | `init_bitmap`/`mark_used`, `allocate_next_page`, `free_physical_page`, `check_used` | paging takes frames, the loader gives some back |
| Paging, `page.c` | page directories and tables, through the self-mapped entry | `map_page`, `map_virtual_address`, `unmap_virtual_address`, `get_physical_address` | frames; the heap; the loader |
| Kernel heap, `libc/stdlib/dynamic_allocation.c`, `heap.c` | `start`, `end`, `heap_end` (twice), headers and footers in memory | `malloc`, `malloc_pages`, `free`, `calloc`, `realloc`, `alloc_page`, `free_page` | paging; processes and the loader allocate from it |
| Processes, `process.c` | `first`, `last`, `current`, `pid_inc`, the linked `process_t`, their memory | `add_process`, `add_forked_process`, `run_process`, `yield`, `fork`, `handle_exit`, `get_pid` | heap; the system call gate; CR3 |
| Loader, `module.c`, `kernel.c` | none of its own | `load_module`, `kernel_main` | heap, paging, frames, processes |
| Interrupts and keyboard, `interupts.S`, `input.c` | IDT, PIC masks, key map | gates, dispatcher, `sys_print`, `sys_return` | processes; the terminal |
| Terminal, `tty.c` | row, column, screen | `terminal_putchar`, scroll | printf |
| printf and strings, `libc/stdio`, `libc/string` | none | parsing of formats, conversions, copies | terminal, or `sys_print` in user mode |
| User program and stubs, `modules/program1.c`, `libc/unistd`, `libc/arch` | registers, its memory | system calls | processes |
| Boot memory map, `boot.S`, `kernel.c`, `page.c`, `multiboot.h` | the boot loader's structures | page table, `virtualize_multiboot_info`, `init_bitmap` | frames |
| GDT, linking; ports and build | – | straight-line set-up | – |

What is hard in it. Interrupts are off in every system call (the gate is an
interrupt gate) and the timer is masked, so handlers never interleave; but while
`initialize_input` sets up the interrupt controllers, interrupts are on already.
Elsewhere the difficulty is in long sequences of legal calls. `handle_exit` frees the page
directory, tables and pages the processor stands on. `fork` must copy every
page, table and register. The ring of processes is relinked from any position.
The frame allocator trusts a cursor that frees make stale. The heap keeps its
structure between the callers' bytes. Each part has limits where its
arithmetic changes case: the end of a word, of a page, of the mapped heap.

What makes each part correct:

* boot: what the boot loader says is taken is reserved, nothing else, and what the kernel still reads of it stays;
* frames: a frame has one owner; the reserved frames have none; a request fails only if no frame is free;
* heap: regions are mapped, disjoint, aligned when pages are asked for; headers and footers agree after any series of calls;
* processes: the list is one ring in the order of the pids; everyone gets turns in that order; no process sees another's writes; nothing in use is freed; an exit gives back what it had;
* paging: every process sees one kernel heap, and each frame in it has one use; tables come and go with their pages; no access uses a translation that is gone;
* interrupts: every interrupt is acknowledged, once and where it came from, and returns through the frame it pushed; keys are read;
* terminal: the screen shows the end of what was written, the cursor behind it;
* printf: a format is read as it was meant, numbers print as their digits, fields are filled, and the result is the length;
* strings: copies are right for every overlap, comparisons are of unsigned bytes;
* the user program: parent and child print in turn, each with its own result of `fork`, until the machine rests.

## The modules

### Page frames: `FirstFit`, `PageFrames`, `PageFramesProofs`

`PageFrames` is the allocator of `page.c`. A frame number stands for the
address `frame * PAGE_SIZE` and a word of the bitmap is the set of its bits
that are 1. `init_bitmap` is a series of `mark_used` calls over ranges that may
overlap (`BeginMark`), and one iteration of `mark_used`'s outer loop is one
step (`MarkWord`); its first range starts at frame 0, as in the code.
`AllocateNextPage` and `AllocateFails` are the two outcomes of the scan from
`last_allocated`, `FreePhysicalPage` clears the bit and sets `freed`. The history variables
`reserved` and `held` record what was asked for and given out. A refused
request returns 0, and as the callers in the code map frame 0 then and may give
it back, the model lets them.

`FirstFit` is the promise: no bitmap, no cursor; the lowest free frame, and 0
only if nothing is free. `PageFrames` implements it with `used` the frames whose
bit is set (`FirstFitSpec`).

### Boot memory: `BootMemory`, `MCBootMemory`, proofs in `PageFramesProofs`

`BootMemory` extends `PageFrames` with the calls `init_bitmap` really makes.
`loader` is what the boot loader left: the kernel's end, the info structure, the
modules, the memory map with numbers twice as wide as an address. `Calls` is the
sequence of `mark_used` calls the code computes from it, word by word and in
32-bit arithmetic (`Low`), and `reads` the frames it reads on the way, which
`boot.S` must have mapped (`Mapped`); otherwise the kernel faults (`Fault`). A call whose
count has wrapped writes on behind the bitmap (`Overrun`), and the model stops. The loop over
the memory map has a turn for every entry, and reads it also where it reserves nothing
(`MapCall` with no pages).

`TakenIsReserved` compares the bitmap with what is taken (`TakenInReach`), which is said in
bytes and without any of that arithmetic. A region's address and length have 64 bits and
the code reads the low words of both, so a region that has no byte, or some past
4 GB, has other frames reserved for it. Two properties say what is left of it: whatever
such regions there are, everything else that is taken is reserved; and if there are none,
nothing else is, and no call leaves the bitmap (`StaysInBitmap`). Without that proviso
neither is so.
`PageFrames` takes for granted that its ranges stay inside the bitmap and begin with low
memory; that every call which ends is so is proved (`BootMarksInBitmap`, `BootSpec => Spec`).
With it, the theorems about `PageFrames` hold of `BootMemory`, too.

### Kernel heap: `Allocator`, `Heap`, `HeapProofs`

`Heap` follows `dynamic_allocation.c` byte by byte: addresses are offsets from
`HEAP_START`, `metadata_t` takes 5 bytes (it is packed) and a footer 4. `tags`
is what the allocator wrote: writing a tag, or a caller writing its bytes,
destroys the tags that share a byte. A tag that is not there reads as anything,
so a property that follows `NEXT_BLOCK` or `PREV_BLOCK` also shows that no stale
tag is read. What a block contained before it was made is forgotten for the
same reason, and so is what lies behind `end`.

`malloc` has three cases, one action each (`MallocFirst`, `MallocReuse` with the
cut in `CutTo`, `MallocExtend`), `malloc_pages` two. In the second one the gap
before the page boundary is too small for a block; the code then reads a size
where no block is. What follows is undefined, so the model records where
(`extended`) and stops. `heap_end` exists in `heap.c` and in
`dynamic_allocation.c`; both move together, by the same page counts, and are one
variable.

`Allocator` is the promise to callers, without blocks; `AllocatorSpec` says that
`Heap` implements it with `mapped` the heap's end. `realloc` is two actions,
`malloc` and then the copy and `free`; the copy reads the new size from the old
block (`CopyMapped`), and what it writes is the new block's own. `realloc(NULL, n)`
copies from address 0 and is left out. `calloc` is a `malloc` whose caller writes.

### Processes: `RoundRobin`, `UserMachine`, `Process`, `MCProcess`, `ProcessProofs`

`Process` is `process.c`, with the first process as `kernel_main`,
`load_module` and `add_process` make it (`KernelMain`). It has the linked list
(`first`, `last`, `next`, `prev`, `procs`), the saved states, and on the kernel
heap every object of an address space: directory, tables, the
`process_page_table_t` records, pages. A heap object is named by the process it
was allocated for, and an allocation is a sequence of objects, so that freeing
the first page of the program of the first process frees the whole program, and
freeing the first program page of a child frees that page alone. `UserWalk` is
the hardware's two-level walk with the user bits; `Compute` is a program
writing a register or a page through it.

`Yield`, `Fork`, `GetPid` are whole handlers. `handle_exit` is four actions:
`ExitAlone` (the last process: the kernel spins), `ExitUnlink` (the list, the
directory switch, the first `free`), `ExitFree` once per owned table, `ExitRun`.
Nothing interleaves with them; they are steps so that `MappingsLive` speaks of
every moment in which the processor could walk a freed table. `next` is kept
across the directory switch as the register that holds it at `-O2`; had it been
spilled, it would be read from the other process's kernel stack.

Not in it: `ring0` and the fixed initial stack state, error codes printed by
`handle_exit`, the temporary mapping of the boot module (it is in
`KernelSpace`), and allocation failure. Keyboard interrupts come between any two user instructions and leave
the state they interrupt as it was.

`RoundRobin` is the scheduler without pointers: whose turn is next by pid.
`UserMachine` extends it with registers and memory per process that only that
process changes, and `fork` as a copy. `Process` implements both
(`RoundRobinSpec`, `UserMachineSpec`; the steps inside `handle_exit` stutter).

### The kernel's address space: `KernelSpace`, `KernelSpaceProofs`

`map_page` under `alloc_page`, over several page directories. All of them share
the kernel's page table (`KernelTable`, the first 4 MB from
`KERNEL_VIRTUAL_BASE`); what the heap maps behind it needs a table of its own,
which `map_page` enters in the directory in use and in no other. `Touch` is the
kernel using its heap through the processor's translation cache, which loading
CR3 empties and `map_page` does not. The loader's exchange of frames is
`MallocTemp`, `GrowTemp` and `RemapTemp`; `Untouched` says why no cached
translation is in its way: nothing between `malloc_pages` and the last `map_page`
uses those pages, only the bytes before and behind them. `allocate_next_page` is
what `FirstFit` says it is (`NextFrame`); when it refuses, the code maps frame 0,
and the model stops.

`OneHeap` is as much as is true: behind the kernel's table a directory
may lack a page that another one has, and the kernel faults there
(`FaultsOnlyBeyond`), or maps it a second time when it allocates the next page.

### One directory's tables: `AddressSpace`, `PageTables`, `PageTablesProofs`

`PageTables` has what `KernelSpace` leaves out: the contents of the tables
themselves, in the frames they occupy. `mem` is physical memory as entries; a frame
that was data looks like a table full of entries (`Data`) until `map_page` clears it
through its window, the page of the last 4 MB where the self-entry of the directory
makes it appear. `UnmapPage` is one level of `unmap_virtual_address`, and
`UnmapTable` its call of itself for the table, whose window is then a page like
another and whose table is the directory. Every access, the kernel's own to its
windows included, goes through `tlb`. `AddressSpace` is the promise, without tables.
`free_page` has no caller in the kernel as it is (the call in
`dynamic_allocation.c` is commented out). There are frames enough for all pages and their
tables (`TableAssumption`): when `allocate_next_page` refuses, the code maps frame 0, which
`KernelSpace` and `PageFrames` have.

### Interrupts: `Interrupts`, `InterruptsProofs`

`initialize_input` one port access after the other; `load_idt` comes before
`PIC_remap`, so interrupts fall between any two of them. The two controllers are
external, as `PIC_remap` and `PIC_sendEOI` use them: fully nested, ICW1 clears
requests, service and masks, end-of-interrupt ends the service of the first line,
a withdrawn request comes as line 7 or 15. `Enter` compares the frame the
processor pushes with the one the vector's stub was written for; a handler whose
frame is off by a word returns to no return address (`lost`), except that of a
page fault, which never returns (`spin`). Line 6 at its old vector is one.
After `load_idt` and before the controllers are reset nothing is acknowledged;
`InServiceWhileHandled` shows that the reset repairs that, `MasksKept` that the masks,
which it clears, come back. A key pressed that early
is not read, and the keyboard stays silent: `KeysRead` is about later ones.

Later, two exceptions have the wrong stub (`Misfits`): that of 7 takes for an error code
what is none, that of 8 pushes one where the processor has. Their handlers
return to no return address, and `HandlersReturn`, which says that every handler returns, is
violated (`stub_frames`). `FramesFit` says that no others do so: whatever exceptions come
up, a handler that does not return is that of 7 or 8, or its gate was overwritten.

The gates are a local variable of `initialize_input`. The ones that later calls
overwrite are the constant `Overwritten`, any set of vectors. Which they are the source
does not say: `idt` is the largest local, which gcc puts next to the return address, so
that the last gates go first. An interrupt through one of them is `lost`. The run takes one
of an exception, one of a line and the last.
Devices, their lines and the exceptions programs raise are bounds.

### Terminal: `Teleprinter`, `Terminal`, `TerminalProofs`

`Terminal` is `tty.c`, with the buffer as one array of cells and the index
arithmetic of the code. It has the operations and no next-state relation of its own:
who prints is in `Program1`. `Teleprinter` prints on paper of `Height` lines; the
refinement cuts the array into lines. Colours are one value.

### printf: `Directives`, `Printf`, `MCPrintf`, `MCLibc`, proofs in `LibcProofs`

`Directives` is the reading half, character by character: a format is spelled, and its
arguments are passed, from the pieces its author meant, and `ReadAsMeant` says that the
code's loops find the same ones. `Meanings` is any set of sequences of pieces; `IsMeaning`
says what a piece may be: text; a directive with any flags, numbers that are spelled or
passed, any modifier, a value; at the end of a format, a directive that breaks off or has no
conversion. `Continues` is what the last must not go on with, or its author would
have meant something else. Numbers are values of an int, and are spelled in fewer than 256
digits, which `parseInt` counts in a byte. Length modifiers are skipped, as in the code.

`Printf` extends it: each piece is printed, in a step of its own, before the next is
read. The code has one branch per conversion;
`%o`, `%x` and `%u` differ in the base alone and are `UnsignedNumber`. `IntMax` is the
largest int: widths are compared unsigned. Two things the code prints are not the value
passed, and `ValuePrinted` says nothing of them (`Spoiled`). A negative number under `%d`
has a minus and then the digits of the unsigned one (`printf.c:525-530`, `551`): -1 with
32 bits is -4294967295. The prefix of `%#o` and `%#u` ends in the format's next character
(`PrefixEnd`; `printf.c:253`, `447`), which may be a digit. The other properties hold of both.
`print` is both versions, the kernel's and the system call's, which
takes the low byte of the length for its result (`BoolValues` is the values of that
byte). An output character is kept as
what it is for, so that `ValuePrinted` can read the number back.

### Strings: `CString`, `Strings`, `MCLibc`, proofs in `LibcProofs`

`Strings` has the five loops, one byte a step; `CString` what a caller counts on,
in one step. `Forward` is `memmove`'s choice of direction; `before` is a history
variable, the memory at the call, by which the refinement hides the loop. `MCLibc` calls
string functions or `printf`, which share no state, in one run.

### The user program: `Program1`, `MCProgram1`, proofs in `TerminalProofs`

`Code` is `program1.c` after inlining `printf` and `puts` to what they print
and leaving the stack to `memory`; `crt0.S` is in `RunFirst` (what `main` gets) and in
the last instruction (`exit`). Two steps make a system call: the program leaves its
place, and the kernel answers. Between two of them a key may
be echoed on the screen (`Key`), but not within a system call, whose gate is an interrupt
gate. `sys_print` puts one character on the screen a step
(`SysPrintChar`); `Spelling` is the characters a piece stands for, few enough for a small
screen; `printed` and `lines` are histories of what the programs have printed. Whose turn it is comes from `RoundRobin`, which `Process`
implements, and `OnUserMachine` shows that the program is a user of the machine
`Process` provides. `Worked` is `print`'s result, which is taken from the low
byte of the length (as in `Printf`).

## The runs

| Run | Shows | Bounds |
| --- | --- | --- |
| `boot_memory` | `HeldExclusively`, `FirstFitSpec`, `TakenIsReserved`, `StaysInBitmap`, `LoaderDataKept` | 9 frames of 8 bytes, 3 words of 3 bits; kernels that end within a frame and on its boundary; up to 2 modules; maps of up to 2 of 8 regions: within, across, overlapping, ending at the last byte; 5 others, past the last 32-bit address, across it, with both ends at multiples, and empty; structures inside and outside what is mapped; frees below, at and above the cursor; exhaustion |
| `heap` | `BlocksTagged`, `UsedBlocksHeld`, `AllocatorSpec` | pages of 24 bytes, 5 of them, 3 allocations at a time, sizes 1, 6, 20 and one page: every case of the gap, cuts with and without a remainder, joins on both sides, `realloc` to larger and smaller sizes |
| `heap_small_gap` | fails: `ExtendsPreviousBlock` | same |
| `process_ring` | `TypeOK`, `RingOK`, `RoundRobinSpec`, `EveryoneRuns` | 4 processes in all: exits as first, last, middle, next to last, down to one and up again; memory abstracted to one value |
| `process_isolation` | `MappingsLive`, `Confined`, `ExitReclaims`, `UserMachineSpec` | 3 processes, 2 program pages, 2 values; writes to one program page and the stack |
| `process_code_contiguous` | fails: `CodeContiguous` | 2 processes, 2 program pages |
| `kernel_space` | `OneHeap`, `FaultsOnlyBeyond`, `OwnFrames`, `CacheCoherent` | 3 entries to a table, heap over three tables, 2 process directories and the boot one, 8 free frames: the heap outgrows the kernel's table twice, in different directories; memory runs out |
| `page_tables` | `CacheCoherent`, `FramesAccounted`, `AddressSpaceSpec`, `CallsReturn` | 4 entries to a table, heap over the kernel's table and two others: tables are made, dropped and made again elsewhere, also several in one call |
| `interrupts` | `InServiceWhileHandled`, `FramesFit`, `MasksKept`, `KeysRead` | lines 0, 1, 3, 6, 8, 12 and the spurious 7 and 15; three sets of firmware masks: both controllers, the first line of the second, old vectors of stubs with and without error code; exceptions 0, 6, 7, 8, 13 and 14; gates 0, 44 and 255 overwritten |
| `stub_frames` | fails: `HandlersReturn` | lines 0 and 1; exceptions 0, 7, 8 and 13 |
| `libc` | `TypeOK`, `CopiedBeforeOverwritten`, `CStringSpec`; `ReturnsLength`, `ValuePrinted`, `FieldFilled`, `ReadAsMeant` | 5 bytes of 3 values: every overlap, every difference, values of `memset` outside a byte; 6-bit int; every set of flags, numbers 0, one digit, two, largest, smallest; widths and precisions of one and two digits or arguments; every modifier; prefixes with a digit behind the conversion; two-piece formats that pass `INT_MAX`; 13 ways a format breaks off or has no conversion |
| `program1` | `TurnsTaken`, `OnUserMachine`, `Finished`, `CursorAtEnd`, `TeleprinterSpec` | the loop of `main` twice (once in the code), 2 keys; 0, 1 or 248 bytes of junk behind the argument; 3 by 3 cells: characters, newlines and a line of exactly three characters wrap and scroll, keys anywhere in between |

Deadlock is not checked where the bounds end the behaviour (no pid, page or
live allocation left), where the program is over, or the kernel halts. The bounds on
counters are the constants marked "bound" in each module. Three processes are enough
for isolation because a violation names two, the writer and the victim, and a
third to run between them; a fourth adds ring positions, which `process_ring` has.

Three runs show disagreements between the code and what the repository says.

* `heap_small_gap`: `malloc_pages` says "extend prev block to take up the space"
  where it changes a size that belongs to no block (`dynamic_allocation.c:51`).
* `process_code_contiguous`: `handle_exit` says "code pages are contiguous" and frees
  the first alone, but `fork` allocates them one by one (`process.c:153`): a child with
  more than one program page leaves the others allocated for good.
  `ExitReclaims` states what is still true: nothing else is left behind.
* `stub_frames`: the macro `no_error_code_interupt_handler` says what its exceptions are,
  and makes the stub of exception 8, which has a code; 7, which has none, has the other
  (`interupts.S:93-94`). Nothing in the kernel or in `program1.c` uses the coprocessor,
  but a program may.

More things the models do because the code does them, and which look like
mistakes. The properties are stated so that they hold with them, and leave them out by name:

* `init_bitmap` reads two of the four words of a region's address and length
  (`page.c:149`, `151`), which `multiboot.h:233` declares as 64-bit numbers. For a region at
  or past 4 GB it reserves frames that are not in it; for one that starts and ends at
  multiples of 4 GB it marks all memory, and nothing can be allocated.
  `MapInReach` is that there is none.
* `printf` prints negative numbers as a minus and the digits of the unsigned one, and
  with `%#o` and `%#u` a character of the format that follows (see above). No test or
  comment of the repository says what they should be.
* `realloc` copies as many bytes as the new block has, not the old one
  (`dynamic_allocation.c:137`). `Heap` stops where that reads past the mapped heap.
* `add_process` copies its argument without a terminator (`process.c:63`), and
  `program1.c` prints what follows it in the page, too. If the length is then a multiple
  of 256, the newline is missing (`Worked`).

## Fairness

For `EveryoneRuns`, the steps of `handle_exit` are weakly fair because
nothing else can run. That the running program yields or exits sooner or later
is an assumption on programs, which `program1.c` meets (it yields once and
returns); the kernel has no preemption and would starve the others otherwise.

`CallsReturn` speaks of sequential code: weak fairness of its
next step is the processor going on with it. `Finished` has the same of programs
and kernel together; keys need not be pressed, and the bound on them stands for
keys that come slower than instructions.

For `KeysRead`, handlers and system calls end (weak fairness; none of them waits).
The interrupt of the keyboard and the boot code have strong fairness: a
controller keeps asking, and the processor answers at the first instruction
with interrupts on, so an interrupt that is possible again and again is taken; and the boot code
runs between interrupts, which come at most every few milliseconds.

## What is proved

For every value of the constants, from the assumptions on them in the modules and nothing
else, but for what a theorem itself assumes. The assumptions:

* sizes are positive, and bounds are numbers (`SizeAssumption`, `BoundAssumption`,
  `MemoryAssumption`, `SpaceAssumption`, `ScreenAssumption`, `ProgramAssumption`);
* a heap page has room for two blocks with their tags (`HeapAssumption`; 22 bytes, where the
  code has 4096), the heap does not reach the last table, and memory has frames enough for
  it (`TableAssumption`);
* programs write to pages of their own (`WriteAssumption`), exceptions and gates have vectors
  (`GateAssumption`), lines are lines of the controllers (`LineAssumption`);
* addresses of the boot loader have 32 bits, those and the lengths of memory regions 64, modules
  end where they start or behind, and the kernel ends below what `KERNEL_VIRTUAL_BASE`
  leaves to it (`BootAssumption`, `LoaderAssumption`);
* `INT_MAX` is a number (`IntAssumption`), the byte of `print`'s result has at least two values
  (`BoolAssumption`), and a format is spelled, with its arguments, from what is meant by it
  (`MeaningAssumption`).

`PageFramesProofs`: `TypeCorrect`, `MarksExactly`, `NothingFreeBelowCursor`,
`HoldersExclusive`, and `ImplementsFirstFit`. The invariant is the conjunction `IInv` of the
type invariant, three safety properties and `Phases` (what boot has not done yet); none of
the three holds inductively without the others: a cursor that skips no free frame needs the
marks to be exact in the words it passed, and exclusive holders need that boot is over
before anything is allocated. It rests on lemmas about packing a frame number into a word
and a bit (`Pack`, `Unpack`, `WordOrder`), on what setting and clearing bits does to the set
of used frames (`SetBits`, `ClearBit`), and on `RunSplits`, that one iteration of
`mark_used` marks a prefix of the range and leaves the rest. The refinement maps a scan to
the choice of the lowest free frame: by `FullBelowCursor` nothing is free before the scan's
start.

There, too, `BootMarksInBitmap`, `MarksStayInBitmap`, `TakenReserved` and `LoaderDataSafe`,
about `BootMemory`, for memory maps with any 64-bit regions.
`BootInv` says that after each call of `mark_used` exactly the frames of the calls so far
are reserved, and that the kernel could read what it had to. `Ranged` is the arithmetic of
`NUM_PAGES`: from the frame of the first byte on, so many frames are those that hold a byte
of the range. `InfoFits` shows why the virtual address of the boot loader's structure does
not wrap around, and `MapRange` why the low words of a region within 32-bit addresses give
its end, also at the top. `AllAsked` puts the calls together: those that end have reserved
what is taken and in reach, and if all is in reach, no more.

`ProcessProofs`: first `TypeCorrect`, `RingPreserved` and `ImplementsRoundRobin`. The
invariant adds to `RingOK` that there is nothing before the first process. `RingAdd` and
`RingRemove` are the two facts about linked rings: adding a new largest pid between last and
first, and taking out any one of at least two, give a ring again. `NextIsTurn` says that on
a ring `next` is whose turn comes.

Then `NothingLiveFreed`, `ProgramsConfined`, `ExitsReclaim` and `ImplementsUserMachine`,
which need `MInv`, who owns what: every object on the heap was allocated for one process,
and those of a process that is gone are the program pages `handle_exit` leaves behind
(`HeapOwned`); the tables of a linked process hold what they were made with (`Mapped`);
within `handle_exit`, the tables passed are free and none else is (`FreedSoFar`).
`MappingsLive` alone is not inductive: that a `free` takes nothing from another process
follows only from the ownership of what it frees. In the refinement, a process that is
linked sees its own pages (`OwnView`), so the steps inside `handle_exit` change nothing
anybody sees.

`HeapProofs`: `TagsKept`, `HeldBlocksUsed` and `ImplementsAllocator`. `BlocksTagged` follows
the chain of blocks, which is recursive; the invariant says instead that there is a set of
blocks which tile the heap from `start` to `end` (`Tiles`), whose headers and footers are
all the tags there are (`Tagged`), and whose used members are what callers hold, and that
the heap is whole pages. `ChainOfTiles` connects the two: `WalkExists` shows that the
recursive definition has a value, and `LeastOf`, a least element, replaces induction along
the chain. `BlocksTagged` alone is not inductive, since `free` goes back through footers,
and `malloc_pages` needs whole pages to align. What `malloc`, the cut, the two joins and
`malloc_pages` do to a tiling is one lemma each (`TilesAppended`, `TilesSplit`, `TilesJoin`,
`TilesShrunk`).

`PageTablesProofs`: `NoStaleTranslation`, `NoFrameLost` and `ImplementsAddressSpace`. `IInv`
says that tables exist exactly for the pages mapped and for the slot whose table is about to
be dropped (`Fits`), that each frame in use is one page's or one table's (`Owned`), that the
cache agrees with the walk (`Coherent`), and how far a call has come (`CallOK`).
`CacheCoherent` needs it all: that a cached window still shows its table depends on no table
being dropped while a page is mapped by it. That frames never run out is the pigeonhole of
`FrameLeft`, applied to pages and tables in `FramesLeft`.

`LibcProofs`, strings: `TypeCorrect`, `CopyCorrect` and `StringsImplement`. The invariant adds to
`CopiedBeforeOverwritten` the same of `memset` and what the loops of `memcmp` and `strlen`
have passed; the step that needs thought is that of `memmove`: what is read next has not
been written, which follows from the direction and from what `Written` is. The loops stutter
in the refinement, for it shows the memory as it was until the call returns.

`LibcProofs`, printf: `ReadingAsMeant`, `ReturningLength`, `PrintingValues` and
`FillingFields`, for any `IntMax` in `Nat` (`IntAssumption`), a byte of more than one value
(`BoolAssumption`) and any formats that are spelled from meanings (`MeaningAssumption`): of
any length, with any flags, widths, precisions and values.

* `ReadInv` is the invariant of the reading loops: what has been read is what the first
  pieces mean, and the format and the arguments that are left are those of the other pieces;
  within a directive, `now` has its parts up to the stage, and the pointer stands behind
  them. `ReadAsMeant` alone is not inductive, since it does not say where the pointer and the
  arguments are. Each loop ends where its part does because the next character cannot belong
  to the part: for a directive its conversion cannot, for a bad one by `Continues`.
* `PrintInv` joins to it the length counted so far, `ValuePrinted` and `FieldFilled`. It needs
  `ReadInv`: widths, precisions and values are numbers only because they are what was meant
  (`MeantTyped`), and printing does without them only then. `PiecePrints` says of any piece
  what `PrintPiece` adds to the length, and `NumberWhole` that printing a character at a
  time cannot fail, for the byte of 1 is 1.
* Both rest on what loops compute, for every input: that the digits `ParseInt` adds up are
  the number that `NumberOf` reads, and that the digits a conversion finds, from the last
  power of the base down, are below the base and read back as the value.
  These are inductions along a digit string or down a number, and go by the least
  counterexample (`Induct`): a set of naturals that has zero and, with every member, its
  successor is all of them, since its complement would have a least element. `NatLessThanWellFounded`
  of the library gives that element, and needs no operator as its parameter.

`KernelSpaceProofs`: `OneHeapForAll`, `FramesHaveOneUse`, `CacheStaysCoherent` and
`FaultsComeLate`, for any size of tables, heap, memory and module and any number of
directories. None of the four is inductive. `IInv` adds that a table other than the kernel's
is in one place of one directory (`TablesOwned`), that nothing behind the heap is mapped
(`Mapped`), that before any process exists the only directory maps the whole heap
(`Loading`), and how far the exchange of frames has got (`Exchanged`): the frame that
`load_module` gives back is the page's own and not one of the module's. `MapPageTables` is
what `map_page` changes: the walk of one page in one directory, or in all if the page is in
the kernel's table. `Least` replaces induction by the well-foundedness of finite sets in the
library.

`InterruptsProofs`: `ServiceEnds`, `StubsFit` and `MasksRestored`, for any exceptions that come
up and any gates that are overwritten. `IInv`
says what `initialize_input` has set up at each of its places (`BaseAt`, `MaskAt`,
`GatesAt`) and that between the two resets no handler runs (`ServiceAt`): the bases are gone
then, and a handler that came in before has returned, as the boot code goes on only when it
has.

`TerminalProofs`: `CursorStaysAtEnd` and `ImplementsTeleprinter`, under `Program1`, on a
screen of any size, `RunsOnUserMachine` and `TakeTurns`. `ImplementsTeleprinter` is for any `Spelling`
with characters the screen knows. It rests on index arithmetic (`NextRow`, `IndexDistinct`)
and on `PageFed`: the rows of the screen after `inc_terminal_row` are those before, fed by
one line.

`RunsOnUserMachine` is for any number of processes and turns of the loop of `main`;
`ProgramInv` says what a program's registers and memory can hold, that the loop's counter is
below its limit wherever it goes on, and that nobody runs off the end of `Code` (`CodeAt`,
`Jumps`, `Followed`).

`TakeTurns` needs the lockstep of the two processes, `TurnsInv`: the system is before the
fork (`Alone`), has both (`Lockstep`) or only the child (`ChildLeft`). In lockstep the one that
does not run waits behind its yield, or the child behind its fork, and parent and child have
printed as many lines, but that the parent is one ahead from its line to the child's
(`LinesOf`, `HasPrinted`). The rest says what it is answered from: which call is under way
where (`CallInv`), what each process knows of the pids (`PidsKnown`), and that the last piece
printed is a line only while its newline is the next thing to be done (`PrintedInv`). The
parent leaves the loop first: whenever the child comes back from its yield while the parent
is alive, the parent's counter is one ahead of the child's.

Every invariant that a run checks is a theorem, and every refinement and action
property; model-checked only are the liveness properties `EveryoneRuns`, `KeysRead`,
`CallsReturn` and `Finished`, which are beyond the prover, as is ENABLED. No RECURSIVE
operator is declared; `Chain`, `NumberOf` and the like are recursive functions.

## Plan

1. Compositions: `KernelSpace` over `PageFrames` instead of `NextFrame`; `Heap` over
   `PageTables`, with memory that runs out.
2. `Printf` and `Terminal` together: what `ValuePrinted` says of the pieces, of the screen.

## Not modelled

`IRQ_clear_mask`, `terminal_setcolor`, `terminal_writestring`, `abort`, `print_heap` and
the register printers of `input.c` (nothing calls them, or they only print); the GDT
and the linker script (straight-line, before any state the kernel keeps);
`realloc(NULL, n)`, which no code does; the ports' build files, which are other
projects' with configuration lines added. Two things depend on the compiled code and not
on the source: which gates of the interrupt table, a local array, are overwritten
after `initialize_input` returns, and that `handle_exit` keeps `next` in a register
across the directory switch. Pids do not wrap.
