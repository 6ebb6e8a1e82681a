-------------------------------- MODULE Process -------------------------------
(***************************************************************************)
(* kernel/arch/i386/process.c, with the start of the first process in      *)
(* module.c and kernel.c: the circular list of processes, the four system  *)
(* calls yield, fork, exit and get_pid, each process's page directory,     *)
(* page tables and pages on the kernel heap, and the hardware that walks   *)
(* them.                                                                   *)
(*                                                                         *)
(* System calls enter through an interrupt gate and the timer is masked,   *)
(* so a handler runs to its end before anything else does.  handle_exit is *)
(* the one that tears down what it stands on; it is split into the steps   *)
(* of its loop, which nothing interleaves.                                 *)
(*                                                                         *)
(* An object on the kernel heap is named by the process it was allocated   *)
(* for, and stands for its address, virtual or physical: the kernel heap   *)
(* maps each page to one frame for good.  A process_t is named by its pid. *)
(***************************************************************************)
EXTENDS Integers, Sequences

CONSTANTS
    MaxPid,         \* bound: the processes ever created (uint32_t in the code)
    CodePages,      \* the pages of the program (NUM_PAGES of the boot module)
    Values,         \* what a page, or the registers, may hold
    Dirtied         \* bound: the pages of its memory a program writes to

ASSUME BoundAssumption == MaxPid \in Nat \ {0} /\ CodePages \in Nat \ {0}

VARIABLES
    first, last, current,       \* the statics of process.c; 0 for NULL
    pidInc,                     \* pid_inc
    procs,                      \* the process_t that are allocated, by pid
    next, prev,                 \* pid -> the links of its process_t
    saved,                      \* pid -> process_state
    mem,                        \* pid -> its process_memory_t
    heap,                       \* page and table allocations: sequences of objects
    pdes,                       \* page directory -> its entries
    ptes,                       \* page table -> its entries
    data,                       \* page -> what it holds
    cpu,                        \* the registers of the running program
    cr3,                        \* the page directory in use
    mode,                       \* "boot", "user", "exit" or "halted"
    successor, region           \* handle_exit's local next, and its loop counter

ringVars == <<first, last, next, prev, procs, pidInc>>
memVars == <<mem, heap, pdes, ptes, data>>
exitVars == <<successor, region>>
vars == <<ringVars, current, saved, memVars, cpu, cr3, mode, exitVars>>

Pids == 1 .. MaxPid
NULL == 0

-------------------------------------------------------------------------------
(* Address spaces *)

\* The page tables a process owns, in the order of their directory entries
\* 0, 1, 767 and 1022: the program, its arguments, its stack, and the stack
\* the kernel uses on its behalf.
RegionOrder == <<"code", "args", "stack", "kstack">>
Regions == {"code", "args", "stack", "kstack"}
UserRegions == Regions \ {"kstack"}

SlotsOf(r) == {r} \X (0 .. IF r = "code" THEN CodePages - 1 ELSE 0)
PageSlots == UNION {SlotsOf(r) : r \in Regions}
Slots == UNION {SlotsOf(r) : r \in UserRegions}

ASSUME WriteAssumption == Dirtied \subseteq PageSlots

Nothing == <<"nothing", 0, "", 0>>
Dir(p) == <<"dir", p, "", 0>>
Record(p, r) == <<"record", p, r, 0>>
Table(p, r) == <<"table", p, r, 0>>
Page(p, s) == <<"page", p, s[1], s[2]>>

\* The boot page directory, and the page table every directory shares.
BootDir == Dir(0)
KernelTable == Table(0, "kernel")

Dirs == {Dir(p) : p \in Pids}
Tables == {Table(p, r) : p \in Pids, r \in Regions}
Pages == {Page(p, s) : p \in Pids, s \in PageSlots}

Entry(object, user) == [to |-> object, user |-> user]
NoEntry == Entry(Nothing, FALSE)

\* A user access goes through both levels, and both must allow the user.
UserWalk(dir, s) ==
    LET pde == pdes[dir][s[1]]
        pte == ptes[pde.to][s]
    IN  IF pde.to \in Tables /\ pde.user /\ pte.user THEN pte.to ELSE Nothing

Contents(alloc) == {alloc[i] : i \in DOMAIN alloc}
Without(f, S) == [x \in DOMAIN f \ S |-> f[x]]

\* free(pointer) for each of the pointers: an allocation goes when its first
\* page does, and what it held is lost.  Other pointers free nothing.
Free(pointers) ==
    LET gone == {a \in heap : a[1] \in pointers}
        lost == UNION {Contents(a) : a \in gone}
    IN  /\ heap' = heap \ gone
        /\ pdes' = Without(pdes, lost)
        /\ ptes' = Without(ptes, lost)
        /\ data' = Without(data, lost)

Init ==
    /\ first = NULL /\ last = NULL /\ current = NULL /\ pidInc = 1
    /\ procs = {}
    /\ next = [p \in Pids |-> NULL] /\ prev = [p \in Pids |-> NULL]
    /\ saved = <<>> /\ mem = <<>>
    /\ heap = {}
    /\ pdes = <<>> /\ ptes = <<>> /\ data = <<>>
    /\ cpu = <<>>
    /\ cr3 = BootDir
    /\ mode = "boot"
    /\ successor = NULL /\ region = 0

-------------------------------------------------------------------------------
(* The process list *)

\* The end of add_process and add_forked_process: the new process goes between
\* last and first, or alone, and becomes the last.
LinkedPrevOfNewOnly(new) == [prev EXCEPT ![new] = IF first = NULL THEN new ELSE last]
LinkedPrev(new) ==
    [prev EXCEPT ![new] = IF first = NULL THEN new ELSE last,
                 ![IF first = NULL THEN new ELSE first] = new]

LinkedNext(new) ==
    [next EXCEPT ![new] = IF first = NULL THEN new ELSE first,
                 ![IF first = NULL THEN new ELSE last] = new]

FirstUnset(new) == first
FirstWith(new) == IF first = NULL THEN new ELSE first

AddToList ==
    /\ pidInc \in Pids
    /\ procs' = procs \cup {pidInc}
    /\ next' = LinkedNext(pidInc)
    /\ prev' = LinkedPrev(pidInc)
    /\ first' = FirstWith(pidInc)
    /\ last' = pidInc
    /\ pidInc' = pidInc + 1

\* run_process, called when the handler has done everything else
RunProcess(p) ==
    /\ current' = p
    /\ cr3' = mem'[p].dir
    /\ cpu' = saved'[p]
    /\ mode' = "user"

-------------------------------------------------------------------------------
(* The first process *)

\* The process_memory_t of process p, once everything of p is allocated.
OwnMemory(p) ==
    [dir    |-> Dir(p),
     record |-> [r \in Regions |-> Record(p, r)],
     table  |-> [r \in Regions |-> Table(p, r)],
     page   |-> [s \in PageSlots |-> Page(p, s)]]

\* The allocations for a region, page by page: a record, a table, the pages.
RegionHeap(p, r) == {<<Record(p, r)>>, <<Table(p, r)>>} \cup {<<Page(p, s)>> : s \in SlotsOf(r)}

\* load_module: the directory, the stacks, and the program as one allocation.
\* (Its temporary pages, which map the module itself, are freed again.)
LoadModuleHeap(p) ==
    {<<Dir(p)>>, <<Record(p, "code")>>, <<Table(p, "code")>>,
     [i \in 1 .. CodePages |-> Page(p, <<"code", i - 1>>)]}
    \cup RegionHeap(p, "stack") \cup RegionHeap(p, "kstack")

\* add_process: the arguments.
AddProcessHeap(p) == RegionHeap(p, "args")

\* Its directory: its tables, the kernel's page table, and itself.
DirEntries(p, permits) ==
    [e \in Regions \cup {"kernel", "self"} |->
        CASE e = "kernel" -> Entry(KernelTable, FALSE)
          [] e = "self"   -> Entry(Dir(p), FALSE)
          [] OTHER        -> Entry(Table(p, e), permits[e])]

\* The flags of the entries: 0x07 for the user's regions, 0x03 for the other.
LoadPermitsAll == [r \in Regions |-> TRUE]
LoadPermits == [r \in Regions |-> r \in UserRegions]

FirstAddressSpace(p) ==
    /\ mem' = [q \in {p} |-> OwnMemory(p)]
    /\ heap' = LoadModuleHeap(p) \cup AddProcessHeap(p)
    /\ pdes' = [d \in {Dir(p)} |-> DirEntries(p, LoadPermits)]
    /\ ptes' = [t \in {Table(p, r) : r \in Regions} |->
                  [s \in SlotsOf(t[3]) |-> Entry(Page(p, s), LoadPermits[t[3]])]]

\* kernel_main after the memory map: load_module, add_process, run_process.
\* The program and its arguments hold what they hold; the stack page is not
\* cleared, and holds anything.
KernelMain ==
    /\ mode = "boot"
    /\ FirstAddressSpace(pidInc)
    /\ AddToList
    /\ \E r \in [eax : {1}, other : Values], m \in [PageSlots -> Values] :
        /\ \A s \in PageSlots \ Dirtied : m[s] = CHOOSE v \in Values : TRUE
        /\ data' = [g \in {Page(pidInc, s) : s \in PageSlots} |-> m[<<g[3], g[4]>>]]
        /\ saved' = [q \in {pidInc} |-> r]
    /\ RunProcess(pidInc)
    /\ UNCHANGED exitVars

-------------------------------------------------------------------------------
(* The running program *)

\* It changes a register other than eax (which matters as the number of a call
\* and its result only), or a page that its page directory lets it write.
Compute ==
    /\ mode = "user"
    /\ \/ \E v \in Values : cpu' = [cpu EXCEPT !.other = v] /\ UNCHANGED data
       \/ \E s \in Dirtied, v \in Values :
            /\ UserWalk(cr3, s) # Nothing
            /\ data' = [data EXCEPT ![UserWalk(cr3, s)] = v]
            /\ UNCHANGED cpu
    /\ UNCHANGED <<ringVars, current, saved, mem, heap, pdes, ptes, cr3, mode, exitVars>>

-------------------------------------------------------------------------------
(* System calls *)

GetPid ==
    /\ mode = "user"
    /\ cpu' = [cpu EXCEPT !.eax = current]
    /\ UNCHANGED <<ringVars, current, saved, memVars, cr3, mode, exitVars>>

NextToRunBackwards == prev[current]
NextToRunSkipsLast == IF next[current] = last THEN first ELSE next[current]
NextToRun == next[current]

\* The state is saved before run_process reads the next one's, which may be it.
Yield ==
    /\ mode = "user"
    /\ saved' = [saved EXCEPT ![current] = cpu]
    /\ UNCHANGED <<ringVars, memVars, exitVars>>
    /\ RunProcess(NextToRun)

\* What the child's page table entry for slot s points to and allows.
ChildPageShared(c, s) == mem[current].page[s]
ChildPage(c, s) == Page(c, s)

ChildEntry(c, s) == Entry(ChildPage(c, s), ptes[mem[current].table[s[1]]][s].user)

\* fork allocates page by page, the program's pages too.
Fork ==
    LET c == pidInc
        m == mem[current]
        permits == [r \in Regions |-> pdes[m.dir][r].user]
    IN  /\ mode = "user"
        /\ AddToList
        /\ mem' = [q \in procs' |-> IF q = c THEN OwnMemory(c) ELSE mem[q]]
        /\ heap' = heap \cup {<<Dir(c)>>} \cup UNION {RegionHeap(c, r) : r \in Regions}
        /\ pdes' = [d \in DOMAIN pdes \cup {Dir(c)} |->
                      IF d = Dir(c) THEN DirEntries(c, permits) ELSE pdes[d]]
        /\ ptes' = [t \in DOMAIN ptes \cup {Table(c, r) : r \in Regions} |->
                      IF t[2] # c THEN ptes[t]
                      ELSE [s \in SlotsOf(t[3]) |-> ChildEntry(c, s)]]
        /\ data' = [g \in DOMAIN data \cup {Page(c, s) : s \in PageSlots} |->
                      IF g[2] # c THEN data[g] ELSE data[m.page[<<g[3], g[4]>>]]]
        /\ saved' = [q \in procs' |-> IF q = c THEN [cpu EXCEPT !.eax = 0] ELSE saved[q]]
        /\ cpu' = [cpu EXCEPT !.eax = c]
        /\ UNCHANGED <<current, cr3, mode, exitVars>>

-------------------------------------------------------------------------------
(* handle_exit *)

\* The only process there is: interrupts are let in, and the kernel spins.
ExitAlone ==
    /\ mode = "user"
    /\ current = first /\ current = last
    /\ mode' = "halted"
    /\ UNCHANGED <<ringVars, current, saved, memVars, cpu, cr3, exitVars>>

UnlinkedLast == IF current = last THEN prev[current] ELSE last

ExitDirectoryKept == cr3
ExitDirectory == mem[next[current]].dir

\* The process leaves the list and its page directory is left, then freed.
ExitUnlink ==
    /\ mode = "user"
    /\ ~(current = first /\ current = last)
    /\ first' = IF current = first THEN next[current] ELSE first
    /\ last' = UnlinkedLast
    /\ next' = [next EXCEPT ![prev[current]] = next[current]]
    /\ prev' = [prev EXCEPT ![next[current]] = prev[current]]
    /\ successor' = next[current]
    /\ cr3' = ExitDirectory
    /\ Free({mem[current].dir})
    /\ region' = 1
    /\ mode' = "exit"
    /\ UNCHANGED <<procs, pidInc, current, saved, mem, cpu>>

\* One owned table: the table, its pages (of the program, the first alone,
\* which takes the others with it if they are one allocation), its record.
FreedPages(r) == {mem[current].page[s] : s \in IF r = "code" THEN {<<"code", 0>>} ELSE SlotsOf(r)}
FreedWithoutTable(r) == {mem[current].record[r]} \cup FreedPages(r)
Freed(r) == {mem[current].table[r], mem[current].record[r]} \cup FreedPages(r)

ExitFree ==
    /\ mode = "exit" /\ region <= Len(RegionOrder)
    /\ Free(Freed(RegionOrder[region]))
    /\ region' = region + 1
    /\ UNCHANGED <<ringVars, current, saved, mem, cpu, cr3, mode, successor>>

\* The process_memory_t and the process_t go, and the next process runs.
ExitRun ==
    /\ mode = "exit" /\ region > Len(RegionOrder)
    /\ procs' = procs \ {current}
    /\ mem' = Without(mem, {current})
    /\ saved' = Without(saved, {current})
    /\ RunProcess(successor)
    /\ region' = 0 /\ successor' = NULL
    /\ UNCHANGED <<first, last, next, prev, pidInc, heap, pdes, ptes, data>>

Next ==
    \/ KernelMain
    \/ Compute
    \/ GetPid
    \/ Yield
    \/ Fork
    \/ ExitAlone
    \/ ExitUnlink
    \/ ExitFree
    \/ ExitRun

Spec == Init /\ [][Next]_vars

\* handle_exit runs to its end, for nothing else can run.  That the running
\* program does not keep the processor for ever is a property of the programs
\* (program1.c yields once and exits): the kernel never takes it away.  A yield
\* that changes nothing, the only process's to itself, does not count; but then
\* that process already has the processor.
Fairness ==
    /\ WF_vars(Yield \/ ExitUnlink \/ ExitAlone)
    /\ WF_vars(ExitFree)
    /\ WF_vars(ExitRun)

FairSpec == Spec /\ Fairness

-------------------------------------------------------------------------------
(* Properties *)

\* The processes on the list: all but the one that is exiting.
Linked == IF mode = "exit" THEN procs \ {current} ELSE procs

\* Every variable keeps to its type; once there is a process, the pointers
\* that run_process and the handlers follow are not NULL.
TypeOK ==
    /\ {first, last, current, successor} \subseteq Pids \cup {NULL}
    /\ pidInc \in 1 .. MaxPid + 1
    /\ procs \in SUBSET Pids
    /\ next \in [Pids -> Pids \cup {NULL}] /\ prev \in [Pids -> Pids \cup {NULL}]
    /\ mode \in {"boot", "user", "exit", "halted"}
    /\ region \in 0 .. Len(RegionOrder) + 1
    /\ mode # "boot" => {first, last, current} \subseteq Pids
    /\ mode = "exit" => successor \in Pids

\* From f to l, nx goes once through the pids of S in order and back to f, and
\* pv undoes nx.
IsRing(S, f, l, nx, pv) ==
    /\ f \in S /\ l \in S
    /\ \A p \in S :
        /\ f <= p /\ p <= l
        /\ nx[p] \in S /\ pv[p] \in S
        /\ pv[nx[p]] = p /\ nx[pv[p]] = p
        /\ p = l => nx[p] = f
        /\ p # l => p < nx[p] /\ \A q \in S : ~(p < q /\ q < nx[p])

\* The list is one ring, in the order of the pids, from first to last: each
\* link goes to a process that is on the list and no process is skipped.
\* add_process, add_forked_process and handle_exit, in any order and from any
\* position, keep it so; and what is about to run is on it.
RingOK ==
    mode # "boot" =>
        /\ IsRing(Linked, first, last, next, prev)
        /\ \A p \in procs : p < pidInc
        /\ current \in procs
        /\ mode = "exit" => successor \in Linked

\* A page directory that can be used: it and everything its entries reach is
\* allocated, and the kernel and the directory itself are mapped.
Usable(dir) ==
    /\ dir \in DOMAIN pdes
    /\ pdes[dir]["kernel"] = Entry(KernelTable, FALSE)
    /\ pdes[dir]["self"] = Entry(dir, FALSE)
    /\ \A r \in Regions :
        /\ pdes[dir][r].to \in DOMAIN ptes
        /\ \A s \in SlotsOf(r) : ptes[pdes[dir][r].to][s].to \in DOMAIN data

\* At every step, those inside handle_exit too, the page directory in cr3 is
\* usable, and so is that of every process that may run next: nothing the
\* hardware walks has been freed.
MappingsLive ==
    mode # "boot" =>
        /\ Usable(cr3)
        /\ \A p \in Linked : Usable(mem[p].dir)

\* A program reaches pages that were allocated for it and for user access,
\* each at its place, and nothing else: not its kernel stack, a table, the
\* directory, or another process's page.
Confined ==
    mode = "user" =>
        \A s \in PageSlots :
            UserWalk(cr3, s) = IF s \in Slots THEN Page(current, s) ELSE Nothing

\* Between system calls, what is on the heap belongs to a process that exists,
\* but for pages of the program other than the first.
ExitReclaims ==
    mode # "exit" =>
        \A a \in heap : a[1][2] \in procs \/ (a[1][1] = "page" /\ a[1][3] = "code" /\ a[1][4] > 0)

\* The comment in handle_exit: "code pages are contiguous <=> others are not",
\* so that freeing the first frees them all.
CodeContiguous ==
    \A p \in procs : mode # "exit" =>
        [i \in 1 .. CodePages |-> mem[p].page[<<"code", i - 1>>]] \in heap

Running == IF mode = "exit" THEN successor ELSE current
Phase == CASE mode = "boot" -> "off" [] mode = "halted" -> "stopped" [] OTHER -> "on"

\* Processes take turns in the order of their pids; a forked process waits for
\* all the older ones; a process that exits leaves the others' order alone.
RR == INSTANCE RoundRobin WITH
        live <- Linked, running <- Running, nextPid <- pidInc, phase <- Phase
RoundRobinSpec == RR!Spec

\* Every program has a machine of its own: through every yield, fork and exit
\* its registers and its memory, as the hardware maps it, are changed by
\* itself alone, and a child starts as the copy of its parent.
UM == INSTANCE UserMachine WITH
        live <- Linked, running <- Running, nextPid <- pidInc, phase <- Phase,
        regs <- [p \in Linked |-> IF mode # "exit" /\ p = current THEN cpu ELSE saved[p]],
        memory <- [p \in Linked |-> [s \in Slots |-> data[UserWalk(mem[p].dir, s)]]]
UserMachineSpec == UM!MSpec

\* If running programs yield or exit sooner or later, every process gets the
\* processor again and again, until it exits or the machine stops.
EveryoneRuns ==
    \A p \in Pids : (p \in Linked) ~> (current = p /\ mode \in {"user", "halted"})
===============================================================================
