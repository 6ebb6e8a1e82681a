------------------------------- MODULE Program1 -------------------------------
(***************************************************************************)
(* modules/program1.c with the start-up code and the system call wrappers  *)
(* it is linked with, as the first process of the system: it prints its    *)
(* arguments, forks, and both processes print a line and yield in turn.    *)
(* Keys are echoed on the same screen, which is Terminal's, meanwhile.     *)
(*                                                                         *)
(* Turns, pids and lifetimes are those of RoundRobin.  A program runs one  *)
(* instruction of Code at a time; a system call first leaves the program,  *)
(* past the int, and then the kernel answers it with interrupts off.       *)
(***************************************************************************)
EXTENDS RoundRobin, SequencesExt, Terminal

CONSTANTS
    Turns,          \* how often main's loop runs (1 in the code)
    NameLength,     \* strlen(argv[0]) as kernel_main passes it
    Leftovers,      \* bound: how many bytes other than 0 may follow it in its page
    BoolValues,     \* what a bool distinguishes of an integer stored in it (256)
    MaxKeys,        \* bound: the keys pressed
    Newline,        \* the character that is not shown
    Spelling(_)     \* bound: the characters that a piece stands for

ASSUME ProgramAssumption ==
    /\ Turns \in Nat \ {0} /\ BoolValues \in Nat \ {0} /\ MaxPid \in Nat \ {0}
    /\ Newline \notin Chars

VARIABLES
    pc,             \* process -> its place in Code
    result,         \* process -> eax: argc, then what fork or get_pid last returned
    memory,         \* process -> argc, res, the digits of s, and i of main
    call,           \* what the kernel is about to answer: an instruction, or NoCall
    leftover,       \* how many bytes other than 0 follow argv[0] in its page
    sent,           \* how much of its piece sys_print has printed
    printed,        \* history: the pieces that the programs have printed
    lines,          \* history: those among them that are lines of the loop
    keys            \* how many keys have been pressed

programVars == <<ringVars, screenVars, pc, result, memory, call, leftover, sent,
                 printed, lines, keys>>
printVars == <<screenVars, leftover, sent, printed, lines, keys>>

-------------------------------------------------------------------------------
(* The program *)

Do(op, what) == [op |-> op, what |-> what]
NoCall == Do("none", "none")

\* printf prints a line piece by piece; puts is such a printf.
Line(pieces) == [i \in 1 .. Len(pieces) + 1 |-> Do("print", Append(pieces, "newline")[i])]

\* The loop is compiled with its test at its end.
Code ==
    <<Do("store", "argc")>> \o Line(<<"Argc", "argc">>) \o Line(<<"Argv", "argv[0]">>)
    \o <<Do("fork", "none"), Do("store", "res"), Do("get_pid", "none"), Do("store", "own"),
         Do("store", "other")>>
    \o Line(<<"line">>) \o <<Do("yield", "none"), Do("store", "i"), Do("exit", "none")>>

LoopStart == CHOOSE j \in DOMAIN Code : Code[j].what = "line"

\* Behind the line that instruction j prints a piece of.
AfterLine(j) == 1 + CHOOSE k \in j .. Len(Code) :
    Code[k].what = "newline" /\ \A l \in j .. k - 1 : Code[l].what # "newline"

Slots == {"argc", "res", "own", "other", "i"}

\* What an instruction stores: eax, but for the digit of res and the counter.
Stored(p, slot) ==
    CASE slot = "other" -> memory[p].res
      [] slot = "i"     -> memory[p].i + 1
      [] OTHER          -> result[p]

\* argv[0] ends with the first byte 0 of its page, which was not cleared.
Argument == <<"argv[0]", leftover>>
Piece(p, what) ==
    CASE what = "argc"    -> <<"argc", memory[p].argc>>
      [] what = "argv[0]" -> Argument
      [] what = "line"    -> IF memory[p].res = 0 THEN <<"child", memory[p].own>>
                             ELSE <<"parent", memory[p].own, memory[p].other>>
      [] OTHER            -> <<what>>

\* print stores the length, which is still in ecx, in the bool it returns; no
\* other piece is as long.
Worked(what) == what = "argv[0]" => (NameLength + leftover) % BoolValues # 0

\* The string of the child has no second digit.
Following(p) ==
    LET j == pc[p]
        at == Code[j]
    IN  CASE at.op = "print" /\ ~Worked(at.what)          -> AfterLine(j)
          [] at.what = "own" /\ memory[p].res = 0          -> j + 2
          [] at.what = "i" /\ memory[p].i + 1 < Turns      -> LoopStart
          [] OTHER                                         -> j + 1

Advance == pc' = [pc EXCEPT ![running] = Following(running)]

Execute ==
    LET at == Code[pc[running]]
    IN  /\ phase = "on" /\ call = NoCall
        /\ Advance
        /\ IF at.op = "store"
           THEN /\ memory' = [memory EXCEPT ![running][at.what] = Stored(running, at.what)]
                /\ UNCHANGED call
           ELSE call' = at /\ UNCHANGED memory
        /\ UNCHANGED <<ringVars, result, printVars>>

-------------------------------------------------------------------------------
(* The kernel *)

\* kernel_main starts it, with argc in eax.
RunFirst ==
    /\ Start
    /\ pc' = [p \in live' |-> 1] /\ result' = [p \in live' |-> 1]
    /\ memory' = [p \in live' |-> [s \in Slots |-> 0]]
    /\ UNCHANGED <<call, printVars>>

Called(op) == phase = "on" /\ call.op = op /\ call' = NoCall

\* terminal_putchar, on the way from printf("%c", c)
Put(c) == IF c = Newline THEN PutNewline ELSE PutChar(c)

\* One turn of the loop of sys_print, and its end.
SysPrintChar ==
    LET chars == Spelling(Piece(running, call.what))
    IN  /\ phase = "on" /\ call.op = "print" /\ sent < Len(chars)
        /\ Put(chars[sent + 1])
        /\ sent' = sent + 1
        /\ UNCHANGED <<ringVars, pc, result, memory, call, leftover, printed, lines, keys>>

SysPrint ==
    /\ Called("print")
    /\ sent = Len(Spelling(Piece(running, call.what)))
    /\ printed' = Append(printed, Piece(running, call.what))
    /\ lines' = IF call.what = "line" THEN Append(lines, Piece(running, call.what)) ELSE lines
    /\ sent' = 0
    /\ UNCHANGED <<ringVars, screenVars, pc, result, memory, leftover, keys>>

PidOfFirst == 1
PidOf == running
SysGetPid ==
    /\ Called("get_pid")
    /\ result' = [result EXCEPT ![running] = PidOf]
    /\ UNCHANGED <<ringVars, pc, memory, printVars>>

SysYield ==
    /\ Called("yield")
    /\ Yield
    /\ UNCHANGED <<pc, result, memory, printVars>>

\* f, and the child's copy of it.
WithChild(f) == [p \in live' |-> IF p = nextPid THEN f[running] ELSE f[p]]

ReturnedSame(p) == nextPid
Returned(p) == IF p = nextPid THEN 0 ELSE IF p = running THEN nextPid ELSE result[p]

ChildFromStart == [p \in live' |-> IF p = nextPid THEN 1 ELSE pc[p]]
ChildPc == WithChild(pc)

SysFork ==
    /\ Called("fork")
    /\ Fork
    /\ pc' = ChildPc /\ memory' = WithChild(memory)
    /\ result' = [p \in live' |-> Returned(p)]
    /\ UNCHANGED printVars

\* The last process cannot exit; the kernel spins, with interrupts on.
Kept(f) == [p \in live' |-> f[p]]
SysExit ==
    /\ Called("exit")
    /\ Exit \/ Stop
    /\ pc' = Kept(pc) /\ memory' = Kept(memory) /\ result' = Kept(result)
    /\ UNCHANGED printVars

\* The handler of the keyboard interrupts a program, or the kernel that spins.
Key ==
    /\ phase # "off" /\ call = NoCall /\ keys < MaxKeys
    /\ \E c \in Chars \cup {Newline} : Put(c)
    /\ keys' = keys + 1
    /\ UNCHANGED <<ringVars, pc, result, memory, call, leftover, sent, printed, lines>>

\* kernel_main clears the screen first.
PInit ==
    /\ Init /\ Initialize /\ sent = 0
    /\ pc = <<>> /\ result = <<>> /\ memory = <<>>
    /\ call = NoCall /\ printed = <<>> /\ lines = <<>> /\ keys = 0
    /\ leftover \in Leftovers

Proceed == RunFirst \/ Execute \/ SysPrintChar \/ SysPrint \/ SysGetPid \/ SysYield \/ SysFork \/ SysExit
PNext == Proceed \/ Key

\* The processor goes on executing instructions; nobody has to press a key.
PSpec == PInit /\ [][PNext]_programVars /\ WF_programVars(Proceed)

-------------------------------------------------------------------------------
(* Properties *)

LinesUpTo(n) ==
    [k \in 1 .. n |-> IF k % 2 = 1 THEN <<"parent", 1, 2>> ELSE <<"child", 2>>]

\* Parent and child take turns, the parent first, each line whole and with the
\* right pids: the parent's own and the one fork returned, the child's own; and
\* a line ends before the other process prints.
TurnsTaken ==
    /\ IsPrefix(lines, LinesUpTo(2 * Turns))
    /\ \A k \in 1 .. Len(printed) - 1 :
        printed[k][1] \in {"parent", "child"} => printed[k + 1] = <<"newline">>

\* The program's steps and the kernel's answers are those of the machine of its
\* own that the kernel's processes are shown to be (UserMachine, which Process
\* implements): fork copies everything the program goes on with.
Machine == INSTANCE UserMachine WITH
    Values <- 0 .. Len(Code) + MaxPid + Turns,
    regs <- [p \in live |-> [eax |-> result[p], other |-> pc[p]]]
OnUserMachine == Machine!MSpec

\* The system comes to rest: both processes have printed every line, the parent
\* has exited, and the machine has stopped with the child, which cannot.
Finished == <>[](phase = "stopped" /\ live = {2} /\ lines = LinesUpTo(2 * Turns))
===============================================================================
