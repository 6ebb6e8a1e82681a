------------------------------ MODULE RoundRobin ------------------------------
(***************************************************************************)
(* What the process list of process.c promises: processes run one at a     *)
(* time and give way in the cyclic order of their pids, so a new process   *)
(* runs after every older one.  There are no pointers here.                *)
(***************************************************************************)
EXTENDS Integers

CONSTANT MaxPid     \* bound: how many processes are ever created

VARIABLES
    live,           \* the pids of the processes that exist
    running,        \* the process that has the processor
    nextPid,        \* the pid the next process gets
    phase           \* "off" before the first process, then "on", "stopped" at the end

ringVars == <<live, running, nextPid, phase>>

Pids == 1 .. MaxPid

\* q is the process whose turn comes after p: the next pid up, and after the
\* highest one the lowest.
TurnAfter(p, q) ==
    /\ q \in live
    /\ \/ p < q /\ \A r \in live : ~(p < r /\ r < q)
       \/ (\A r \in live : r <= p /\ q <= r)

Init == live = {} /\ running = 0 /\ nextPid = 1 /\ phase = "off"

Start ==
    /\ phase = "off"
    /\ live' = {nextPid} /\ running' = nextPid
    /\ nextPid' = nextPid + 1 /\ phase' = "on"

Yield ==
    /\ phase = "on"
    /\ TurnAfter(running, running')
    /\ UNCHANGED <<live, nextPid, phase>>

Fork ==
    /\ phase = "on" /\ nextPid \in Pids
    /\ live' = live \cup {nextPid}
    /\ nextPid' = nextPid + 1
    /\ UNCHANGED <<running, phase>>

Exit ==
    /\ phase = "on" /\ live # {running}
    /\ TurnAfter(running, running')
    /\ live' = live \ {running}
    /\ UNCHANGED <<nextPid, phase>>

\* The last process cannot exit: the machine stops with it still in place.
Stop ==
    /\ phase = "on" /\ live = {running}
    /\ phase' = "stopped"
    /\ UNCHANGED <<live, running, nextPid>>

Next == Start \/ Yield \/ Fork \/ Exit \/ Stop

Spec == Init /\ [][Next]_ringVars
===============================================================================
