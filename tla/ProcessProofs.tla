----------------------------- MODULE ProcessProofs ----------------------------
(***************************************************************************)
(* Theorems about Process, for every number of processes and every         *)
(* program: the process list, who owns the objects of the address spaces,  *)
(* and the machine each program has to itself.                             *)
(***************************************************************************)
EXTENDS Process, TLAPS

-------------------------------------------------------------------------------
(* The two operations on a ring of pids *)

\* Adding a pid higher than all between the last and the first.
LEMMA RingAdd ==
  ASSUME NEW S \in SUBSET Pids, NEW f, NEW l, NEW new \in Pids,
         NEW nx \in [Pids -> Pids \cup {NULL}], NEW pv \in [Pids -> Pids \cup {NULL}],
         IsRing(S, f, l, nx, pv), \A p \in S : p < new
  PROVE  IsRing(S \cup {new}, f, new,
                [nx EXCEPT ![new] = f, ![l] = new], [pv EXCEPT ![new] = l, ![f] = new])
<1> DEFINE T == S \cup {new}
           n == [nx EXCEPT ![new] = f, ![l] = new]
           v == [pv EXCEPT ![new] = l, ![f] = new]
<1>1. f \in S /\ l \in S /\ new \notin S /\ S \subseteq Pids /\ Pids \subseteq Nat
  BY DEF IsRing, Pids
<1>2. \A p \in Pids : n[p] = IF p = l THEN new ELSE IF p = new THEN f ELSE nx[p]
  BY <1>1
<1>3. \A p \in Pids : v[p] = IF p = f THEN new ELSE IF p = new THEN l ELSE pv[p]
  BY <1>1
<1>r. \A p \in S :
         /\ f <= p /\ p <= l /\ nx[p] \in S /\ pv[p] \in S /\ pv[nx[p]] = p /\ nx[pv[p]] = p
         /\ p = l => nx[p] = f
         /\ p # l => p < nx[p] /\ \A q \in S : ~(p < q /\ q < nx[p])
  BY DEF IsRing
<1>l. nx[l] = f /\ pv[f] = l
  BY <1>1, <1>r
<1> HIDE DEF n, v
<1>4. ASSUME NEW p \in T
      PROVE  /\ f <= p /\ p <= new
             /\ n[p] \in T /\ v[p] \in T /\ v[n[p]] = p /\ n[v[p]] = p
             /\ p = new => n[p] = f
             /\ p # new => p < n[p] /\ \A q \in T : ~(p < q /\ q < n[p])
  <2>1. CASE p = new
    BY <2>1, <1>1, <1>2, <1>3 DEF IsRing
  <2>2. CASE p \in S
    <3>1. p \in Pids /\ p # new
      BY <2>2, <1>1
    <3>2. CASE p = l
      <4>1. n[p] = new /\ v[new] = l
        BY <3>2, <3>1, <1>1, <1>2, <1>3
      <4>2. v[p] \in T /\ n[v[p]] = p
        BY <2>2, <3>1, <1>1, <1>2, <1>3, <1>r, <1>l
      <4>3. p < new /\ \A q \in T : ~(p < q /\ q < new)
        BY <2>2, <3>2, <1>1, <1>r
      <4> QED BY <2>2, <3>1, <3>2, <4>1, <4>2, <4>3, <1>1, <1>r
    <3>3. CASE p # l
      <4>1. n[p] = nx[p] /\ nx[p] \in S /\ nx[p] # f
        BY <2>2, <3>1, <3>3, <1>1, <1>2, <1>r, <1>l
      <4>2. v[n[p]] = p
        <5>1. nx[p] \in Pids /\ nx[p] # new /\ pv[nx[p]] = p
          BY <4>1, <2>2, <1>1, <1>r
        <5> QED BY <5>1, <4>1, <1>3
      <4>3. v[p] \in T /\ n[v[p]] = p
        BY <2>2, <3>1, <1>1, <1>2, <1>3, <1>r, <1>l
      <4>4. p < nx[p] /\ \A q \in T : ~(p < q /\ q < nx[p])
        <5>1. p < nx[p] /\ \A q \in S : ~(p < q /\ q < nx[p])
          BY <2>2, <3>3, <1>r
        <5>2. nx[p] \in Nat /\ new \in Nat /\ nx[p] < new
          BY <4>1, <1>1
        <5>3. ~(new < nx[p])
          BY <5>2
        <5> QED BY <5>1, <5>3
      <4> QED BY <2>2, <3>1, <3>3, <4>1, <4>2, <4>3, <4>4, <1>1, <1>r
    <3> QED BY <3>2, <3>3
  <2> QED BY <2>1, <2>2
<1> QED BY <1>1, <1>4 DEF IsRing, n, v

\* Taking a pid out of a ring that has another.
LEMMA RingRemove ==
  ASSUME NEW S \in SUBSET Pids, NEW f, NEW l, NEW c \in S,
         NEW nx \in [Pids -> Pids \cup {NULL}], NEW pv \in [Pids -> Pids \cup {NULL}],
         IsRing(S, f, l, nx, pv), ~(c = f /\ c = l)
  PROVE  /\ IsRing(S \ {c}, IF c = f THEN nx[c] ELSE f, IF c = l THEN pv[c] ELSE l,
                   [nx EXCEPT ![pv[c]] = nx[c]], [pv EXCEPT ![nx[c]] = pv[c]])
         /\ nx[c] \in S \ {c}
<1> DEFINE T == S \ {c}
           a == pv[c]
           b == nx[c]
           n == [nx EXCEPT ![a] = b]
           v == [pv EXCEPT ![b] = a]
           g == IF c = f THEN b ELSE f
           m == IF c = l THEN a ELSE l
<1>1. f \in S /\ l \in S /\ S \subseteq Nat /\ S \subseteq Pids /\ a \in S /\ b \in S
      /\ nx[a] = c /\ pv[b] = c /\ nx[l] = f
  BY DEF IsRing, Pids
<1>r. \A p \in S :
         /\ f <= p /\ p <= l /\ nx[p] \in S /\ pv[p] \in S /\ pv[nx[p]] = p /\ nx[pv[p]] = p
         /\ p = l => nx[p] = f
         /\ p # l => p < nx[p] /\ \A q \in S : ~(p < q /\ q < nx[p])
  BY DEF IsRing
<1>2. b # c
  BY <1>1 DEF IsRing
<1>3. a # c
  BY <1>1, <1>2
<1>4. c # f => a < c /\ a # l /\ \A q \in S : ~(a < q /\ q < c)
  <2> SUFFICES ASSUME c # f PROVE a < c /\ a # l /\ \A q \in S : ~(a < q /\ q < c)
    OBVIOUS
  <2>1. a # l
    BY <1>1
  <2>2. a < nx[a] /\ \A q \in S : ~(a < q /\ q < nx[a])
    BY <2>1, <1>1, <1>r
  <2> QED BY <2>1, <2>2, <1>1
<1>5. c # l => c < b /\ b # f /\ \A q \in S : ~(c < q /\ q < b)
  BY <1>1, <1>r
<1>6. c = f => a = l
  BY <1>1 DEF IsRing
<1>7. c = l => b = f
  BY <1>1 DEF IsRing
<1>8. \A p \in Pids : n[p] = (IF p = a THEN b ELSE nx[p]) /\ v[p] = (IF p = b THEN a ELSE pv[p])
  BY <1>1
<1> HIDE DEF n, v
<1>9. ASSUME NEW p \in T
      PROVE  /\ g <= p /\ p <= m
             /\ n[p] \in T /\ v[p] \in T /\ v[n[p]] = p /\ n[v[p]] = p
             /\ p = m => n[p] = g
             /\ p # m => p < n[p] /\ \A q \in T : ~(p < q /\ q < n[p])
  <2>1. p \in Nat /\ c \in Nat /\ f <= p /\ p <= l
        /\ nx[p] \in S /\ pv[p] \in S /\ pv[nx[p]] = p /\ nx[pv[p]] = p
    BY <1>1, <1>r
  <2>2. g <= p
    <3>1. CASE c = f
      <4>1. c < b /\ ~(c < p /\ p < b) /\ c < p
        BY <3>1, <1>5, <2>1
      <4>2. b \in Nat
        BY <1>1
      <4>3. b <= p
        BY <4>1, <4>2, <2>1
      <4> QED BY <4>3, <3>1
    <3> QED BY <3>1, <2>1
  <2>3. p <= m
    <3>1. CASE c = l
      <4>1. a < c /\ ~(a < p /\ p < c) /\ p < c
        BY <3>1, <1>4, <2>1
      <4>2. a \in Nat
        BY <1>1
      <4>3. p <= a
        BY <4>1, <4>2, <2>1
      <4> QED BY <4>3, <3>1
    <3> QED BY <3>1, <2>1
  <2>0. p \in Pids /\ a \in Pids /\ b \in Pids /\ p # c
    BY <1>1
  <2>4. n[p] \in T /\ v[n[p]] = p
    <3>1. CASE p = a
      <4>1. n[p] = b /\ v[b] = a
        BY <3>1, <2>0, <1>8
      <4> QED BY <4>1, <3>1, <1>1, <1>2
    <3>2. CASE p # a
      <4>1. n[p] = nx[p] /\ nx[p] \in Pids
        BY <3>2, <2>0, <2>1, <1>1, <1>8
      <4>2. nx[p] # c /\ nx[p] # b
        BY <3>2, <2>0, <2>1, <1>1
      <4>3. v[nx[p]] = pv[nx[p]]
        BY <4>1, <4>2, <1>8
      <4> QED BY <4>1, <4>2, <4>3, <2>1
    <3> QED BY <3>1, <3>2
  <2>5. v[p] \in T /\ n[v[p]] = p
    <3>1. CASE p = b
      <4>1. v[p] = a /\ n[a] = b
        BY <3>1, <2>0, <1>8
      <4> QED BY <4>1, <3>1, <1>1, <1>3
    <3>2. CASE p # b
      <4>1. v[p] = pv[p] /\ pv[p] \in Pids
        BY <3>2, <2>0, <2>1, <1>1, <1>8
      <4>2. pv[p] # c /\ pv[p] # a
        BY <3>2, <2>0, <2>1, <1>1
      <4>3. n[pv[p]] = nx[pv[p]]
        BY <4>1, <4>2, <1>8
      <4> QED BY <4>1, <4>2, <4>3, <2>1
    <3> QED BY <3>1, <3>2
  <2>6. p = m => n[p] = g
    BY <2>1, <1>1, <1>6, <1>7, <1>8, <1>4 DEF IsRing
  <2>7. p # m => p < n[p] /\ \A q \in T : ~(p < q /\ q < n[p])
    <3> SUFFICES ASSUME p # m PROVE p < n[p] /\ \A q \in T : ~(p < q /\ q < n[p])
      OBVIOUS
    <3>1. CASE p # a
      <4>1. n[p] = nx[p] /\ p # l /\ p \in S
        BY <3>1, <1>1, <1>8
      <4>2. p < nx[p] /\ \A q \in S : ~(p < q /\ q < nx[p])
        BY <4>1, <1>r
      <4> QED BY <4>1, <4>2
    <3>2. CASE p = a
      <4>1. c # l /\ c # f
        BY <3>2, <1>6
      <4>2. a < c /\ c < b /\ n[p] = b
        BY <4>1, <3>2, <1>1, <1>4, <1>5, <1>8
      <4>3. ASSUME NEW q \in T, a < q, q < b
            PROVE  FALSE
        <5>1. q \in Nat /\ q # c /\ ~(a < q /\ q < c) /\ ~(c < q /\ q < b)
          BY <4>1, <1>1, <1>4, <1>5
        <5> QED BY <5>1, <4>3, <2>1
      <4>4. a < b
        <5>1. a \in Nat /\ b \in Nat
          BY <1>1
        <5> QED BY <5>1, <4>2, <2>1
      <4>5. \A q \in T : ~(a < q /\ q < b)
        BY <4>3
      <4> QED BY <3>2, <4>2, <4>4, <4>5
    <3> QED BY <3>1, <3>2
  <2> QED BY <2>2, <2>3, <2>4, <2>5, <2>6, <2>7
<1>10. g \in T /\ m \in T
  BY <1>1, <1>2, <1>3
<1> QED BY <1>1, <1>2, <1>9, <1>10 DEF IsRing, n, v

-------------------------------------------------------------------------------
(* The inductive invariant *)

\* Until kernel_main starts the first process there is none.
NoneAtBoot == mode = "boot" => procs = {} /\ first = NULL /\ pidInc = 1

IInv == TypeOK /\ RingOK /\ NoneAtBoot

LEMMA Bound == MaxPid \in Nat /\ MaxPid >= 1 /\ 1 \in Pids /\ Len(RegionOrder) = 4
  BY BoundAssumption DEF Pids, RegionOrder

LEMMA InitInvariant == Init => IInv
<1> QED BY Bound DEF Init, IInv, TypeOK, RingOK, NoneAtBoot, NULL

\* A step that leaves the list, and who is on it, alone.
LEMMA RingKept ==
  ASSUME IInv, UNCHANGED <<ringVars, current>>, mode' # "boot", mode # "boot",
         mode' = mode \/ (mode = "user" /\ mode' = "halted"),
         UNCHANGED successor, region' \in 0 .. Len(RegionOrder) + 1
  PROVE  IInv'
<1>1. Linked' = Linked
  BY DEF Linked, ringVars
<1>2. TypeOK'
  BY DEF IInv, TypeOK, ringVars
<1>3. RingOK'
  BY <1>1 DEF IInv, RingOK, ringVars
<1> QED BY <1>2, <1>3 DEF IInv, NoneAtBoot

LEMMA KernelMainStep == IInv /\ KernelMain => IInv'
<1> SUFFICES ASSUME IInv, KernelMain PROVE IInv'
  OBVIOUS
<1>1. /\ procs = {} /\ first = NULL /\ pidInc = 1
      /\ current' = 1 /\ mode' = "user" /\ procs' = {1} /\ first' = 1 /\ last' = 1 /\ pidInc' = 2
      /\ next' = [next EXCEPT ![1] = 1, ![1] = 1] /\ prev' = [prev EXCEPT ![1] = 1, ![1] = 1]
      /\ UNCHANGED <<successor, region>>
  BY DEF IInv, NoneAtBoot, KernelMain, RunProcess, AddToList, FirstWith, LinkedNext, LinkedPrev, exitVars
<1>2. next' \in [Pids -> Pids \cup {NULL}] /\ prev' \in [Pids -> Pids \cup {NULL}]
      /\ next'[1] = 1 /\ prev'[1] = 1
  BY <1>1, Bound DEF IInv, TypeOK
<1>3. Linked' = {1}
  BY <1>1 DEF Linked
<1>4. TypeOK'
  BY <1>1, <1>2, Bound DEF IInv, TypeOK
<1>5. IsRing({1}, 1, 1, next', prev')
  BY <1>2 DEF IsRing
<1>6. RingOK'
  BY <1>1, <1>3, <1>5 DEF RingOK
<1> QED BY <1>1, <1>4, <1>6 DEF IInv, NoneAtBoot

LEMMA YieldStep == IInv /\ Yield => IInv'
<1> SUFFICES ASSUME IInv, Yield PROVE IInv'
  OBVIOUS
<1>1. /\ mode = "user" /\ mode' = "user" /\ current' = next[current]
      /\ UNCHANGED <<first, last, next, prev, procs, pidInc, successor, region>>
  BY DEF Yield, RunProcess, NextToRun, ringVars, exitVars
<1>2. Linked = procs /\ Linked' = procs
  BY <1>1 DEF Linked
<1>3. next[current] \in procs
  BY <1>1, <1>2 DEF IInv, RingOK, IsRing
<1>4. TypeOK'
  BY <1>1, <1>3 DEF IInv, TypeOK
<1>5. RingOK'
  BY <1>1, <1>2, <1>3 DEF IInv, RingOK
<1> QED BY <1>1, <1>4, <1>5 DEF IInv, NoneAtBoot

LEMMA ForkStep == IInv /\ Fork => IInv'
<1> SUFFICES ASSUME IInv, Fork PROVE IInv'
  OBVIOUS
<1>1. /\ mode = "user" /\ mode' = "user" /\ pidInc \in Pids /\ UNCHANGED <<current, successor, region>>
      /\ procs' = procs \cup {pidInc} /\ pidInc' = pidInc + 1 /\ last' = pidInc
      /\ first \in Pids /\ first' = first
      /\ next' = [next EXCEPT ![pidInc] = first, ![last] = pidInc]
      /\ prev' = [prev EXCEPT ![pidInc] = last, ![first] = pidInc]
  <2>1. first \in Pids /\ first # NULL
    BY DEF IInv, TypeOK, Fork, Pids, NULL
  <2>2. mode = "user" /\ AddToList /\ UNCHANGED <<current, mode, successor, region>>
    BY DEF Fork, exitVars
  <2>3. next' = LinkedNext(pidInc) /\ prev' = LinkedPrev(pidInc)
    BY <2>2 DEF AddToList
  <2>4. /\ next' = [next EXCEPT ![pidInc] = first, ![last] = pidInc]
        /\ prev' = [prev EXCEPT ![pidInc] = last, ![first] = pidInc]
    BY <2>1, <2>3 DEF FirstWith, LinkedNext, LinkedPrev
  <2> QED BY <2>1, <2>2, <2>4 DEF AddToList, FirstWith
<1>2. Linked = procs /\ Linked' = procs \cup {pidInc}
  BY <1>1 DEF Linked
<1>3. IsRing(procs, first, last, next, prev) /\ \A p \in procs : p < pidInc
  BY <1>1, <1>2 DEF IInv, RingOK
<1>4. IsRing(procs \cup {pidInc}, first, pidInc, next', prev')
  BY <1>1, <1>3, RingAdd DEF IInv, TypeOK
<1>5. \A p \in procs' : p < pidInc'
  BY <1>1, <1>3 DEF IInv, TypeOK, Pids
<1>6. RingOK'
  BY <1>1, <1>2, <1>4, <1>5 DEF IInv, RingOK
<1>7. TypeOK'
  <2>1. last \in Pids
    BY <1>1 DEF IInv, TypeOK
  <2>2. pidInc' \in 1 .. MaxPid + 1
    BY <1>1, Bound DEF Pids
  <2> QED BY <1>1, <2>1, <2>2 DEF IInv, TypeOK
<1> QED BY <1>1, <1>6, <1>7 DEF IInv, NoneAtBoot

LEMMA ExitUnlinkStep == IInv /\ ExitUnlink => IInv'
<1> SUFFICES ASSUME IInv, ExitUnlink PROVE IInv'
  OBVIOUS
<1>1. /\ mode = "user" /\ mode' = "exit" /\ UNCHANGED <<current, procs, pidInc>>
      /\ ~(current = first /\ current = last)
      /\ first' = (IF current = first THEN next[current] ELSE first)
      /\ last' = (IF current = last THEN prev[current] ELSE last)
      /\ next' = [next EXCEPT ![prev[current]] = next[current]]
      /\ prev' = [prev EXCEPT ![next[current]] = prev[current]]
      /\ successor' = next[current] /\ region' = 1
  BY DEF ExitUnlink, UnlinkedLast
<1>2. Linked = procs /\ Linked' = procs \ {current} /\ current \in procs
  BY <1>1 DEF Linked, IInv, RingOK
<1>3. IsRing(procs, first, last, next, prev) /\ \A p \in procs : p < pidInc
  BY <1>1, <1>2 DEF IInv, RingOK
<1>4. /\ IsRing(procs \ {current}, first', last', next', prev')
      /\ next[current] \in procs \ {current}
  <2> next \in [Pids -> Pids \cup {NULL}] /\ prev \in [Pids -> Pids \cup {NULL}]
      /\ procs \in SUBSET Pids
    BY DEF IInv, TypeOK
  <2>1. /\ IsRing(procs \ {current}, IF current = first THEN next[current] ELSE first,
                  IF current = last THEN prev[current] ELSE last,
                  [next EXCEPT ![prev[current]] = next[current]],
                  [prev EXCEPT ![next[current]] = prev[current]])
        /\ next[current] \in procs \ {current}
    BY <1>1, <1>2, <1>3, RingRemove
  <2> QED BY <1>1, <2>1
<1>5. RingOK'
  BY <1>1, <1>2, <1>3, <1>4 DEF RingOK
<1>6. TypeOK'
  <2>1. next[current] \in Pids /\ prev[current] \in Pids /\ first \in Pids /\ last \in Pids
    BY <1>2, <1>3, <1>4 DEF IsRing, IInv, TypeOK
  <2>2. next' \in [Pids -> Pids \cup {NULL}] /\ prev' \in [Pids -> Pids \cup {NULL}]
    BY <1>1, <2>1 DEF IInv, TypeOK
  <2>3. first' \in Pids /\ last' \in Pids
    BY <1>1, <2>1
  <2> QED BY <1>1, <2>1, <2>2, <2>3, Bound DEF IInv, TypeOK
<1> QED BY <1>1, <1>5, <1>6 DEF IInv, NoneAtBoot

LEMMA ExitRunStep == IInv /\ ExitRun => IInv'
<1> SUFFICES ASSUME IInv, ExitRun PROVE IInv'
  OBVIOUS
<1>1. /\ mode = "exit" /\ mode' = "user" /\ current' = successor
      /\ procs' = procs \ {current} /\ successor' = NULL /\ region' = 0
      /\ UNCHANGED <<first, last, next, prev, pidInc>>
  BY DEF ExitRun, RunProcess
<1>2. Linked = procs \ {current} /\ Linked' = procs \ {current} /\ successor \in Linked
  BY <1>1 DEF Linked, IInv, RingOK
<1>3. TypeOK'
  BY <1>1, <1>2, Bound DEF IInv, TypeOK
<1>4. RingOK'
  BY <1>1, <1>2 DEF IInv, RingOK
<1> QED BY <1>1, <1>3, <1>4 DEF IInv, NoneAtBoot

LEMMA StepInvariant == IInv /\ [Next]_vars => IInv'
<1> SUFFICES ASSUME IInv, [Next]_vars PROVE IInv'
  OBVIOUS
<1>1. CASE KernelMain
  BY <1>1, KernelMainStep
<1>2. CASE Compute
  BY <1>2, RingKept DEF Compute, exitVars, IInv, TypeOK
<1>3. CASE GetPid
  BY <1>3, RingKept DEF GetPid, exitVars, IInv, TypeOK
<1>4. CASE Yield
  BY <1>4, YieldStep
<1>5. CASE Fork
  BY <1>5, ForkStep
<1>6. CASE ExitAlone
  BY <1>6, RingKept DEF ExitAlone, exitVars, IInv, TypeOK
<1>7. CASE ExitUnlink
  BY <1>7, ExitUnlinkStep
<1>8. CASE ExitFree
  <2>1. region' \in 0 .. Len(RegionOrder) + 1
    BY <1>8, Bound DEF ExitFree, IInv, TypeOK
  <2> QED BY <1>8, <2>1, RingKept DEF ExitFree
<1>9. CASE ExitRun
  BY <1>9, ExitRunStep
<1>10. CASE UNCHANGED vars
  <2>1. Linked' = Linked
    BY <1>10 DEF vars, ringVars, Linked
  <2> QED BY <1>10, <2>1 DEF vars, ringVars, exitVars, IInv, TypeOK, RingOK, NoneAtBoot
<1> QED BY <1>1, <1>2, <1>3, <1>4, <1>5, <1>6, <1>7, <1>8, <1>9, <1>10 DEF Next

LEMMA Inductive == Spec => []IInv
<1> QED BY InitInvariant, StepInvariant, PTL DEF Spec

\* Every reachable state is well typed; once the first process runs, the
\* pointers the handlers follow are never NULL.
THEOREM TypeCorrect == Spec => []TypeOK
<1>1. IInv => TypeOK
  BY DEF IInv
<1> QED BY <1>1, Inductive, PTL

\* However many processes fork, yield and exit, the list stays one ring in the
\* order of the pids.
THEOREM RingPreserved == Spec => []RingOK
<1>1. IInv => RingOK
  BY DEF IInv
<1> QED BY <1>1, Inductive, PTL

-------------------------------------------------------------------------------
(* The list implements round robin *)

\* On a ring, the process after p is the one whose turn comes after p.
LEMMA NextIsTurn ==
  ASSUME NEW S \in SUBSET Pids, NEW f, NEW l, NEW p \in S, NEW nx, NEW pv,
         IsRing(S, f, l, nx, pv)
  PROVE  /\ nx[p] \in S
         /\ \/ p < nx[p] /\ \A r \in S : ~(p < r /\ r < nx[p])
            \/ (\A r \in S : r <= p /\ nx[p] <= r)
  BY DEF IsRing

\* Each step of the list is the one of RoundRobin.
LEMMA StartTurn == IInv /\ KernelMain => RR!Start
<1> SUFFICES ASSUME IInv, KernelMain PROVE RR!Start
  OBVIOUS
<1>1. /\ procs = {} /\ pidInc = 1 /\ mode = "boot"
      /\ current' = 1 /\ mode' = "user" /\ procs' = {1} /\ pidInc' = 2
  BY DEF IInv, NoneAtBoot, KernelMain, RunProcess, AddToList
<1> QED BY <1>1 DEF RR!Start, Linked, Running, Phase

LEMMA YieldTurn == IInv /\ Yield => RR!Yield
<1> SUFFICES ASSUME IInv, Yield PROVE RR!Yield
  OBVIOUS
<1>1. /\ mode = "user" /\ mode' = "user" /\ current' = next[current]
      /\ UNCHANGED <<first, last, next, prev, procs, pidInc>>
  BY DEF Yield, RunProcess, NextToRun, ringVars
<1>2. /\ Linked = procs /\ Linked' = procs /\ Running = current /\ Running' = current'
      /\ Phase = "on" /\ Phase' = "on"
  BY <1>1 DEF Linked, Running, Phase
<1>3. current \in procs /\ procs \in SUBSET Pids /\ IsRing(procs, first, last, next, prev)
  BY <1>1, <1>2 DEF IInv, RingOK, TypeOK
<1>4. RR!TurnAfter(Running, Running')
  BY <1>1, <1>2, <1>3, NextIsTurn DEF RR!TurnAfter
<1> QED BY <1>1, <1>2, <1>4 DEF RR!Yield

LEMMA ForkTurn == IInv /\ Fork => RR!Fork
<1> SUFFICES ASSUME IInv, Fork PROVE RR!Fork
  OBVIOUS
<1>1. /\ mode = "user" /\ mode' = "user" /\ pidInc \in Pids /\ UNCHANGED current
      /\ procs' = procs \cup {pidInc} /\ pidInc' = pidInc + 1
  BY DEF Fork, AddToList
<1> QED BY <1>1 DEF RR!Fork, RR!Pids, Pids, Linked, Running, Phase

LEMMA StopTurn == IInv /\ ExitAlone => RR!Stop
<1> SUFFICES ASSUME IInv, ExitAlone PROVE RR!Stop
  OBVIOUS
<1>1. /\ mode = "user" /\ mode' = "halted" /\ UNCHANGED <<current, procs, pidInc>>
      /\ current = first /\ current = last
  BY DEF ExitAlone, ringVars
<1>2. IsRing(procs, first, last, next, prev) /\ procs \subseteq Nat
  BY <1>1 DEF IInv, RingOK, TypeOK, Linked, Pids
<1>3. procs = {current}
  BY <1>1, <1>2 DEF IsRing
<1> QED BY <1>1, <1>3 DEF RR!Stop, Linked, Running, Phase

LEMMA ExitTurn == IInv /\ ExitUnlink => RR!Exit
<1> SUFFICES ASSUME IInv, ExitUnlink PROVE RR!Exit
  OBVIOUS
<1>1. /\ mode = "user" /\ mode' = "exit" /\ UNCHANGED <<current, procs, pidInc>>
      /\ ~(current = first /\ current = last) /\ successor' = next[current]
  BY DEF ExitUnlink
<1>2. /\ Linked = procs /\ Linked' = procs \ {current}
      /\ Running = current /\ Running' = next[current] /\ Phase = "on" /\ Phase' = "on"
  BY <1>1 DEF Linked, Running, Phase
<1>3. current \in procs /\ procs \in SUBSET Pids /\ IsRing(procs, first, last, next, prev)
  BY <1>1, <1>2 DEF IInv, RingOK, TypeOK
<1>4. RR!TurnAfter(Running, Running')
  BY <1>2, <1>3, NextIsTurn DEF RR!TurnAfter
<1>5. procs # {current}
  BY <1>1, <1>3 DEF IsRing
<1> QED BY <1>1, <1>2, <1>4, <1>5 DEF RR!Exit

\* The other steps leave turns alone.
LEMMA NoTurn ==
  ASSUME IInv, Compute \/ GetPid \/ ExitFree \/ ExitRun \/ UNCHANGED vars
  PROVE  UNCHANGED RR!ringVars
<1>1. CASE Compute
  BY <1>1 DEF Compute, ringVars, exitVars, Linked, Running, Phase, RR!ringVars
<1>2. CASE GetPid
  BY <1>2 DEF GetPid, ringVars, exitVars, Linked, Running, Phase, RR!ringVars
<1>3. CASE ExitFree
  BY <1>3 DEF ExitFree, ringVars, Linked, Running, Phase, RR!ringVars
<1>4. CASE ExitRun
  <2>1. /\ mode = "exit" /\ mode' = "user" /\ current' = successor
        /\ procs' = procs \ {current} /\ UNCHANGED pidInc
    BY <1>4 DEF ExitRun, RunProcess
  <2> QED BY <2>1 DEF Linked, Running, Phase, RR!ringVars
<1>5. CASE UNCHANGED vars
  BY <1>5 DEF vars, ringVars, exitVars, Linked, Running, Phase, RR!ringVars
<1> QED BY <1>1, <1>2, <1>3, <1>4, <1>5

LEMMA StepRefines == IInv /\ [Next]_vars => [RR!Next]_(RR!ringVars)
BY StartTurn, YieldTurn, ForkTurn, StopTurn, ExitTurn, NoTurn DEF Next, RR!Next

\* The linked list, with its first, last, next and prev, implements turns in
\* the order of the pids, for any number of processes.
THEOREM ImplementsRoundRobin == Spec => RoundRobinSpec
<1>1. Init => RR!Init
  BY DEF Init, RR!Init, Linked, Running, Phase, NULL
<1> QED BY <1>1, StepRefines, Inductive, PTL DEF Spec, RoundRobinSpec, RR!Spec

-------------------------------------------------------------------------------
(* Address spaces: who owns what *)

\* The allocations made for process p: by load_module and add_process, or by
\* handle_fork, which allocates the program page by page.
Allocations(p) ==
    {<<Dir(p)>>, [i \in 1 .. CodePages |-> Page(p, <<"code", i - 1>>)]}
    \cup UNION {RegionHeap(p, r) : r \in Regions}

\* A page of the program other than the first, allocated by itself.
Leaked(a) == a[1][1] = "page" /\ a[1][3] = "code" /\ a[1][4] > 0

\* Everything on the heap was allocated for one process, and what was allocated
\* for a process that is gone is such a page.
HeapOwned ==
    IF mode = "boot" THEN heap = {}
    ELSE
        \A a \in heap : \E p \in Pids : a \in Allocations(p) /\ (p \in procs \/ Leaked(a))

\* handle_exit's progress: the directory is free, and the tables it has passed.
FreedSoFar ==
    mode = "exit" =>
        /\ region >= 1
        /\ \A a \in heap : /\ a[1] # Dir(current)
                           /\ \A i \in 1 .. region - 1 : a[1] \notin Freed(RegionOrder[i])

RegisterValues == [eax : 0 .. MaxPid, other : Values]

\* Each process_memory_t and each process_state is the process's own.
Records ==
    mode # "boot" =>
        /\ mem = [p \in procs |-> OwnMemory(p)]
        /\ cpu \in RegisterValues /\ saved \in [procs -> RegisterValues]

\* Process p's directory, tables and pages are allocated and hold what they
\* were given when p was made.
Mapped(p) ==
    /\ Dir(p) \in DOMAIN pdes /\ pdes[Dir(p)] = DirEntries(p, LoadPermits)
    /\ \A r \in Regions :
        /\ Table(p, r) \in DOMAIN ptes
        /\ ptes[Table(p, r)] = [s \in SlotsOf(r) |-> Entry(Page(p, s), LoadPermits[r])]
    /\ \A s \in PageSlots : Page(p, s) \in DOMAIN data /\ data[Page(p, s)] \in Values

AddressSpaces ==
    mode # "boot" => cr3 = Dir(Running) /\ \A p \in Linked : Mapped(p)

MInv == HeapOwned /\ FreedSoFar /\ Records /\ AddressSpaces

-------------------------------------------------------------------------------
(* Names of objects *)

LEMMA SlotsFacts ==
  /\ \A s \in PageSlots : s[1] \in Regions /\ s[2] \in 0 .. CodePages - 1
                          /\ s = <<s[1], s[2]>> /\ s \in SlotsOf(s[1])
  /\ \A s \in PageSlots : s \in Slots <=> s[1] \in UserRegions
  /\ \A r \in Regions : SlotsOf(r) \subseteq PageSlots /\ \A s \in SlotsOf(r) : s[1] = r
  /\ Slots \subseteq PageSlots
  /\ \A i \in 1 .. CodePages : <<"code", i - 1>> \in PageSlots
BY BoundAssumption DEF PageSlots, SlotsOf, Slots, UserRegions, Regions

LEMMA ObjectFacts ==
  /\ \A p : Dir(p)[1] = "dir" /\ Dir(p)[2] = p
  /\ \A p, r : Table(p, r)[1] = "table" /\ Table(p, r)[2] = p /\ Table(p, r)[3] = r
  /\ \A p, r : Record(p, r)[1] = "record" /\ Record(p, r)[2] = p /\ Record(p, r)[3] = r
  /\ \A p, s : Page(p, s)[1] = "page" /\ Page(p, s)[2] = p
               /\ Page(p, s)[3] = s[1] /\ Page(p, s)[4] = s[2]
BY DEF Dir, Table, Record, Page

LEMMA AllocationOwner ==
  ASSUME NEW p, NEW a \in Allocations(p)
  PROVE  a[1] \in Contents(a) /\ a[1][2] = p /\ \A o \in Contents(a) : o[2] = p
<1>1. CASE a = <<Dir(p)>>
  BY <1>1, ObjectFacts DEF Contents
<1>2. CASE a = [i \in 1 .. CodePages |-> Page(p, <<"code", i - 1>>)]
  <2>1. 1 \in 1 .. CodePages
    BY BoundAssumption
  <2>2. \A i \in 1 .. CodePages : a[i][2] = p
    BY <1>2, ObjectFacts
  <2>3. DOMAIN a = 1 .. CodePages
    BY <1>2
  <2> QED BY <2>1, <2>2, <2>3 DEF Contents
<1>3. ASSUME NEW r \in Regions, a \in RegionHeap(p, r)
      PROVE  a[1] \in Contents(a) /\ a[1][2] = p /\ \A o \in Contents(a) : o[2] = p
  <2>1. PICK o : a = <<o>> /\ o[2] = p
    BY <1>3, ObjectFacts DEF RegionHeap
  <2> QED BY <2>1 DEF Contents
<1> QED BY <1>1, <1>2, <1>3 DEF Allocations

\* free of objects that belong to one process takes nothing of another's.
LEMMA FreeKeeps ==
  ASSUME HeapOwned, mode # "boot", NEW pointers, Free(pointers),
         NEW q, \A o \in pointers : o[2] = q,
         NEW p, p # q, Mapped(p)
  PROVE  Mapped(p)'
<1> DEFINE gone == {a \in heap : a[1] \in pointers}
           lost == UNION {Contents(a) : a \in gone}
<1>1. \A o \in lost : o[2] = q
  <2> SUFFICES ASSUME NEW a \in heap, a[1] \in pointers, NEW o \in Contents(a) PROVE o[2] = q
    OBVIOUS
  <2>1. PICK n \in Pids : a \in Allocations(n)
    BY DEF HeapOwned
  <2>2. a[1][2] = n /\ o[2] = n
    BY <2>1, AllocationOwner
  <2> QED BY <2>2
<1>2. /\ pdes' = Without(pdes, lost) /\ ptes' = Without(ptes, lost) /\ data' = Without(data, lost)
  BY DEF Free
<1>3. Dir(p) \notin lost /\ \A r, s : Table(p, r) \notin lost /\ Page(p, s) \notin lost
  BY <1>1, ObjectFacts
<1> HIDE DEF lost
<1>4. Dir(p) \in DOMAIN pdes' /\ pdes'[Dir(p)] = pdes[Dir(p)]
  BY <1>2, <1>3 DEF Mapped, Without
<1>5. \A r \in Regions : Table(p, r) \in DOMAIN ptes' /\ ptes'[Table(p, r)] = ptes[Table(p, r)]
  BY <1>2, <1>3 DEF Mapped, Without
<1>6. \A s \in PageSlots : Page(p, s) \in DOMAIN data' /\ data'[Page(p, s)] = data[Page(p, s)]
  BY <1>2, <1>3 DEF Mapped, Without
<1> QED BY <1>4, <1>5, <1>6 DEF Mapped

LEMMA FreeHeap ==
  ASSUME NEW pointers, Free(pointers)
  PROVE  heap' \subseteq heap /\ \A a \in heap' : a[1] \notin pointers
BY DEF Free

\* The directory of a process as its own walk sees it.
LEMMA EntriesOf ==
  ASSUME NEW p, Mapped(p)
  PROVE  /\ pdes[Dir(p)]["kernel"] = Entry(KernelTable, FALSE)
         /\ pdes[Dir(p)]["self"] = Entry(Dir(p), FALSE)
         /\ \A r \in Regions : pdes[Dir(p)][r] = Entry(Table(p, r), LoadPermits[r])
<1>1. pdes[Dir(p)] = DirEntries(p, LoadPermits)
  BY DEF Mapped
<1> QED BY <1>1 DEF DirEntries, Regions

LEMMA WalkOwn ==
  ASSUME NEW p \in Pids, Mapped(p), NEW s \in PageSlots
  PROVE  UserWalk(Dir(p), s) = IF s \in Slots THEN Page(p, s) ELSE Nothing
<1>1. s[1] \in Regions /\ s \in SlotsOf(s[1])
  BY SlotsFacts
<1>2. pdes[Dir(p)][s[1]] = Entry(Table(p, s[1]), LoadPermits[s[1]])
  BY <1>1, EntriesOf
<1>3. ptes[Table(p, s[1])][s] = Entry(Page(p, s), LoadPermits[s[1]])
  BY <1>1 DEF Mapped
<1>4. Table(p, s[1]) \in Tables
  BY <1>1 DEF Tables
<1>5. LoadPermits[s[1]] <=> s \in Slots
  BY <1>1, SlotsFacts, Zenon DEF LoadPermits
<1>6. UserWalk(Dir(p), s) = IF LoadPermits[s[1]] /\ LoadPermits[s[1]] THEN Page(p, s) ELSE Nothing
  BY <1>2, <1>3, <1>4 DEF UserWalk, Entry
<1> QED BY <1>5, <1>6, Zenon

LEMMA UsableOwn ==
  ASSUME NEW p, Mapped(p)
  PROVE  Usable(Dir(p))
<1>1. ASSUME NEW r \in Regions
      PROVE  /\ pdes[Dir(p)][r].to = Table(p, r) /\ Table(p, r) \in DOMAIN ptes
             /\ \A s \in SlotsOf(r) : ptes[Table(p, r)][s].to \in DOMAIN data
  <2>1. pdes[Dir(p)][r] = Entry(Table(p, r), LoadPermits[r])
    BY EntriesOf
  <2>2. pdes[Dir(p)][r].to = Table(p, r)
    BY <2>1 DEF Entry
  <2>3. ASSUME NEW s \in SlotsOf(r)
        PROVE  ptes[Table(p, r)][s].to \in DOMAIN data
    <3>0. ptes[Table(p, r)] = [x \in SlotsOf(r) |-> Entry(Page(p, x), LoadPermits[r])]
      BY DEF Mapped
    <3>1. ptes[Table(p, r)][s] = Entry(Page(p, s), LoadPermits[r]) /\ s \in PageSlots
      BY <3>0, SlotsFacts
    <3>2. ptes[Table(p, r)][s].to = Page(p, s)
      BY <3>1 DEF Entry
    <3> QED BY <3>1, <3>2 DEF Mapped
  <2> QED BY <2>2, <2>3 DEF Mapped
<1>2. \A r \in Regions :
        /\ pdes[Dir(p)][r].to \in DOMAIN ptes
        /\ \A s \in SlotsOf(r) : ptes[pdes[Dir(p)][r].to][s].to \in DOMAIN data
  BY <1>1
<1> QED BY <1>2, EntriesOf DEF Usable, Mapped

-------------------------------------------------------------------------------
(* The steps keep what is whose *)

LEMMA OwnMemoryFacts ==
  /\ \A p : OwnMemory(p).dir = Dir(p)
  /\ \A p : \A r \in Regions :
        OwnMemory(p).record[r] = Record(p, r) /\ OwnMemory(p).table[r] = Table(p, r)
  /\ \A p : \A s \in PageSlots : OwnMemory(p).page[s] = Page(p, s)
BY DEF OwnMemory

\* While a program runs, everything is its own.
LEMMA RunningOwn ==
  ASSUME IInv, MInv, mode = "user"
  PROVE  /\ current \in procs /\ current \in Pids /\ procs \subseteq Pids /\ Linked = procs
         /\ Running = current /\ cr3 = Dir(current) /\ mem[current] = OwnMemory(current)
         /\ \A p \in procs : Mapped(p)
<1>1. current \in procs /\ procs \subseteq Pids
  BY DEF IInv, RingOK, TypeOK
<1>2. Linked = procs /\ Running = current
  BY DEF Linked, Running
<1>3. mem[current] = OwnMemory(current)
  BY <1>1 DEF MInv, Records
<1> QED BY <1>1, <1>2, <1>3 DEF MInv, AddressSpaces

LEMMA KernelMainMemory == IInv /\ MInv /\ KernelMain => MInv'
<1> SUFFICES ASSUME IInv, MInv, KernelMain PROVE MInv'
  OBVIOUS
<1>1. /\ mode = "boot" /\ mode' = "user" /\ pidInc = 1 /\ 1 \in Pids
      /\ procs' = {1} /\ current' = 1
      /\ Linked' = {1} /\ Running' = 1
  BY Bound DEF IInv, NoneAtBoot, KernelMain, RunProcess, AddToList, Linked, Running
<1>2. FirstAddressSpace(1)
  BY <1>1 DEF KernelMain
<1>3. PICK r \in [eax : {1}, other : Values], m \in [PageSlots -> Values] :
        /\ data' = [g \in {Page(1, s) : s \in PageSlots} |-> m[<<g[3], g[4]>>]]
        /\ saved' = [q \in {1} |-> r]
  BY <1>1 DEF KernelMain
<1>4. mem' = [q \in {1} |-> OwnMemory(1)]
  BY <1>2 DEF FirstAddressSpace
<1>5. cr3' = Dir(1) /\ cpu' = r
  BY <1>1, <1>3, <1>4, OwnMemoryFacts DEF KernelMain, RunProcess
<1>6. Records'
  <2>1. r \in RegisterValues
    BY Bound DEF RegisterValues
  <2>2. mem' = [p \in procs' |-> OwnMemory(p)]
    BY <1>1, <1>4
  <2> QED BY <1>1, <1>3, <1>5, <2>1, <2>2 DEF Records, RegisterValues
<1>7. HeapOwned'
  <2>1. heap' \subseteq Allocations(1)
    BY <1>2 DEF FirstAddressSpace, LoadModuleHeap, AddProcessHeap, RegionHeap, Allocations, Regions
  <2> QED BY <1>1, <2>1 DEF HeapOwned
<1>8. Mapped(1)'
  <2>1. Dir(1) \in DOMAIN pdes' /\ pdes'[Dir(1)] = DirEntries(1, LoadPermits)
    BY <1>2 DEF FirstAddressSpace
  <2>2. ASSUME NEW x \in Regions
        PROVE  /\ Table(1, x) \in DOMAIN ptes'
               /\ ptes'[Table(1, x)] = [s \in SlotsOf(x) |-> Entry(Page(1, s), LoadPermits[x])]
    <3>1. ptes' = [t \in {Table(1, y) : y \in Regions} |->
                     [s \in SlotsOf(t[3]) |-> Entry(Page(1, s), LoadPermits[t[3]])]]
      BY <1>2 DEF FirstAddressSpace
    <3>2. Table(1, x)[3] = x
      BY ObjectFacts
    <3> QED BY <3>1, <3>2
  <2>3. ASSUME NEW s \in PageSlots
        PROVE  Page(1, s) \in DOMAIN data' /\ data'[Page(1, s)] \in Values
    <3>1. Page(1, s)[3] = s[1] /\ Page(1, s)[4] = s[2] /\ s = <<s[1], s[2]>>
      BY ObjectFacts, SlotsFacts
    <3> QED BY <1>3, <3>1
  <2> QED BY <2>1, <2>2, <2>3 DEF Mapped
<1> QED BY <1>1, <1>5, <1>6, <1>7, <1>8 DEF MInv, FreedSoFar, AddressSpaces

\* What an address space's pages hold may change, nothing else of it.
LEMMA ComputeMemory == IInv /\ MInv /\ Compute => MInv'
<1> SUFFICES ASSUME IInv, MInv, Compute PROVE MInv'
  OBVIOUS
<1>1. /\ mode = "user" /\ mode' = "user"
      /\ UNCHANGED <<procs, current, saved, mem, heap, pdes, ptes, cr3>>
      /\ Linked' = Linked /\ Running' = Running
  BY DEF Compute, ringVars, exitVars, Linked, Running
<1>2. cpu' \in RegisterValues
  BY <1>1 DEF Compute, MInv, Records, RegisterValues
<1>3. DOMAIN data' = DOMAIN data /\ \A g \in DOMAIN data : data[g] \in Values => data'[g] \in Values
  BY DEF Compute
<1>4. \A p : Mapped(p) => Mapped(p)'
  BY <1>1, <1>3 DEF Mapped
<1>5. Records' /\ HeapOwned' /\ FreedSoFar'
  BY <1>1, <1>2 DEF MInv, Records, HeapOwned, FreedSoFar
<1> QED BY <1>1, <1>4, <1>5 DEF MInv, AddressSpaces

LEMMA YieldMemory == IInv /\ MInv /\ Yield => MInv'
<1> SUFFICES ASSUME IInv, MInv, Yield PROVE MInv'
  OBVIOUS
<1>1. /\ mode = "user" /\ mode' = "user" /\ current' = next[current]
      /\ UNCHANGED <<procs, mem, heap, pdes, ptes, data>>
      /\ saved' = [saved EXCEPT ![current] = cpu]
      /\ cr3' = mem'[current'].dir /\ cpu' = saved'[current']
  BY DEF Yield, RunProcess, NextToRun, ringVars, memVars
<1>2. Linked' = procs /\ Running' = current' /\ current' \in procs
  <2>1. IInv'
    BY YieldStep
  <2> QED BY <1>1, <2>1 DEF IInv, RingOK, Linked, Running
<1>3. cr3' = Dir(current')
  BY <1>1, <1>2, OwnMemoryFacts DEF MInv, Records
<1>4. Records'
  BY <1>1, <1>2, RunningOwn DEF MInv, Records
<1>5. HeapOwned' /\ FreedSoFar' /\ \A p : Mapped(p) => Mapped(p)'
  BY <1>1 DEF MInv, HeapOwned, FreedSoFar, Mapped
<1> QED BY <1>1, <1>2, <1>3, <1>4, <1>5, RunningOwn DEF MInv, AddressSpaces

LEMMA ForkMemory == IInv /\ MInv /\ Fork => MInv'
<1> SUFFICES ASSUME IInv, MInv, Fork PROVE MInv'
  OBVIOUS
<1>0. PICK c \in Pids : c = pidInc
  BY DEF Fork, AddToList
<1> DEFINE permits == [r \in Regions |-> pdes[mem[current].dir][r].user]
<1>1. /\ mode = "user" /\ mode' = "user" /\ c \in Pids /\ procs' = procs \cup {c}
      /\ UNCHANGED <<current, cr3>>
      /\ Linked' = procs' /\ Running' = current
  BY <1>0 DEF Fork, AddToList, Linked, Running
<1>2. c \notin procs /\ current # c
  <2>1. \A p \in procs : p \in Nat /\ p < c
    BY <1>0, <1>1 DEF IInv, RingOK, TypeOK, Pids
  <2> QED BY <2>1, RunningOwn, <1>1
<1>3. permits = LoadPermits
  <2>1. \A r \in Regions : pdes[Dir(current)][r] = Entry(Table(current, r), LoadPermits[r])
    BY <1>1, RunningOwn, EntriesOf
  <2>2. ASSUME NEW r \in Regions PROVE permits[r] = LoadPermits[r]
    <3>1. mem[current].dir = Dir(current)
      BY <1>1, RunningOwn, OwnMemoryFacts
    <3>2. pdes[Dir(current)][r] = Entry(Table(current, r), LoadPermits[r])
      BY <2>1
    <3>3. pdes[Dir(current)][r].user = LoadPermits[r]
      BY <3>2 DEF Entry
    <3> QED BY <3>1, <3>3
  <2>3. LoadPermits = [r \in Regions |-> LoadPermits[r]]
    BY DEF LoadPermits
  <2>4. permits = [r \in Regions |-> permits[r]]
    OBVIOUS
  <2> HIDE DEF permits
  <2> QED BY <2>2, <2>3, <2>4
<1>4. Records'
  <2>1. mem' = [q \in procs' |-> IF q = c THEN OwnMemory(c) ELSE mem[q]]
    BY <1>0 DEF Fork
  <2>2. mem' = [p \in procs' |-> OwnMemory(p)]
    BY <1>1, <1>2, <2>1 DEF MInv, Records
  <2>3. [cpu EXCEPT !.eax = 0] \in RegisterValues /\ [cpu EXCEPT !.eax = c] \in RegisterValues
    BY <1>1, Bound DEF MInv, Records, RegisterValues, Pids
  <2>4. saved' = [q \in procs' |-> IF q = c THEN [cpu EXCEPT !.eax = 0] ELSE saved[q]]
        /\ cpu' = [cpu EXCEPT !.eax = c]
    BY <1>0 DEF Fork
  <2>5. saved' \in [procs' -> RegisterValues]
    BY <1>1, <1>2, <2>3, <2>4 DEF MInv, Records
  <2> QED BY <2>2, <2>3, <2>4, <2>5 DEF Records, RegisterValues
<1>5. HeapOwned'
  <2>1. heap' = heap \cup {<<Dir(c)>>} \cup UNION {RegionHeap(c, r) : r \in Regions}
    BY <1>0 DEF Fork
  <2>2. ASSUME NEW a \in heap', a \notin heap PROVE a \in Allocations(c)
    BY <2>1, <2>2 DEF Allocations
  <2> QED BY <1>1, <2>1, <2>2 DEF MInv, HeapOwned
<1>6. ASSUME NEW p \in procs PROVE Mapped(p)'
  <2>0. Mapped(p) /\ p # c
    BY <1>1, <1>2, RunningOwn
  <2>1. Dir(p) \in DOMAIN pdes' /\ pdes'[Dir(p)] = pdes[Dir(p)]
    <3>1. Dir(p) # Dir(c)
      BY <2>0, ObjectFacts
    <3>2. pdes' = [d \in DOMAIN pdes \cup {Dir(c)} |->
                      IF d = Dir(c) THEN DirEntries(c, permits) ELSE pdes[d]]
      BY <1>0 DEF Fork
    <3> QED BY <2>0, <3>1, <3>2 DEF Mapped
  <2>2. \A r \in Regions : Table(p, r) \in DOMAIN ptes' /\ ptes'[Table(p, r)] = ptes[Table(p, r)]
    <3>2. ptes' = [t \in DOMAIN ptes \cup {Table(c, r) : r \in Regions} |->
                      IF t[2] # c THEN ptes[t]
                      ELSE [s \in SlotsOf(t[3]) |-> ChildEntry(c, s)]]
      BY <1>0 DEF Fork
    <3> SUFFICES ASSUME NEW r \in Regions
                 PROVE  Table(p, r) \in DOMAIN ptes' /\ ptes'[Table(p, r)] = ptes[Table(p, r)]
      OBVIOUS
    <3>3. Table(p, r) \in DOMAIN ptes
      BY <2>0 DEF Mapped
    <3>4. Table(p, r)[2] # c
      BY <2>0, ObjectFacts
    <3> QED BY <3>2, <3>3, <3>4
  <2>3. \A s \in PageSlots : Page(p, s) \in DOMAIN data' /\ data'[Page(p, s)] = data[Page(p, s)]
    <3>2. data' = [g \in DOMAIN data \cup {Page(c, s) : s \in PageSlots} |->
                      IF g[2] # c THEN data[g] ELSE data[mem[current].page[<<g[3], g[4]>>]]]
      BY <1>0 DEF Fork
    <3> QED BY <2>0, <3>2, ObjectFacts DEF Mapped
  <2> QED BY <2>0, <2>1, <2>2, <2>3 DEF Mapped
<1>7. Mapped(c)'
  <2>0. Mapped(current) /\ mem[current] = OwnMemory(current)
    BY <1>1, RunningOwn
  <2>1. Dir(c) \in DOMAIN pdes' /\ pdes'[Dir(c)] = DirEntries(c, LoadPermits)
    <3>1. pdes' = [d \in DOMAIN pdes \cup {Dir(c)} |->
                      IF d = Dir(c) THEN DirEntries(c, permits) ELSE pdes[d]]
      BY <1>0 DEF Fork
    <3> HIDE DEF permits
    <3> QED BY <1>3, <3>1
  <2>2. ASSUME NEW r \in Regions
        PROVE  /\ Table(c, r) \in DOMAIN ptes'
               /\ ptes'[Table(c, r)] = [s \in SlotsOf(r) |-> Entry(Page(c, s), LoadPermits[r])]
    <3>1. ptes' = [t \in DOMAIN ptes \cup {Table(c, y) : y \in Regions} |->
                      IF t[2] # c THEN ptes[t]
                      ELSE [s \in SlotsOf(t[3]) |-> ChildEntry(c, s)]]
      BY <1>0 DEF Fork
    <3>2. Table(c, r) \in DOMAIN ptes' /\ ptes'[Table(c, r)] = [s \in SlotsOf(r) |-> ChildEntry(c, s)]
      BY <3>1, ObjectFacts
    <3>3. ASSUME NEW s \in SlotsOf(r) PROVE ChildEntry(c, s) = Entry(Page(c, s), LoadPermits[r])
      <4>1. s[1] = r /\ mem[current].table[s[1]] = Table(current, r)
        BY <2>0, SlotsFacts, OwnMemoryFacts
      <4>2. ptes[Table(current, r)] = [x \in SlotsOf(r) |-> Entry(Page(current, x), LoadPermits[r])]
        BY <2>0 DEF Mapped
      <4>3. ptes[Table(current, r)][s] = Entry(Page(current, s), LoadPermits[r])
        BY <4>2
      <4>4. ptes[Table(current, r)][s].user = LoadPermits[r]
        BY <4>3 DEF Entry
      <4> QED BY <4>1, <4>4 DEF ChildEntry, ChildPage
    <3> QED BY <3>2, <3>3
  <2>3. ASSUME NEW s \in PageSlots
        PROVE  Page(c, s) \in DOMAIN data' /\ data'[Page(c, s)] \in Values
    <3>1. data' = [g \in DOMAIN data \cup {Page(c, x) : x \in PageSlots} |->
                      IF g[2] # c THEN data[g] ELSE data[mem[current].page[<<g[3], g[4]>>]]]
      BY <1>0 DEF Fork
    <3>2. s = <<Page(c, s)[3], Page(c, s)[4]>> /\ Page(c, s)[2] = c
      BY ObjectFacts, SlotsFacts
    <3>3. data'[Page(c, s)] = data[mem[current].page[s]]
      BY <3>1, <3>2
    <3>4. mem[current].page[s] = Page(current, s)
      BY <2>0, OwnMemoryFacts
    <3>5. data[Page(current, s)] \in Values
      BY <2>0 DEF Mapped
    <3>6. Page(c, s) \in DOMAIN data'
      BY <3>1
    <3> QED BY <3>3, <3>4, <3>5, <3>6
  <2> QED BY <2>1, <2>2, <2>3 DEF Mapped
<1>8. AddressSpaces'
  <2>1. cr3' = Dir(Running')
    BY <1>1, RunningOwn
  <2>2. \A p \in Linked' : Mapped(p)'
    BY <1>1, <1>6, <1>7
  <2> QED BY <2>1, <2>2 DEF AddressSpaces
<1> QED BY <1>1, <1>4, <1>5, <1>8 DEF MInv, FreedSoFar

LEMMA ExitUnlinkMemory == IInv /\ MInv /\ ExitUnlink => MInv'
<1> SUFFICES ASSUME IInv, MInv, ExitUnlink PROVE MInv'
  OBVIOUS
<1>1. /\ mode = "user" /\ mode' = "exit" /\ region' = 1 /\ successor' = next[current]
      /\ UNCHANGED <<procs, current, saved, mem, cpu>>
      /\ cr3' = mem[next[current]].dir /\ Free({mem[current].dir})
      /\ Linked' = procs \ {current} /\ Running' = next[current]
  BY DEF ExitUnlink, ExitDirectory, Linked, Running
<1>2. next[current] \in procs \ {current}
  <2>1. IInv'
    BY ExitUnlinkStep
  <2> QED BY <1>1, <2>1 DEF IInv, RingOK
<1>3. cr3' = Dir(next[current]) /\ mem[current].dir = Dir(current)
  BY <1>1, <1>2, RunningOwn, OwnMemoryFacts DEF MInv, Records
<1>4. heap' \subseteq heap /\ \A a \in heap' : a[1] # Dir(current)
  BY <1>1, <1>3, FreeHeap
<1>5. HeapOwned' /\ FreedSoFar' /\ Records'
  BY <1>1, <1>4 DEF MInv, HeapOwned, FreedSoFar, Records
<1>6. ASSUME NEW p \in procs \ {current} PROVE Mapped(p)'
  <2>1. \A o \in {mem[current].dir} : o[2] = current
    BY <1>3, ObjectFacts
  <2> QED BY <1>1, <2>1, RunningOwn, FreeKeeps DEF MInv
<1> QED BY <1>1, <1>3, <1>5, <1>6 DEF MInv, AddressSpaces

LEMMA FreedOwn ==
  ASSUME mem[current] = OwnMemory(current), NEW r \in Regions
  PROVE  /\ Freed(r) = {Table(current, r), Record(current, r)}
                       \cup {Page(current, s) : s \in IF r = "code" THEN {<<"code", 0>>} ELSE SlotsOf(r)}
         /\ \A o \in Freed(r) : o[2] = current
<1>1. \A s \in IF r = "code" THEN {<<"code", 0>>} ELSE SlotsOf(r) : s \in PageSlots
  <2>1. <<"code", 0>> \in PageSlots
    BY BoundAssumption DEF PageSlots, SlotsOf, Regions
  <2> QED BY <2>1, SlotsFacts
<1>2. Freed(r) = {Table(current, r), Record(current, r)}
                 \cup {Page(current, s) : s \in IF r = "code" THEN {<<"code", 0>>} ELSE SlotsOf(r)}
  BY <1>1, OwnMemoryFacts DEF Freed, FreedPages
<1> QED BY <1>2, ObjectFacts

LEMMA Order == Len(RegionOrder) = 4 /\ \A i \in 1 .. 4 : RegionOrder[i] \in Regions
BY DEF RegionOrder, Regions

LEMMA ExitFreeMemory == IInv /\ MInv /\ ExitFree => MInv'
<1> SUFFICES ASSUME IInv, MInv, ExitFree PROVE MInv'
  OBVIOUS
<1> DEFINE r == RegionOrder[region]
<1>1. /\ mode = "exit" /\ mode' = "exit" /\ region \in 1 .. 4 /\ region' = region + 1
      /\ UNCHANGED <<procs, current, saved, mem, cpu, cr3, successor>> /\ Free(Freed(r))
      /\ Linked = procs \ {current} /\ Linked' = Linked /\ Running' = Running
  BY Order DEF ExitFree, ringVars, Linked, Running, IInv, TypeOK, MInv, FreedSoFar
<1>2. r \in Regions /\ mem[current] = OwnMemory(current)
  BY <1>1, Order DEF IInv, RingOK, MInv, Records
<1>3. heap' \subseteq heap /\ \A a \in heap' : a[1] \notin Freed(r)
  BY <1>1, FreeHeap
<1>4. \A i : Freed(RegionOrder[i])' = Freed(RegionOrder[i])
  BY <1>1 DEF Freed, FreedPages
<1>5. FreedSoFar'
  <2> SUFFICES ASSUME NEW a \in heap', NEW i \in 1 .. region' - 1
               PROVE  a[1] # Dir(current) /\ a[1] \notin Freed(RegionOrder[i])
    BY <1>1, <1>4 DEF FreedSoFar, MInv
  <2>1. i \in 1 .. region - 1 \/ i = region
    BY <1>1
  <2> QED BY <1>1, <1>3, <2>1 DEF FreedSoFar, MInv
<1>6. HeapOwned' /\ Records'
  BY <1>1, <1>3 DEF MInv, HeapOwned, Records
<1>7. ASSUME NEW p \in Linked PROVE Mapped(p)'
  <2>1. p # current /\ Mapped(p)
    BY <1>1 DEF MInv, AddressSpaces
  <2>2. \A o \in Freed(r) : o[2] = current
    BY <1>2, FreedOwn
  <2> QED BY <1>1, <2>1, <2>2, FreeKeeps DEF MInv
<1> QED BY <1>1, <1>5, <1>6, <1>7 DEF MInv, AddressSpaces

\* What handle_exit has not freed when it is through is a leaked page.
LEMMA OnlyLeaked ==
  ASSUME mem[current] = OwnMemory(current), NEW a \in Allocations(current),
         a[1] # Dir(current), \A r \in Regions : a[1] \notin Freed(r)
  PROVE  Leaked(a)
<1>0. \A r \in Regions :
        Freed(r) = {Table(current, r), Record(current, r)}
                   \cup {Page(current, s) : s \in IF r = "code" THEN {<<"code", 0>>} ELSE SlotsOf(r)}
  BY FreedOwn
<1>1. a # <<Dir(current)>>
  OBVIOUS
<1>2. a # [i \in 1 .. CodePages |-> Page(current, <<"code", i - 1>>)]
  <2> SUFFICES ASSUME a = [i \in 1 .. CodePages |-> Page(current, <<"code", i - 1>>)] PROVE FALSE
    OBVIOUS
  <2>1. 1 \in 1 .. CodePages
    BY BoundAssumption
  <2>2. a[1] = Page(current, <<"code", 0>>)
    BY <2>1
  <2> QED BY <2>2, <1>0 DEF Regions
<1>3. PICK r \in Regions : a \in RegionHeap(current, r)
  BY <1>1, <1>2 DEF Allocations
<1>4. a # <<Record(current, r)>> /\ a # <<Table(current, r)>>
  BY <1>0
<1>5. PICK s \in SlotsOf(r) : a = <<Page(current, s)>>
  BY <1>3, <1>4 DEF RegionHeap
<1>6. r = "code" /\ s # <<"code", 0>>
  BY <1>0, <1>5
<1>7. s[1] = "code" /\ s[2] \in 0 .. CodePages - 1 /\ s[2] # 0
  BY <1>5, <1>6 DEF SlotsOf
<1>8. a[1] = Page(current, s)
  BY <1>5
<1> QED BY <1>7, <1>8, ObjectFacts, BoundAssumption DEF Leaked

LEMMA ExitRunMemory == IInv /\ MInv /\ ExitRun => MInv'
<1> SUFFICES ASSUME IInv, MInv, ExitRun PROVE MInv'
  OBVIOUS
<1>1. /\ mode = "exit" /\ mode' = "user" /\ region = 5
      /\ procs' = procs \ {current} /\ mem' = Without(mem, {current})
      /\ saved' = Without(saved, {current}) /\ current' = successor
      /\ cr3' = mem'[successor].dir /\ cpu' = saved'[successor]
      /\ UNCHANGED <<heap, pdes, ptes, data>>
      /\ Linked = procs \ {current} /\ Linked' = procs' /\ Running' = successor
  BY Order DEF ExitRun, RunProcess, Linked, Running, IInv, TypeOK
<1>2. successor \in procs' /\ current \in procs
  BY <1>1 DEF IInv, RingOK
<1>3. mem' = [p \in procs' |-> OwnMemory(p)] /\ saved' \in [procs' -> RegisterValues]
  BY <1>1 DEF MInv, Records, Without
<1>4. Records' /\ cr3' = Dir(Running')
  BY <1>1, <1>2, <1>3, OwnMemoryFacts DEF Records, RegisterValues
<1>5. HeapOwned'
  <2> SUFFICES ASSUME NEW a \in heap
               PROVE  \E p \in Pids : a \in Allocations(p) /\ (p \in procs' \/ Leaked(a))
    BY <1>1 DEF HeapOwned
  <2>1. PICK p \in Pids : a \in Allocations(p) /\ (p \in procs \/ Leaked(a))
    BY <1>1 DEF MInv, HeapOwned
  <2>2. CASE p = current
    <3>1. mem[current] = OwnMemory(current)
      BY <1>1, <1>2 DEF MInv, Records
    <3>2. a[1] # Dir(current) /\ \A i \in 1 .. 4 : a[1] \notin Freed(RegionOrder[i])
      BY <1>1 DEF MInv, FreedSoFar
    <3>3. \A r \in Regions : \E i \in 1 .. 4 : RegionOrder[i] = r
      BY DEF RegionOrder, Regions
    <3>4. Leaked(a)
      BY <2>1, <2>2, <3>1, <3>2, <3>3, OnlyLeaked
    <3> QED BY <2>1, <3>4
  <2> QED BY <1>1, <2>1, <2>2
<1>6. \A p : Mapped(p) => Mapped(p)'
  BY <1>1 DEF Mapped
<1>7. AddressSpaces'
  BY <1>1, <1>4, <1>6 DEF MInv, AddressSpaces
<1> QED BY <1>1, <1>4, <1>5, <1>7 DEF MInv, FreedSoFar

LEMMA MemoryStep == IInv /\ MInv /\ [Next]_vars => MInv'
<1> SUFFICES ASSUME IInv, MInv, [Next]_vars PROVE MInv'
  OBVIOUS
<1>1. CASE KernelMain
  BY <1>1, KernelMainMemory
<1>2. CASE Compute
  BY <1>2, ComputeMemory
<1>3. CASE GetPid
  <2>1. /\ mode = "user" /\ cpu' = [cpu EXCEPT !.eax = current]
        /\ UNCHANGED <<procs, current, saved, mem, heap, pdes, ptes, data, cr3, mode>>
        /\ Linked' = Linked /\ Running' = Running
    BY <1>3 DEF GetPid, ringVars, memVars, exitVars, Linked, Running
  <2>2. cpu' \in RegisterValues
    BY <2>1, RunningOwn, Bound DEF MInv, Records, RegisterValues, Pids
  <2>3. \A p : Mapped(p)' = Mapped(p)
    BY <2>1 DEF Mapped
  <2> QED BY <2>1, <2>2, <2>3 DEF MInv, HeapOwned, FreedSoFar, Records, AddressSpaces, RegisterValues
<1>4. CASE Yield
  BY <1>4, YieldMemory
<1>5. CASE Fork
  BY <1>5, ForkMemory
<1>6. CASE ExitAlone
  <2>1. /\ mode = "user" /\ mode' = "halted"
        /\ UNCHANGED <<procs, current, saved, mem, heap, pdes, ptes, data, cr3, cpu>>
        /\ Linked' = Linked /\ Running' = Running
    BY <1>6 DEF ExitAlone, ringVars, memVars, exitVars, Linked, Running
  <2>2. \A p : Mapped(p)' = Mapped(p)
    BY <2>1 DEF Mapped
  <2> QED BY <2>1, <2>2 DEF MInv, HeapOwned, FreedSoFar, Records, AddressSpaces, RegisterValues
<1>7. CASE ExitUnlink
  BY <1>7, ExitUnlinkMemory
<1>8. CASE ExitFree
  BY <1>8, ExitFreeMemory
<1>9. CASE ExitRun
  BY <1>9, ExitRunMemory
<1>10. CASE UNCHANGED vars
  <2>1. /\ UNCHANGED <<procs, current, saved, mem, heap, pdes, ptes, data, cr3, cpu, mode, region>>
        /\ Linked' = Linked /\ Running' = Running
    BY <1>10 DEF vars, ringVars, memVars, exitVars, Linked, Running
  <2>2. \A p : Mapped(p)' = Mapped(p)
    BY <2>1 DEF Mapped
  <2>3. \A i : Freed(RegionOrder[i])' = Freed(RegionOrder[i])
    BY <2>1 DEF Freed, FreedPages
  <2> QED BY <2>1, <2>2, <2>3 DEF MInv, HeapOwned, FreedSoFar, Records, AddressSpaces, RegisterValues
<1> QED BY <1>1, <1>2, <1>3, <1>4, <1>5, <1>6, <1>7, <1>8, <1>9, <1>10 DEF Next

LEMMA MemoryInductive == Spec => [](IInv /\ MInv)
<1>1. Init => MInv
  BY DEF Init, MInv, HeapOwned, FreedSoFar, Records, AddressSpaces
<1>2. (IInv /\ MInv) /\ [Next]_vars => (IInv /\ MInv)'
  BY StepInvariant, MemoryStep
<1> QED BY <1>1, <1>2, InitInvariant, PTL DEF Spec

\* Nothing the processor walks has been freed: not in a system call, not between
\* two of the frees of handle_exit, for any number of processes and pages.
THEOREM NothingLiveFreed == Spec => []MappingsLive
<1>1. ASSUME IInv, MInv PROVE MappingsLive
  <2> SUFFICES ASSUME mode # "boot"
               PROVE  Usable(cr3) /\ \A p \in Linked : Usable(mem[p].dir)
    BY DEF MappingsLive
  <2>1. Running \in Linked /\ Linked \subseteq procs
    BY <1>1 DEF IInv, RingOK, Running, Linked
  <2>2. \A p \in Linked : Mapped(p) /\ mem[p].dir = Dir(p)
    BY <1>1, <2>1, OwnMemoryFacts DEF MInv, AddressSpaces, Records
  <2>3. cr3 = Dir(Running)
    BY <1>1 DEF MInv, AddressSpaces
  <2> QED BY <2>1, <2>2, <2>3, UsableOwn
<1> QED BY <1>1, MemoryInductive, PTL

\* A program reaches its own pages and nothing else, whatever it forked from and
\* whoever exited before.
THEOREM ProgramsConfined == Spec => []Confined
<1>1. ASSUME IInv, MInv PROVE Confined
  <2> SUFFICES ASSUME mode = "user", NEW s \in PageSlots
               PROVE  UserWalk(cr3, s) = IF s \in Slots THEN Page(current, s) ELSE Nothing
    BY DEF Confined
  <2>1. cr3 = Dir(current) /\ current \in Pids /\ Mapped(current)
    BY <1>1, RunningOwn
  <2> QED BY <2>1, WalkOwn
<1> QED BY <1>1, MemoryInductive, PTL

\* Between system calls nothing of a process that is gone is left on the heap
\* but program pages that fork allocated one by one, which handle_exit leaves but
\* for the first.
THEOREM ExitsReclaim == Spec => []ExitReclaims
<1>1. ASSUME IInv, MInv PROVE ExitReclaims
  <2> SUFFICES ASSUME mode # "exit", NEW a \in heap PROVE a[1][2] \in procs \/ Leaked(a)
    BY DEF ExitReclaims, Leaked
  <2>1. CASE mode = "boot"
    BY <1>1, <2>1 DEF MInv, HeapOwned
  <2>2. CASE mode # "boot"
    <3>1. PICK p \in Pids : a \in Allocations(p) /\ (p \in procs \/ Leaked(a))
      BY <1>1, <2>2 DEF MInv, HeapOwned
    <3> QED BY <3>1, AllocationOwner
  <2> QED BY <2>1, <2>2
<1> QED BY <1>1, MemoryInductive, PTL

-------------------------------------------------------------------------------
(* A machine for every process *)

UserRegs == [p \in Linked |-> IF mode # "exit" /\ p = current THEN cpu ELSE saved[p]]
UserMemory == [p \in Linked |-> [s \in Slots |-> data[UserWalk(mem[p].dir, s)]]]

\* Through its own directory, a process's memory is its own pages.
OwnPagesSeen == UserMemory = [p \in Linked |-> [s \in Slots |-> data[Page(p, s)]]]

LEMMA OwnView == IInv /\ MInv => OwnPagesSeen
<1> SUFFICES ASSUME IInv, MInv, NEW p \in Linked, NEW s \in Slots
             PROVE  UserWalk(mem[p].dir, s) = Page(p, s)
  BY DEF UserMemory, OwnPagesSeen
<1>1. mode # "boot" /\ p \in procs /\ p \in Pids
  BY DEF Linked, IInv, NoneAtBoot, TypeOK
<1>2. mem[p].dir = Dir(p) /\ Mapped(p)
  BY <1>1, OwnMemoryFacts DEF MInv, Records, AddressSpaces
<1> QED BY <1>1, <1>2, WalkOwn, SlotsFacts

LEMMA NextOwnView == (IInv /\ MInv)' => OwnPagesSeen'
BY OwnView, PTL

\* The registers a process will find are cpu's while it runs, saved ones else.
LEMMA RegsWhileRunning ==
  ASSUME IInv, MInv, mode = "user"
  PROVE  /\ UserRegs = [p \in procs |-> IF p = current THEN cpu ELSE saved[p]]
         /\ UserRegs[current] = cpu
         /\ cpu = [eax |-> cpu.eax, other |-> cpu.other] /\ cpu.other \in Values
<1>1. UserRegs = [p \in procs |-> IF p = current THEN cpu ELSE saved[p]]
  BY RunningOwn DEF UserRegs
<1>2. cpu \in RegisterValues
  BY DEF MInv, Records
<1> QED BY <1>1, <1>2, RunningOwn DEF RegisterValues

LEMMA StartMachine == IInv /\ MInv /\ KernelMain => UM!MStart
<1> SUFFICES ASSUME IInv, MInv, KernelMain PROVE UM!MStart
  OBVIOUS
<1>1. IInv' /\ MInv' /\ OwnPagesSeen'
  BY KernelMainStep, KernelMainMemory, NextOwnView
<1>2. pidInc = 1 /\ mode' = "user" /\ current' = 1 /\ Linked' = {1}
  BY DEF IInv, NoneAtBoot, KernelMain, RunProcess, AddToList, Linked
<1> DEFINE m == [s \in Slots |-> data'[Page(1, s)]]
<1>3. UserRegs' = [p \in {pidInc} |-> cpu']
  BY <1>2 DEF UserRegs
<1>4. UserMemory' = [p \in {pidInc} |-> m]
  BY <1>1, <1>2 DEF OwnPagesSeen
<1>5. cpu' \in UM!Regs
  BY <1>1, <1>2 DEF MInv, Records, RegisterValues, UM!Regs
<1>6. m \in UM!Contents
  <2>1. Mapped(1)'
    BY <1>1, <1>2 DEF MInv, AddressSpaces
  <2> QED BY <2>1, SlotsFacts DEF Mapped, UM!Contents
<1>7. UM!Start
  BY StartTurn DEF RR!Start, UM!Start
<1> HIDE DEF m
<1> QED BY <1>3, <1>4, <1>5, <1>6, <1>7 DEF UM!MStart, UserRegs, UserMemory

LEMMA ComputeMachine == IInv /\ MInv /\ Compute => UM!Compute
<1> SUFFICES ASSUME IInv, MInv, Compute PROVE UM!Compute
  OBVIOUS
<1>1. OwnPagesSeen /\ OwnPagesSeen'
  <2>1. IInv' /\ MInv'
    BY StepInvariant, MemoryStep DEF Next
  <2> QED BY <2>1, OwnView, NextOwnView
<1>2. /\ mode = "user" /\ mode' = "user" /\ UNCHANGED <<procs, current, saved, cr3>>
      /\ Linked = procs /\ Linked' = procs
  BY DEF Compute, ringVars, Linked
<1>3. Phase = "on" /\ Running = current /\ UNCHANGED UM!ringVars
  BY <1>2, NoTurn DEF Phase, Running, RR!ringVars, UM!ringVars
<1>4. UserRegs' = [p \in procs |-> IF p = current THEN cpu' ELSE saved[p]]
  BY <1>2 DEF UserRegs
<1>5. CASE \E v \in Values : cpu' = [cpu EXCEPT !.other = v] /\ UNCHANGED data
  <2>1. PICK v \in Values : cpu' = [cpu EXCEPT !.other = v] /\ UNCHANGED data
    BY <1>5
  <2>2. UserRegs' = [UserRegs EXCEPT ![Running].other = v]
    BY <1>2, <1>3, <1>4, <2>1, RegsWhileRunning, RunningOwn
  <2>3. UserMemory' = UserMemory
    BY <1>1, <1>2, <2>1 DEF OwnPagesSeen
  <2> QED BY <1>3, <2>2, <2>3 DEF UM!Compute, UserRegs, UserMemory
<1>6. CASE \E s \in Dirtied, v \in Values :
              /\ UserWalk(cr3, s) # Nothing
              /\ data' = [data EXCEPT ![UserWalk(cr3, s)] = v]
              /\ UNCHANGED cpu
  <2>1. PICK t \in Dirtied, v \in Values :
              /\ UserWalk(cr3, t) # Nothing
              /\ data' = [data EXCEPT ![UserWalk(cr3, t)] = v]
              /\ UNCHANGED cpu
    BY <1>6
  <2>2. t \in Slots /\ UserWalk(cr3, t) = Page(current, t)
    BY <1>2, <2>1, WriteAssumption, RunningOwn, WalkOwn
  <2>3. UserRegs' = [UserRegs EXCEPT ![Running].other = cpu.other]
    BY <1>2, <1>3, <1>4, <2>1, RegsWhileRunning, RunningOwn
  <2>4. ASSUME NEW p \in procs, NEW s \in Slots
        PROVE  data'[Page(p, s)] = IF p = current /\ s = t THEN v ELSE data[Page(p, s)]
    <3>1. Page(p, s) \in DOMAIN data
      BY <1>2, RunningOwn, SlotsFacts DEF Mapped
    <3>2. Page(p, s) = Page(current, t) <=> p = current /\ s = t
      <4>1. s = <<s[1], s[2]>> /\ t = <<t[1], t[2]>>
        BY <2>2, SlotsFacts
      <4> QED BY <4>1, ObjectFacts
    <3> QED BY <2>1, <2>2, <3>1, <3>2
  <2>5. UserMemory' = [UserMemory EXCEPT ![Running][t] = v]
    <3>1. UserMemory' = [p \in procs |-> [s \in Slots |-> data'[Page(p, s)]]]
          /\ UserMemory = [p \in procs |-> [s \in Slots |-> data[Page(p, s)]]]
      BY <1>1, <1>2 DEF OwnPagesSeen
    <3> DEFINE m == [p \in procs |-> [s \in Slots |-> data[Page(p, s)]]]
    <3>2. m[current] = [s \in Slots |-> data[Page(current, s)]] /\ current \in procs
      BY <1>2, RunningOwn
    <3>3. ASSUME NEW p \in procs
          PROVE  [s \in Slots |-> data'[Page(p, s)]] = [m EXCEPT ![current][t] = v][p]
      <4>1. CASE p = current
        <5>1. [m EXCEPT ![current][t] = v][current] = [m[current] EXCEPT ![t] = v]
          BY <3>2
        <5> HIDE DEF m
        <5> QED BY <4>1, <5>1, <3>2, <2>2, <2>4
      <4>2. CASE p # current
        BY <4>2, <2>4
      <4> QED BY <4>1, <4>2
    <3>4. [m EXCEPT ![current][t] = v] = [p \in procs |-> [m EXCEPT ![current][t] = v][p]]
      OBVIOUS
    <3> HIDE DEF m
    <3>5. UserMemory' = [m EXCEPT ![current][t] = v]
      BY <3>1, <3>3, <3>4
    <3> QED BY <3>1, <3>5, <1>3 DEF m
  <2>6. cpu.other \in Values
    BY <1>2, RegsWhileRunning
  <2> QED BY <1>3, <2>2, <2>3, <2>5, <2>6 DEF UM!Compute, UserRegs, UserMemory
<1> QED BY <1>5, <1>6 DEF Compute

LEMMA GetPidMachine == IInv /\ MInv /\ GetPid => UM!GetPid
<1> SUFFICES ASSUME IInv, MInv, GetPid PROVE UM!GetPid
  OBVIOUS
<1>1. OwnPagesSeen /\ OwnPagesSeen'
  <2>1. IInv' /\ MInv'
    BY StepInvariant, MemoryStep DEF Next
  <2> QED BY <2>1, OwnView, NextOwnView
<1>2. /\ mode = "user" /\ mode' = "user" /\ UNCHANGED <<procs, current, saved, data>>
      /\ cpu' = [cpu EXCEPT !.eax = current]
      /\ Linked = procs /\ Linked' = procs
  BY DEF GetPid, ringVars, memVars, Linked
<1>3. Phase = "on" /\ Running = current /\ UNCHANGED UM!ringVars
  BY <1>2, NoTurn DEF Phase, Running, RR!ringVars, UM!ringVars
<1>4. UserRegs' = [UserRegs EXCEPT ![Running].eax = Running]
  <2>1. UserRegs' = [p \in procs |-> IF p = current THEN cpu' ELSE saved[p]]
    BY <1>2 DEF UserRegs
  <2> QED BY <1>2, <1>3, <2>1, RegsWhileRunning, RunningOwn
<1>5. UserMemory' = UserMemory
  BY <1>1, <1>2 DEF OwnPagesSeen
<1> QED BY <1>3, <1>4, <1>5 DEF UM!GetPid, UserRegs, UserMemory

LEMMA YieldMachine == IInv /\ MInv /\ Yield => UM!MYield
<1> SUFFICES ASSUME IInv, MInv, Yield PROVE UM!MYield
  OBVIOUS
<1>1. OwnPagesSeen /\ OwnPagesSeen' /\ IInv'
  BY YieldStep, YieldMemory, OwnView, NextOwnView
<1>2. /\ mode = "user" /\ mode' = "user" /\ UNCHANGED <<procs, data>>
      /\ saved' = [saved EXCEPT ![current] = cpu] /\ cpu' = saved'[current']
      /\ Linked = procs /\ Linked' = procs
  BY DEF Yield, RunProcess, ringVars, memVars, Linked
<1>3. UserRegs' = UserRegs
  <2>1. UserRegs' = [p \in procs |-> IF p = current' THEN cpu' ELSE saved'[p]]
    BY <1>2 DEF UserRegs
  <2>2. \A p \in procs : saved'[p] = IF p = current THEN cpu ELSE saved[p]
    BY <1>2 DEF MInv, Records
  <2> QED BY <1>2, <2>1, <2>2, RegsWhileRunning
<1>4. UserMemory' = UserMemory
  BY <1>1, <1>2 DEF OwnPagesSeen
<1>5. UM!Yield
  BY YieldTurn DEF RR!Yield, UM!Yield, RR!TurnAfter, UM!TurnAfter
<1> QED BY <1>3, <1>4, <1>5 DEF UM!MYield, UserRegs, UserMemory

LEMMA ForkMachine == IInv /\ MInv /\ Fork => UM!MFork
<1> SUFFICES ASSUME IInv, MInv, Fork PROVE UM!MFork
  OBVIOUS
<1>0. PICK c \in Pids : c = pidInc
  BY DEF Fork, AddToList
<1>1. OwnPagesSeen /\ OwnPagesSeen'
  BY ForkStep, ForkMemory, OwnView, NextOwnView
<1>2. /\ mode = "user" /\ mode' = "user" /\ procs' = procs \cup {c} /\ UNCHANGED current
      /\ saved' = [q \in procs' |-> IF q = c THEN [cpu EXCEPT !.eax = 0] ELSE saved[q]]
      /\ cpu' = [cpu EXCEPT !.eax = c]
      /\ Linked = procs /\ Linked' = procs' /\ Running = current
  BY <1>0 DEF Fork, AddToList, Linked, Running
<1>3. c \notin procs /\ current \in procs /\ current # c /\ mem[current] = OwnMemory(current)
  <2>1. \A p \in procs : p \in Nat /\ p < c
    BY <1>0, <1>2 DEF IInv, RingOK, TypeOK, Pids
  <2> QED BY <2>1, <1>2, RunningOwn
<1>4. UserRegs' = [p \in Linked' |->
                     IF p = pidInc THEN [UserRegs[Running] EXCEPT !.eax = 0]
                     ELSE IF p = Running THEN [UserRegs[Running] EXCEPT !.eax = pidInc]
                     ELSE UserRegs[p]]
  <2>1. UserRegs' = [p \in procs' |-> IF p = current THEN cpu' ELSE saved'[p]]
    BY <1>2 DEF UserRegs
  <2>2. UserRegs = [p \in procs |-> IF p = current THEN cpu ELSE saved[p]] /\ UserRegs[current] = cpu
    BY <1>2, RegsWhileRunning
  <2> HIDE DEF UserRegs
  <2> QED BY <1>0, <1>2, <1>3, <2>1, <2>2
<1>5. ASSUME NEW p \in procs', NEW s \in Slots
      PROVE  data'[Page(p, s)] = IF p = c THEN data[Page(current, s)] ELSE data[Page(p, s)]
  <2>1. data' = [g \in DOMAIN data \cup {Page(c, x) : x \in PageSlots} |->
                  IF g[2] # c THEN data[g] ELSE data[mem[current].page[<<g[3], g[4]>>]]]
    BY <1>0 DEF Fork
  <2>2. Page(p, s)[2] = p /\ s = <<Page(p, s)[3], Page(p, s)[4]>> /\ s \in PageSlots
    BY ObjectFacts, SlotsFacts
  <2>3. mem[current].page[s] = Page(current, s)
    BY <1>3, <2>2, OwnMemoryFacts
  <2>4. CASE p = c
    BY <2>1, <2>2, <2>3, <2>4
  <2>5. CASE p # c
    <3>1. Page(p, s) \in DOMAIN data
      BY <1>2, <2>2, <2>5, RunningOwn DEF Mapped
    <3> QED BY <2>1, <2>2, <2>5, <3>1
  <2> QED BY <2>4, <2>5
<1>6. UserMemory' = [p \in Linked' |-> IF p = pidInc THEN UserMemory[Running] ELSE UserMemory[p]]
  <2>1. UserMemory = [p \in procs |-> [s \in Slots |-> data[Page(p, s)]]]
        /\ UserMemory' = [p \in procs' |-> [s \in Slots |-> data'[Page(p, s)]]]
    BY <1>1, <1>2 DEF OwnPagesSeen
  <2>2. ASSUME NEW p \in procs'
        PROVE  UserMemory'[p] = IF p = pidInc THEN UserMemory[Running] ELSE UserMemory[p]
    BY <1>0, <1>2, <1>3, <1>5, <2>1
  <2> QED BY <1>2, <2>1, <2>2
<1>7. UM!Fork
  BY ForkTurn DEF RR!Fork, UM!Fork, RR!Pids, UM!Pids
<1> QED BY <1>4, <1>6, <1>7 DEF UM!MFork, UserRegs, UserMemory

LEMMA ExitMachine == IInv /\ MInv /\ ExitUnlink => UM!MExit
<1> SUFFICES ASSUME IInv, MInv, ExitUnlink PROVE UM!MExit
  OBVIOUS
<1>1. OwnPagesSeen /\ OwnPagesSeen'
  BY ExitUnlinkStep, ExitUnlinkMemory, OwnView, NextOwnView
<1>2. /\ mode = "user" /\ mode' = "exit" /\ UNCHANGED <<procs, current, saved, mem>>
      /\ Linked = procs /\ Linked' = procs \ {current} /\ Free({mem[current].dir})
  BY DEF ExitUnlink, Linked
<1>3. UserRegs' = [p \in Linked' |-> UserRegs[p]]
  <2>1. UserRegs' = [p \in Linked' |-> saved[p]]
    BY <1>2 DEF UserRegs
  <2> QED BY <1>2, <2>1, RegsWhileRunning
<1>4. UserMemory' = [p \in Linked' |-> UserMemory[p]]
  <2>1. \A p \in Linked', s \in Slots : data'[Page(p, s)] = data[Page(p, s)]
    <3>1. PICK lost : data' = Without(data, lost)
      BY <1>2 DEF Free
    <3>2. \A p \in Linked', s \in Slots : Page(p, s) \in DOMAIN data'
      <4>1. \A p \in Linked' : Mapped(p)'
        BY <1>2, ExitUnlinkMemory DEF MInv, AddressSpaces
      <4> QED BY <4>1, SlotsFacts DEF Mapped
    <3> QED BY <3>1, <3>2 DEF Without
  <2> QED BY <1>1, <1>2, <2>1 DEF OwnPagesSeen
<1>5. UM!Exit
  BY ExitTurn DEF RR!Exit, UM!Exit, RR!TurnAfter, UM!TurnAfter
<1> QED BY <1>3, <1>4, <1>5 DEF UM!MExit, UserRegs, UserMemory

LEMMA StopMachine == IInv /\ MInv /\ ExitAlone => UM!MStop
<1> SUFFICES ASSUME IInv, MInv, ExitAlone PROVE UM!MStop
  OBVIOUS
<1>1. /\ mode = "user" /\ mode' = "halted"
      /\ UNCHANGED <<procs, current, saved, mem, pdes, ptes, data, cpu>>
      /\ Linked = procs /\ Linked' = procs
  BY DEF ExitAlone, ringVars, memVars, Linked
<1>2. UserRegs' = UserRegs /\ UserMemory' = UserMemory
  BY <1>1 DEF UserRegs, UserMemory, UserWalk
<1>3. UM!Stop
  BY StopTurn DEF RR!Stop, UM!Stop
<1> QED BY <1>2, <1>3 DEF UM!MStop, UserRegs, UserMemory

\* handle_exit's other steps change no machine.
LEMMA NoMachine ==
  ASSUME IInv, MInv, ExitFree \/ ExitRun \/ UNCHANGED vars
  PROVE  UNCHANGED UM!vars
<1>1. OwnPagesSeen /\ OwnPagesSeen'
  <2>1. IInv' /\ MInv'
    BY StepInvariant, MemoryStep DEF Next
  <2> QED BY <2>1, OwnView, NextOwnView
<1>2. Linked' = Linked
  BY NoTurn DEF RR!ringVars
<1>3. UserRegs' = UserRegs /\ UserMemory' = UserMemory
  <2>1. CASE ExitFree
    <3>1. /\ mode = "exit" /\ mode' = "exit" /\ UNCHANGED <<saved, mem>>
          /\ Free(Freed(RegionOrder[region]))
      BY <2>1 DEF ExitFree
    <3>2. \A p \in Linked, s \in Slots : data'[Page(p, s)] = data[Page(p, s)]
      <4>1. PICK lost : data' = Without(data, lost)
        BY <3>1 DEF Free
      <4>2. \A p \in Linked : Mapped(p)'
        BY <1>2, <2>1, <3>1, ExitFreeMemory DEF MInv, AddressSpaces
      <4>3. \A p \in Linked, s \in Slots : Page(p, s) \in DOMAIN data'
        BY <4>2, SlotsFacts DEF Mapped
      <4> QED BY <4>1, <4>3 DEF Without
    <3> QED BY <1>1, <1>2, <3>1, <3>2 DEF OwnPagesSeen, UserRegs
  <2>2. CASE ExitRun
    <3>1. /\ mode = "exit" /\ mode' = "user" /\ UNCHANGED data /\ current' = successor
          /\ saved' = Without(saved, {current}) /\ cpu' = saved'[current'] /\ Linked = procs \ {current}
      BY <2>2 DEF ExitRun, RunProcess, Linked
    <3>2. \A p \in Linked : saved'[p] = saved[p]
      BY <3>1 DEF MInv, Records, Without
    <3> QED BY <1>1, <1>2, <3>1, <3>2 DEF OwnPagesSeen, UserRegs
  <2>3. CASE UNCHANGED vars
    BY <1>1, <1>2, <2>3 DEF vars, memVars, OwnPagesSeen, UserRegs
  <2> QED BY <2>1, <2>2, <2>3
<1>4. UNCHANGED UM!ringVars
  BY NoTurn DEF RR!ringVars, UM!ringVars
<1> QED BY <1>3, <1>4 DEF UM!vars, UserRegs, UserMemory

LEMMA StepOnMachine == IInv /\ MInv /\ [Next]_vars => [UM!MNext]_(UM!vars)
BY StartMachine, ComputeMachine, GetPidMachine, YieldMachine, ForkMachine, ExitMachine, StopMachine,
   NoMachine DEF Next, UM!MNext

\* Every process has a machine of its own: for any number of processes and of
\* pages, its registers and memory, as the hardware maps it, are changed by its
\* own steps alone, and fork copies both.
THEOREM ImplementsUserMachine == Spec => UserMachineSpec
<1>1. Init => UM!MInit
  <2> SUFFICES ASSUME Init PROVE UM!MInit
    OBVIOUS
  <2>1. Linked = {} /\ Running = NULL /\ pidInc = 1 /\ Phase = "off"
    BY DEF Init, Linked, Running, Phase
  <2>2. UserRegs = <<>> /\ UserMemory = <<>>
    BY <2>1 DEF UserRegs, UserMemory
  <2> QED BY <2>1, <2>2 DEF UM!MInit, UM!Init, UserRegs, UserMemory, NULL
<1> QED BY <1>1, StepOnMachine, MemoryInductive, PTL DEF Spec, UserMachineSpec, UM!MSpec
===============================================================================
