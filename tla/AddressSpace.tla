------------------------------ MODULE AddressSpace ----------------------------
(***************************************************************************)
(* What mapping and unmapping pages promises: pages appear and go one at a *)
(* time, each backed by a frame that backs no other, and the others stay   *)
(* where they are.  There are no tables and no caches here.                *)
(***************************************************************************)
EXTENDS Functions

VARIABLE mapping        \* page -> the frame an access to it reaches

Init == mapping = <<>>

Map ==
    \E p \in DOMAIN mapping' \ DOMAIN mapping :
        /\ mapping' = [q \in DOMAIN mapping \cup {p} |-> IF q = p THEN mapping'[p] ELSE mapping[q]]
        /\ mapping'[p] \notin Range(mapping)

Unmap == \E p \in DOMAIN mapping : mapping' = Restrict(mapping, DOMAIN mapping \ {p})

Spec == Init /\ [][Map \/ Unmap]_mapping
===============================================================================
