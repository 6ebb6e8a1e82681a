------------------------------- MODULE FirstFit -------------------------------
(***************************************************************************)
(* What the physical page allocator of page.c promises its callers: once   *)
(* the boot reservations are made, a request is answered with the lowest   *)
(* frame that is not in use, and refused (answer 0) only when every frame  *)
(* is in use.  There is no bitmap here, no words and no scan position.     *)
(***************************************************************************)
EXTENDS Integers

CONSTANT TotalFrames

VARIABLES
    used,       \* the frames that are reserved or handed out
    page,       \* the answer to the latest request
    booted      \* whether the boot reservations are complete

vars == <<used, page, booted>>

Frames == 0 .. TotalFrames - 1

Init == used = {} /\ page = 0 /\ booted = FALSE

Reserve ==
    /\ ~booted
    /\ used \subseteq used' /\ used' \subseteq Frames
    /\ UNCHANGED <<page, booted>>

Boot == ~booted /\ booted' = TRUE /\ UNCHANGED <<used, page>>

Grant ==
    /\ booted
    /\ \E f \in Frames \ used :
        /\ \A g \in Frames \ used : f <= g
        /\ used' = used \cup {f}
        /\ page' = f
    /\ UNCHANGED booted

Refuse ==
    /\ booted
    /\ Frames \subseteq used
    /\ page' = 0
    /\ UNCHANGED <<used, booted>>

Release ==
    /\ booted
    /\ \E f \in Frames : used' = used \ {f}
    /\ UNCHANGED <<page, booted>>

Next == Reserve \/ Boot \/ Grant \/ Refuse \/ Release

Spec == Init /\ [][Next]_vars
===============================================================================
