---------------------------- MODULE LendingPool ----------------------------
(***************************************************************************)
(* What get_connect promises its callers: a connection is lent to one      *)
(* borrower at a time, out of those that are free or made for the purpose, *)
(* and comes back or is discarded; a closed pool has none left.            *)
(***************************************************************************)
CONSTANTS Borrowers, Resources, Nobody

VARIABLES free, borrower, closed

vars == <<free, borrower, closed>>

Unused == {r \in Resources : r \notin free /\ borrower[r] = Nobody}

Init == free = {} /\ borrower = [r \in Resources |-> Nobody] /\ closed = FALSE

Grow(r) ==
    /\ ~closed /\ r \in Unused
    /\ free' = free \cup {r}
    /\ UNCHANGED <<borrower, closed>>

Shrink(S) ==
    /\ free' = free \ S
    /\ UNCHANGED <<borrower, closed>>

(* The loan of r; a free one that proved useless is discarded with it.     *)
Lend(b, r, S) ==
    /\ ~closed /\ r \in free \cup Unused
    /\ \A s \in Resources : borrower[s] # b
    /\ free' = (free \ S) \ {r}
    /\ borrower' = [borrower EXCEPT ![r] = b]
    /\ UNCHANGED closed

Return(r) ==
    /\ ~closed /\ borrower[r] # Nobody
    /\ borrower' = [borrower EXCEPT ![r] = Nobody]
    /\ free' \in {free, free \cup {r}}
    /\ UNCHANGED closed

Close ==
    /\ ~closed /\ \A r \in Resources : borrower[r] = Nobody
    /\ closed' = TRUE /\ free' = {}
    /\ UNCHANGED borrower

Next ==
    \/ \E r \in Resources : Grow(r) \/ Return(r)
    \/ \E S \in SUBSET free : Shrink(S)
    \/ \E b \in Borrowers, r \in Resources, S \in SUBSET free : Lend(b, r, S)
    \/ Close

Spec == Init /\ [][Next]_vars

=============================================================================
