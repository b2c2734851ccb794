----------------------------- MODULE FifoQueue -----------------------------
(* A queue of distinct values: each is added once and leaves in that order.*)
EXTENDS Sequences

CONSTANT Values

VARIABLES
    items,  \* the values in the queue
    out     \* the values that left it, in order

vars == <<items, out>>

Init == items = <<>> /\ out = <<>>

Add(v) ==
    /\ \A i \in DOMAIN items : items[i] # v
    /\ \A i \in DOMAIN out : out[i] # v
    /\ items' = Append(items, v)
    /\ UNCHANGED out

Remove ==
    /\ items # <<>>
    /\ out' = Append(out, Head(items))
    /\ items' = Tail(items)

Next == Remove \/ \E v \in Values : Add(v)

Spec == Init /\ [][Next]_vars

=============================================================================
