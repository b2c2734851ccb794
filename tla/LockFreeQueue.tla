---------------------------- MODULE LockFreeQueue ----------------------------
(***************************************************************************)
(* lock_free_queue of include/MSTL/ext/lock_free_queue.hpp: a linked queue *)
(* whose nodes carry split reference counts. One action is one atomic      *)
(* access to shared memory, in the program order of push and pop. A        *)
(* compare-exchange loop that only adds to a counter is one action: its    *)
(* failed rounds change nothing. The orderings weaker than seq_cst are     *)
(* taken as seq_cst.                                                       *)
(***************************************************************************)
EXTENDS Integers, Sequences, FiniteSets

CONSTANTS
    Pushers,    \* the push calls; each pushes itself as its value
    Poppers,    \* the pop calls
    Nodes,      \* bound: addresses of nodes; a deleted one may be reused
    CountMod,   \* 2^30 and 2^32, the widths of the counts, scaled down
    FreshData,  \* what `std::atomic<T*> data' of a new node may hold
    Null,       \* the null pointer, of nodes and of data
    Garbage,    \* any other pointer left in uninitialised memory
    Empty       \* the value-initialised T of make_unique<T>()

ASSUME QueueAssumption ==
    /\ Null \notin Nodes \cup Pushers /\ Pushers \cap Poppers = {}
    /\ CountMod \in Nat \ {0} /\ FreshData \subseteq {Null, Garbage}

Threads == Pushers \cup Poppers

VARIABLES
    heap,    \* the addresses that hold a node
    data,    \* node::data
    next,    \* node::next; its external_count is 1 unless it is null
    inner,   \* node::count.internal_count
    outer,   \* node::count.external_counters
    head, tail,  \* counted_node_ptr: [cnt, ptr]
    pc,
    old,     \* old_tail or old_head of each call
    new,     \* new_next of a push, next of a pop: a node, counted once
    aim,     \* what set_new_tail is to make the tail
    ret,     \* what a finished pop returned
    taken,   \* the values of the nodes that the head has passed, in order
    fault    \* a node was used or deleted when there was none

nodes == <<data, next, inner, outer>>
local == <<old, new, aim, ret>>
vars  == <<heap, nodes, head, tail, pc, local, taken, fault>>

Counted(n, c) == [ptr |-> n, cnt |-> c]

PushPcs == {"count tail", "set data", "link", "help", "swing", "help swing"}
PopPcs  == {"count head", "read tail", "read next", "move head", "take data"}
DropPcs == {"free counter", "release", "help free", "help release", "pop free",
            "pop release", "give up"}
Pcs == PushPcs \cup PopPcs \cup DropPcs \cup {"start", "end"}

-----------------------------------------------------------------------------

(* new node: the counts of the constructor, next null, data untouched.     *)
NewNode(n, d) ==
    /\ n \notin heap
    /\ data' = [data EXCEPT ![n] = d]
    /\ next' = [next EXCEPT ![n] = Null]
    /\ inner' = [inner EXCEPT ![n] = 0] /\ outer' = [outer EXCEPT ![n] = 2]

(* Using node n is a fault once it is deleted.                             *)
Touch(n) == fault' = (fault \/ n \notin heap)

(* A definition named ..._<bug> is not part of the model: it is a plausible*)
(* bug in the definition after it, with which the properties are tested.   *)

(* The last reference goes: both counts are 0.                             *)
Dead_inner_only(n) == inner'[n] = 0
Dead(n) == inner'[n] = 0 /\ outer'[n] = 0
DeleteIfDead(n) == heap' = IF Dead(n) THEN heap \ {n} ELSE heap

(* Counts are bit fields of 30 and 32 bits.                                *)
Wrap(c) == c % CountMod

Init ==
    \E n \in Nodes, d \in FreshData :
        /\ heap = {n}
        /\ data = [m \in Nodes |-> IF m = n THEN d ELSE Null]
        /\ next = [m \in Nodes |-> Null]
        /\ inner = [m \in Nodes |-> 0]
        /\ outer = [m \in Nodes |-> IF m = n THEN 2 ELSE 0]
        /\ head = Counted(n, 1) /\ tail = Counted(n, 1)
        /\ pc = [t \in Threads |-> "start"]
        /\ old = [t \in Threads |-> Counted(Null, 0)]
        /\ new = [t \in Threads |-> Null] /\ aim = [t \in Threads |-> Null]
        /\ ret = [t \in Poppers |-> Null]
        /\ taken = <<>> /\ fault = FALSE

Goto(t, l) == pc' = [pc EXCEPT ![t] = l]

-----------------------------------------------------------------------------
(* increase_external_count, on tail or head.                               *)

PushStart(t) ==
    /\ pc[t] = "start" /\ t \in Pushers
    /\ \E n \in Nodes, d \in FreshData :
          /\ NewNode(n, d)
          /\ heap' = heap \cup {n} /\ new' = [new EXCEPT ![t] = n]
    /\ Goto(t, "count tail")
    /\ UNCHANGED <<head, tail, old, aim, ret, taken, fault>>

CountTail(t) ==
    /\ pc[t] = "count tail"
    /\ tail' = [tail EXCEPT !.cnt = Wrap(@ + 1)]
    /\ old' = [old EXCEPT ![t] = tail']
    /\ Goto(t, "set data")
    /\ UNCHANGED <<heap, nodes, head, new, aim, ret, taken, fault>>

(* data.compare_exchange_strong(null, new_data).                           *)
DataFree_ignored(t) == TRUE
DataFree(t) == data[old[t].ptr] = Null

SetData(t) ==
    /\ pc[t] = "set data"
    /\ Touch(old[t].ptr)
    /\ IF DataFree(t)
         THEN /\ data' = [data EXCEPT ![old[t].ptr] = t]
              /\ Goto(t, "link")
         ELSE /\ UNCHANGED data
              /\ Goto(t, "help")
    /\ UNCHANGED <<heap, next, inner, outer, head, tail, local, taken>>

(* Its data is in: link the new node, unless a helper has linked one.      *)
Link(t) ==
    /\ pc[t] = "link"
    /\ Touch(old[t].ptr)
    /\ IF next[old[t].ptr] = Null
         THEN /\ next' = [next EXCEPT ![old[t].ptr] = new[t]]
              /\ aim' = [aim EXCEPT ![t] = new[t]]
              /\ UNCHANGED <<heap, new>>
         ELSE /\ heap' = heap \ {new[t]}
              /\ aim' = [aim EXCEPT ![t] = next[old[t].ptr]]
              /\ new' = [new EXCEPT ![t] = next[old[t].ptr]]
              /\ UNCHANGED next
    /\ Goto(t, "swing")
    /\ UNCHANGED <<data, inner, outer, head, tail, old, ret, taken>>

(* Another push took the tail node: help it with the new node, if its next *)
(* is still null, and make another node.                                   *)
Help(t) ==
    /\ pc[t] = "help"
    /\ Touch(old[t].ptr)
    /\ IF next[old[t].ptr] = Null
         THEN \E n \in Nodes \ heap, d \in FreshData :
                 /\ next' = [next EXCEPT ![old[t].ptr] = new[t], ![n] = Null]
                 /\ data' = [data EXCEPT ![n] = d]
                 /\ inner' = [inner EXCEPT ![n] = 0] /\ outer' = [outer EXCEPT ![n] = 2]
                 /\ heap' = heap \cup {n}
                 /\ aim' = [aim EXCEPT ![t] = new[t]]
                 /\ new' = [new EXCEPT ![t] = n]
         ELSE /\ aim' = [aim EXCEPT ![t] = next[old[t].ptr]]
              /\ UNCHANGED <<heap, nodes, new>>
    /\ Goto(t, "help swing")
    /\ UNCHANGED <<head, tail, old, ret, taken>>

(* set_new_tail: swing the tail unless someone else did.                   *)
AtOldTail_reversed(t) == tail.ptr # old[t].ptr
AtOldTail(t) == tail.ptr = old[t].ptr

Swing(t) ==
    /\ pc[t] \in {"swing", "help swing"}
    /\ IF AtOldTail(t)
         THEN /\ tail' = Counted(aim[t], 1)
              /\ Goto(t, IF pc[t] = "swing" THEN "free counter" ELSE "help free")
              /\ old' = [old EXCEPT ![t] = tail]
         ELSE /\ Goto(t, IF pc[t] = "swing" THEN "release" ELSE "help release")
              /\ UNCHANGED <<tail, old>>
    /\ UNCHANGED <<heap, nodes, head, new, aim, ret, taken, fault>>

-----------------------------------------------------------------------------

After(l) ==
    CASE l \in {"free counter", "release", "pop free", "give up"} -> "end"
      [] l \in {"help free", "help release"} -> "count tail"
      [] l = "pop release" -> "count head"

(* free_external_counter: the 2 are the list's own references.             *)
Increase_by_all(t) == old[t].cnt
Increase(t) == old[t].cnt - 2

FreeExternalCounter(t) ==
    /\ pc[t] \in {"free counter", "help free", "pop free"}
    /\ Touch(old[t].ptr)
    /\ outer' = [outer EXCEPT ![old[t].ptr] = (@ - 1) % 4]
    /\ inner' = [inner EXCEPT ![old[t].ptr] = Wrap(@ + Increase(t))]
    /\ DeleteIfDead(old[t].ptr)
    /\ Goto(t, After(pc[t]))
    /\ UNCHANGED <<data, next, head, tail, local, taken>>

ReleaseRef(t) ==
    /\ pc[t] \in {"release", "help release", "pop release", "give up"}
    /\ Touch(old[t].ptr)
    /\ inner' = [inner EXCEPT ![old[t].ptr] = Wrap(@ - 1)]
    /\ UNCHANGED outer
    /\ DeleteIfDead(old[t].ptr)
    /\ Goto(t, After(pc[t]))
    /\ ret' = IF pc[t] = "give up" THEN [ret EXCEPT ![t] = Empty] ELSE ret
    /\ UNCHANGED <<data, next, head, tail, old, new, aim, taken>>

-----------------------------------------------------------------------------
(* pop.                                                                    *)

CountHead(t) ==
    /\ pc[t] = "count head" \/ (pc[t] = "start" /\ t \in Poppers)
    /\ head' = [head EXCEPT !.cnt = Wrap(@ + 1)]
    /\ old' = [old EXCEPT ![t] = head']
    /\ Goto(t, "read tail")
    /\ UNCHANGED <<heap, nodes, tail, new, aim, ret, taken, fault>>

ReachedTail_never(t) == FALSE
ReachedTail(t) == old[t].ptr = tail.ptr

ReadTail(t) ==
    /\ pc[t] = "read tail"
    /\ Goto(t, IF ReachedTail(t) THEN "give up" ELSE "read next")
    /\ UNCHANGED <<heap, nodes, head, tail, local, taken, fault>>

ReadNext(t) ==
    /\ pc[t] = "read next"
    /\ Touch(old[t].ptr)
    /\ new' = [new EXCEPT ![t] = next[old[t].ptr]]
    /\ Goto(t, "move head")
    /\ UNCHANGED <<heap, nodes, head, tail, old, aim, ret, taken>>

(* head.compare_exchange_strong(old_head, next); a failure reloads old_head*)
(* but releases the node this call counted.                                *)
SameHead_any_count(t) == head.ptr = old[t].ptr
SameHead(t) == head = old[t]

MoveHead(t) ==
    /\ pc[t] = "move head"
    /\ IF SameHead(t)
         THEN /\ head' = Counted(new[t], 1)
              /\ taken' = Append(taken, data[old[t].ptr])
              /\ Goto(t, "take data")
         ELSE /\ Goto(t, "pop release")
              /\ UNCHANGED <<head, taken>>
    /\ UNCHANGED <<heap, nodes, tail, local, fault>>

TakeData(t) ==
    /\ pc[t] = "take data"
    /\ Touch(old[t].ptr)
    /\ ret' = [ret EXCEPT ![t] = data[old[t].ptr]]
    /\ data' = [data EXCEPT ![old[t].ptr] = Null]
    /\ Goto(t, "pop free")
    /\ UNCHANGED <<heap, next, inner, outer, head, tail, old, new, aim, taken>>

-----------------------------------------------------------------------------

Step(t) ==
    \/ PushStart(t) \/ CountTail(t) \/ SetData(t) \/ Link(t) \/ Help(t) \/ Swing(t)
    \/ FreeExternalCounter(t) \/ ReleaseRef(t)
    \/ CountHead(t) \/ ReadTail(t) \/ ReadNext(t) \/ MoveHead(t) \/ TakeData(t)

Next == ~fault /\ \E t \in Threads : Step(t)

Spec == Init /\ [][Next]_vars

(* Every call that has begun keeps running.                                *)
FairSpec == Spec /\ \A t \in Threads : WF_vars(~fault /\ pc[t] # "start" /\ Step(t))

-----------------------------------------------------------------------------

CountedPtrs == [ptr : Nodes \cup {Null}, cnt : 0 .. CountMod - 1]

\* The type invariant: every variable has its C++ type's values.
TypeOK ==
    /\ heap \subseteq Nodes
    /\ data \in [Nodes -> Pushers \cup {Null, Garbage}]
    /\ next \in [Nodes -> Nodes \cup {Null}]
    /\ inner \in [Nodes -> 0 .. CountMod - 1] /\ outer \in [Nodes -> 0 .. 3]
    /\ head \in CountedPtrs /\ tail \in CountedPtrs
    /\ pc \in [Threads -> Pcs] /\ old \in [Threads -> CountedPtrs]
    /\ new \in [Threads -> Nodes \cup {Null}] /\ aim \in [Threads -> Nodes \cup {Null}]
    /\ ret \in [Poppers -> Pushers \cup {Null, Garbage, Empty}]
    /\ fault \in BOOLEAN

\* No call uses or deletes a node that another call has deleted, whatever
\* addresses the allocator reuses: the split counts keep a node alive for
\* every call that still holds its address.
NoUseAfterFree == ~fault

(* The node i links behind the head.                                       *)
Behind[i \in 0 .. Cardinality(Nodes)] ==
    IF i = 0 THEN head.ptr
    ELSE IF Behind[i - 1] = Null THEN Null ELSE next[Behind[i - 1]]

Chain == {Behind[i] : i \in DOMAIN Behind} \ {Null}

Ended == \A t \in Threads : pc[t] \in {"start", "end"}

\* When no call is in progress every node in memory is in the list: no node
\* leaks, and the list has no deleted one.
NoNodeLeaks == Ended => heap = Chain

\* Both: no node is used after it is freed, and none leaks.
NodesSound == NoUseAfterFree /\ NoNodeLeaks

\* A pop that returns gives back the value that was at the front when it moved
\* the head, which no other pop returns and no push overwrites, or nothing; it
\* never returns what happened to lie in a node's memory.
PopsReturnTaken ==
    \A t \in Poppers : pc[t] = "end" =>
        \/ ret[t] = Empty
        \/ /\ \E i \in DOMAIN taken : taken[i] = ret[t] /\ ret[t] \in Pushers
           /\ \A u \in Poppers : ret[u] = ret[t] => u = t

\* Every call returns once the others have stopped or are done.
CallsReturn == \A t \in Threads : pc[t] = "count head" \/ pc[t] = "count tail" ~> pc[t] = "end"

-----------------------------------------------------------------------------
(* A push takes effect when the tail moves past its node, a pop when the   *)
(* head does.                                                              *)

Stored ==
    LET last == CHOOSE i \in DOMAIN Behind : Behind[i] = tail.ptr
    IN  [i \in 1 .. last |-> data[Behind[i - 1]]]

\* A value whose push has returned is in the queue, unless a pop took it.
NoPushLost ==
    \A t \in Pushers : pc[t] = "end" =>
        \/ \E i \in DOMAIN Stored : Stored[i] = t
        \/ \E i \in DOMAIN taken : taken[i] = t

Fifo == INSTANCE FifoQueue WITH
    Values <- Pushers, items <- Stored, out <- taken

\* The values in the list leave it in the order in which they entered it, each
\* one at most once, and only by a pop.
ImplementsFifo == Fifo!Spec

=============================================================================
