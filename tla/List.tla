-------------------------------- MODULE List --------------------------------
(***************************************************************************)
(* The list of include/MSTL/core/list.hpp: a ring of nodes with a head     *)
(* that holds no element, and a count. The calls are translated on the     *)
(* nodes; a state of the model keeps the elements in ring order and the    *)
(* counts, and every call is checked to leave rings whose next_ and prev_  *)
(* agree. An element is a pair of a key and a number that tells apart the  *)
(* elements with equal keys.                                               *)
(***************************************************************************)
EXTENDS Integers, Sequences, FiniteSets, SequencesExt

CONSTANTS
    Keys,       \* keys of the elements
    MaxLen,     \* bound: elements of a list
    MaxBoth,    \* bound: elements of the two lists
    MaxNew      \* bound: elements inserted by one call

VARIABLE st     \* a, b: the keys of two lists; na, nb: what their size() is

Heads == [a |-> 0, b |-> -1]
Up(n)       == [i \in 1 .. n |-> i]
Times(n, v) == [i \in 1 .. n |-> v]

(* The two rings of a state: the nodes of a are 1 .. |a|, those of b come  *)
(* after them; m.head[L] is the head of the list L.                        *)
Link(m, p, q) == [m EXCEPT !.next[p] = q, !.prev[q] = p]
LinkAll(m, ns) == FoldLeft(LAMBDA e, i : Link(e, ns[i], ns[i + 1]), m, Up(Len(ns) - 1))
Memory(s) ==
    LET n     == Len(s.a)
        nodes == 0 - 1 .. n + Len(s.b)
        blank == [next |-> [p \in nodes |-> p], prev |-> [p \in nodes |-> p],
                  data |-> [p \in nodes |-> <<0, p>>], head |-> Heads, size |-> [a |-> s.na, b |-> s.nb]]
        m == [blank EXCEPT !.data = [p \in nodes |->
                 IF p < 1 THEN @[p] ELSE <<IF p <= n THEN s.a[p] ELSE s.b[p - n], p>>]]
        ring(h, from, to) == <<h>> \o [i \in 1 .. to - from |-> from + i] \o <<h>>
    IN  LinkAll(LinkAll(m, ring(0, 0, n)), ring(-1, n, n + Len(s.b)))

Begin(m, L) == m.next[m.head[L]]
End(m, L)   == m.head[L]
Less(x, y)  == x[1] < y[1]

(* The nodes from p to the head h: ++ until end(). A ring that does not    *)
(* come back to h within the number of nodes is cut off.                   *)
RECURSIVE Walk(_, _, _, _)
Walk(m, p, h, fuel) ==
    IF p = h \/ fuel = 0 THEN <<>> ELSE <<p>> \o Walk(m, m.next[p], h, fuel - 1)
Nodes(m, L)    == Walk(m, Begin(m, L), m.head[L], Cardinality(DOMAIN m.next))
Elements(m, L) == LET ns == Nodes(m, L) IN [i \in DOMAIN ns |-> m.data[ns[i]]]
WellLinked(m, L) ==
    LET ns == Nodes(m, L)
        h  == m.head[L]
        Q  == <<h>> \o ns \o <<h>>
    IN  \A i \in 1 .. Len(Q) - 1 : m.next[Q[i]] = Q[i + 1] /\ m.prev[Q[i + 1]] = Q[i]

-----------------------------------------------------------------------------
(* The calls, for the list L.                                              *)

(* empty() is also true of a list with one element.                        *)
Empty(m, L) == Begin(m, L) = End(m, L) \/ m.next[Begin(m, L)] = End(m, L)
Fresh(m) == CHOOSE p \in 1 .. Cardinality(DOMAIN m.next) : p \notin DOMAIN m.next
Without(f, p) == [q \in DOMAIN f \ {p} |-> f[q]]
With(f, p, v) == [q \in DOMAIN f \cup {p} |-> IF q = p THEN v ELSE f[q]]

Emplace(m, L, pos, v) ==
    LET p == Fresh(m)
        u == [m EXCEPT !.next = With(@, p, p), !.prev = With(@, p, p), !.data = With(@, p, v), !.size[L] = @ + 1]
    IN  Link(Link(u, m.prev[pos], p), p, pos)

(* Each element goes before the one inserted last.                         *)
Insertions(m, L, pos, vs) ==
    FoldLeft(LAMBDA e, v : [m |-> Emplace(e.m, L, e.pos, v), pos |-> Fresh(e.m)],
             [m |-> m, pos |-> pos], Reverse(vs)).m
InsertN(m, L, pos, n, v) == Insertions(m, L, pos, Times(n, v))
(* The loop over a range starts with --last: an empty range is not allowed.*)
InsertRange(m, L, pos, vs) == Insertions(m, L, pos, vs)
PushAll(m, L, vs) == FoldLeft(LAMBDA e, v : Emplace(e, L, End(e, L), v), m, vs)

Unlink(m, L, p) ==
    LET u == Link(m, m.prev[p], m.next[p])
    IN  [u EXCEPT !.next = Without(@, p), !.prev = Without(@, p), !.data = Without(@, p), !.size[L] = @ - 1]
Erase(m, L, p) == IF Empty(m, L) THEN m ELSE Unlink(m, L, p)
AfterErase(m, L, p) == IF Empty(m, L) THEN End(m, L) ELSE m.next[p]

RECURSIVE EraseRange(_, _, _, _)
EraseRange(m, L, p, q) ==
    IF p = q THEN m ELSE EraseRange(Erase(m, L, p), L, AfterErase(m, L, p), q)

RECURSIVE RemoveFrom(_, _, _, _)
RemoveFrom(m, L, p, k) ==
    IF p = End(m, L) THEN m
    ELSE IF m.data[p][1] = k THEN RemoveFrom(Erase(m, L, p), L, AfterErase(m, L, p), k)
    ELSE RemoveFrom(m, L, m.next[p], k)
RemoveKey(m, L, k) == RemoveFrom(m, L, Begin(m, L), k)

RECURSIVE UniqueFrom(_, _, _)
UniqueFrom(m, L, p) ==
    LET q == m.next[p]
    IN  IF p = End(m, L) THEN m
        ELSE IF q # End(m, L) /\ m.data[p][1] = m.data[q][1] THEN UniqueFrom(Erase(m, L, p), L, q)
        ELSE UniqueFrom(m, L, q)
Unique(m, L) == UniqueFrom(m, L, Begin(m, L))

Clear(m, L) == FoldLeft(LAMBDA e, p : Unlink(e, L, p), m, Nodes(m, L))

(* transfer moves [first, last) before pos; it changes no count.           *)
Transfer_swapped(m, pos, first, last) ==
    LET u == [m EXCEPT !.next[m.prev[last]] = pos]
        v == [u EXCEPT !.next[m.prev[first]] = last]
        w == [v EXCEPT !.next[m.prev[pos]] = first]
    IN  IF pos = last THEN m
        ELSE [w EXCEPT !.prev[last] = m.prev[first], !.prev[first] = m.prev[pos]]
Transfer(m, pos, first, last) ==
    LET u == [m EXCEPT !.next[m.prev[last]] = pos]
        v == [u EXCEPT !.next[m.prev[first]] = last]
        w == [v EXCEPT !.next[m.prev[pos]] = first]
    IN  IF pos = last THEN m
        ELSE [w EXCEPT !.prev[pos] = m.prev[last], !.prev[last] = m.prev[first], !.prev[first] = m.prev[pos]]

SpliceAll(m, L, pos, X) == IF Empty(m, X) THEN m ELSE Transfer(m, pos, Begin(m, X), End(m, X))
SpliceOne(m, pos, i) == IF i = pos \/ m.next[i] = pos THEN m ELSE Transfer(m, pos, i, m.next[i])
SpliceRange(m, pos, first, last) == IF first = last THEN m ELSE Transfer(m, pos, first, last)

RECURSIVE MergeFrom(_, _, _, _, _)
MergeFrom(m, L, X, p, q) ==
    IF p # End(m, L) /\ q # End(m, X)
      THEN IF ~Less(m.data[q], m.data[p]) THEN MergeFrom(m, L, X, m.next[p], q)
           ELSE MergeFrom(Transfer(m, p, q, m.next[q]), L, X, p, m.next[q])
      ELSE IF q # End(m, X) THEN Transfer(m, End(m, L), q, End(m, X)) ELSE m
Merge(m, L, X) == MergeFrom(m, L, X, Begin(m, L), Begin(m, X))

RECURSIVE ReverseFrom(_, _, _, _)
ReverseFrom(m, L, pos, p) ==
    IF p = End(m, L) THEN m ELSE ReverseFrom(Transfer(m, pos, p, m.next[p]), L, p, m.next[p])
ReverseAll(m, L) == IF Empty(m, L) THEN m ELSE ReverseFrom(m, L, Begin(m, L), m.next[Begin(m, L)])

(* sort: insertion of the values, from the second element on.              *)
RECURSIVE Sink(_, _, _, _)
Sink(m, L, p, t) ==
    IF p # End(m, L) /\ Less(t, m.data[p]) THEN Sink([m EXCEPT !.data[m.next[p]] = m.data[p]], L, m.prev[p], t)
    ELSE [m EXCEPT !.data[m.next[p]] = t]
Sort(m, L) ==
    IF Empty(m, L) THEN m
    ELSE FoldLeft(LAMBDA e, p : Sink(e, L, e.prev[p], e.data[p]), m, Tail(Nodes(m, L)))

Swap(m) == [m EXCEPT !.head = [a |-> @.b, b |-> @.a], !.size = [a |-> @.b, b |-> @.a]]

MoveAssign(m) == Swap(Clear(m, "a"))
Assign(m, vs) == IF vs = <<>> THEN Clear(m, "a") ELSE InsertRange(Clear(m, "a"), "a", Begin(Clear(m, "a"), "a"), vs)

-----------------------------------------------------------------------------
(* The steps.                                                              *)

KeysOf(vs) == [i \in DOMAIN vs |-> vs[i][1]]
Put(m) ==
    /\ \A L \in {"a", "b"} : Len(Nodes(m, L)) <= MaxLen
    /\ Len(Nodes(m, "a")) + Len(Nodes(m, "b")) <= MaxBoth
    /\ m.size.a \in 0 - MaxLen .. 2 * MaxLen
    /\ st' = [a |-> KeysOf(Elements(m, "a")), b |-> KeysOf(Elements(m, "b")), na |-> m.size.a, nb |-> m.size.b]

now == Memory(st)
Spots(m, L)  == Range(Nodes(m, L)) \cup {m.head[L]}
Spans(m, L)  == {r \in Spots(m, L) \X Spots(m, L) :
                    r[2] \in Range(Walk(m, r[1], m.head[L], 2 * MaxLen)) \cup {m.head[L]}}
Places(L) == Spots(now, L)
Ranges(L) == Spans(now, L)
Some(k)   == {Times(n, <<k, 0>>) : n \in 1 .. MaxNew}
Sorted(vs) == \A i, j \in DOMAIN vs : i < j => ~Less(vs[j], vs[i])

InitList == st = [a |-> <<>>, b |-> <<>>, na |-> 0, nb |-> 0]

Insert == \E p \in Places("a"), k \in Keys : Put(Emplace(now, "a", p, <<k, 0>>)) \/ Put(InsertN(now, "a", p, MaxNew, <<k, 0>>))
Remake == \E k \in Keys : \E vs \in Some(k) : Put(Assign(now, vs)) \/ Put(PushAll(Clear(now, "a"), "a", vs))
Drop   == \/ \E p \in Places("a") \ {End(now, "a")} : Put(Erase(now, "a", p))
          \/ \E r \in Ranges("a") : Put(EraseRange(now, "a", r[1], r[2]))
          \/ Put(Clear(now, "a"))
Filter == Put(Unique(now, "a")) \/ \E k \in Keys : Put(RemoveKey(now, "a", k))
Splice == \E p \in Places("a") :
             \/ Put(SpliceAll(now, "a", p, "b"))
             \/ \E i \in Places("b") \ {End(now, "b")} : Put(SpliceOne(now, p, i))
             \/ \E r \in Ranges("b") : Put(SpliceRange(now, p, r[1], r[2]))
Rotate == \E p \in Places("a") : \E i \in Places("a") \ {End(now, "a")} : Put(SpliceOne(now, p, i))
MergeB == /\ Sorted(Elements(now, "a")) /\ Sorted(Elements(now, "b"))
          /\ Put(Merge(now, "a", "b")) \/ Put(Clear(Merge(now, "a", "b"), "b"))
Order  == Put(Sort(now, "a")) \/ Put(ReverseAll(now, "a"))
Exchange == Put(Swap(now)) \/ Put(MoveAssign(now))

NextList == Insert \/ Remake \/ Drop \/ Filter \/ Splice \/ Rotate \/ MergeB \/ Order \/ Exchange

-----------------------------------------------------------------------------

Holds(m, va, vb) ==
    /\ WellLinked(m, "a") /\ WellLinked(m, "b")
    /\ Elements(m, "a") = va /\ Elements(m, "b") = vb
Cut(vs, i, j) == SubSeq(vs, 1, i - 1) \o SubSeq(vs, j, Len(vs))
IndexIn(ns, p) == IF p \in Range(ns) THEN CHOOSE i \in DOMAIN ns : ns[i] = p ELSE Len(ns) + 1
Placed(vs, i, ws) == SubSeq(vs, 1, i - 1) \o ws \o SubSeq(vs, i, Len(vs))

(* The rings stay whole under every call, and a call leaves the elements   *)
(* its definition says: sort and merge keep equal elements in order. What  *)
(* empty() says of a single element shows: erase leaves it in the list, so *)
(* erasing everything, and remove of what all elements equal, leave one,   *)
(* and splice(position, x) leaves a single element in x.                   *)
ListSound ==
    LET m  == now
        va == Elements(m, "a")
        vb == Elements(m, "b")
        ns == Nodes(m, "a")
        ms == Nodes(m, "b")
        n  == Len(ns)
        left == IF n = 0 THEN <<>> ELSE <<va[n]>>
        x  == <<1, 99>>
        Kept(k) == SelectSeq(va, LAMBDA v : v[1] # k)
    IN  /\ Holds(m, va, vb)
        /\ \A p \in Spots(m, "a") :
             LET i == IndexIn(ns, p)
             IN  /\ \A c \in 0 .. MaxNew : Holds(InsertN(m, "a", p, c, x), Placed(va, i, Times(c, x)), vb)
                 /\ Holds(InsertRange(m, "a", p, <<x, <<2, 99>>>>), Placed(va, i, <<x, <<2, 99>>>>), vb)
                 /\ p # End(m, "a") => Holds(Erase(m, "a", p), IF n = 1 THEN va ELSE RemoveAt(va, i), vb)
                 /\ IF Len(ms) = 1 THEN SpliceAll(m, "a", p, "b") = m
                    ELSE Holds(SpliceAll(m, "a", p, "b"), Placed(va, i, vb), <<>>)
                 /\ \A j \in DOMAIN ms : Holds(SpliceOne(m, p, ms[j]), Placed(va, i, <<vb[j]>>), RemoveAt(vb, j))
                 /\ \A j \in DOMAIN ns :
                      LET to == IF j < i THEN i - 1 ELSE i
                      IN  Holds(SpliceOne(m, p, ns[j]), Placed(RemoveAt(va, j), to, <<va[j]>>), vb)
                 /\ \A r \in Spans(m, "b") :
                      LET j == IndexIn(ms, r[1])
                          k == IndexIn(ms, r[2])
                      IN  Holds(SpliceRange(m, p, r[1], r[2]), Placed(va, i, SubSeq(vb, j, k - 1)), Cut(vb, j, k))
        /\ \A r \in Spans(m, "a") :
             LET i == IndexIn(ns, r[1])
                 j == IndexIn(ns, r[2])
                 all == i = 1 /\ j = n + 1
             IN  Holds(EraseRange(m, "a", r[1], r[2]), IF all THEN left ELSE Cut(va, i, j), vb)
        /\ \A k \in Keys : Holds(RemoveKey(m, "a", k), IF Kept(k) = <<>> THEN left ELSE Kept(k), vb)
        /\ LET EndsRun(i) == i = n \/ va[i + 1][1] # va[i][1]
           IN  Holds(Unique(m, "a"), [i \in 1 .. Cardinality({j \in 1 .. n : EndsRun(j)}) |->
                        va[CHOOSE j \in 1 .. n : EndsRun(j) /\ Cardinality({h \in 1 .. j : EndsRun(h)}) = i]], vb)
        /\ Holds(ReverseAll(m, "a"), Reverse(va), vb)
        /\ Holds(Sort(m, "a"), SortSeq(va, LAMBDA v, w : v[1] < w[1] \/ (v[1] = w[1] /\ v[2] < w[2])), vb)
        /\ Sorted(va) /\ Sorted(vb) =>
              Holds(Merge(m, "a", "b"), SortSeq(va \o vb, LAMBDA v, w : v[1] < w[1] \/ (v[1] = w[1] /\ v[2] < w[2])), <<>>)
        /\ Holds(Assign(m, vb), vb, vb) /\ Holds(MoveAssign(m), vb, <<>>)

(* Splicing and merging move no count with the nodes, so size() of one of  *)
(* the lists becomes too small and of the other too large; what they say   *)
(* together is what they hold together.                                    *)
CountsAddUp == st.na + st.nb = Len(st.a) + Len(st.b)

=============================================================================
