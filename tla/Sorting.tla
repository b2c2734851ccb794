------------------------------ MODULE Sorting -------------------------------
(***************************************************************************)
(* Heaps and sorting: include/MSTL/core/heap.hpp and the sorts of          *)
(* core/algo.hpp, ext/sort.hpp and ext/leonardo_heap.hpp, and the          *)
(* priority_queue of core/queue.hpp, on random access iterators that are   *)
(* classes (vector's). An element is a key and a number that tells equal   *)
(* keys apart. Heaps count from 0 as the code does, ranges from 1 with     *)
(* their last position excluded. Lost is the range after a loop ran out of *)
(* it or does not end.                                                     *)
(***************************************************************************)
EXTENDS Integers, Sequences, FiniteSets, SequencesExt, FiniteSetsExt, Functions

CONSTANTS
    Keys,       \* the keys, from 0
    MaxLen,     \* bound: the elements of an input
    Longer,     \* longer inputs
    Threshold,  \* SORT_DISPATCH_THRESHOLD (16)
    Radix       \* 10

VARIABLE st     \* kind: what v is, the keys of an input or a priority_queue's container

Lost     == <<>>
End(v)   == Len(v) + 1
Lt(x, y) == x[1] < y[1]
Swap(v, i, j)  == [v EXCEPT ![i] = v[j], ![j] = v[i]]
From(a, b)     == IF b < a THEN <<>> ELSE [k \in 1 .. b - a + 1 |-> a + k - 1]
First(S, else) == IF S = {} THEN else ELSE Min(S)
Within(v, f, l, u) == SubSeq(v, 1, f - 1) \o u \o SubSeq(v, l, Len(v))

-----------------------------------------------------------------------------
(* Binary heaps.                                                           *)

HeapUntil(v) == First({c \in 1 .. Len(v) - 1 : Lt(v[(c - 1) \div 2 + 1], v[c + 1])}, Len(v))

RECURSIVE PushHeapAux(_, _, _, _), Adjust(_, _, _, _, _)
PushHeapAux(v, hole, top, x) ==
    LET parent == (hole - 1) \div 2
    IN  IF hole > top /\ Lt(v[parent + 1], x)
        THEN PushHeapAux([v EXCEPT ![hole + 1] = v[parent + 1]], parent, top, x)
        ELSE [v EXCEPT ![hole + 1] = x]
PushHeap(v) == PushHeapAux(v, Len(v) - 1, 0, Last(v))

Adjust(v, hole, top, len, x) ==     \* the hole goes down to a leaf, x up from there
    LET s == 2 * hole + 2
        c == IF s < len /\ ~Lt(v[s + 1], v[s]) THEN s ELSE s - 1
    IN  IF s < len THEN Adjust([v EXCEPT ![hole + 1] = v[c + 1]], c, top, len, x)
        ELSE IF s = len THEN PushHeapAux([v EXCEPT ![hole + 1] = v[s]], s - 1, top, x)
        ELSE PushHeapAux(v, hole, top, x)
AdjustHeap(v, hole, len, x) == Adjust(v, hole, hole, len, x)

PopInto(v, len, i) == AdjustHeap([v EXCEPT ![i] = v[1]], 0, len, v[i])  \* pop_heap_aux
PopHeap(v, len)  == PopInto(v, len - 1, len)
SortHeap(v, len) == FoldLeft(PopHeap, v, Reverse(From(2, len)))
MakeHeap(v, len) ==
    FoldLeft(LAMBDA u, p : AdjustHeap(u, p - 1, len, u[p]), v, Reverse(From(1, len \div 2)))

PartialSort(v, m) ==
    IF m = 0 THEN v
    ELSE SortHeap(FoldLeft(LAMBDA u, i : IF Lt(u[i], u[1]) THEN PopInto(u, m, i) ELSE u,
                           MakeHeap(v, m), From(m + 1, Len(v))), m)
PartialSortCopy(v, m) ==    \* into m free places
    LET n == Min({m, Len(v)})
    IN  IF n = 0 THEN <<>>
        ELSE SortHeap(FoldLeft(LAMBDA u, x : IF Lt(x, u[1]) THEN AdjustHeap(u, 0, n, x) ELSE u,
                               MakeHeap(SubSeq(v, 1, n), n), SubSeq(v, n + 1, Len(v))), n)

-----------------------------------------------------------------------------
(* Sorts by moving elements past their neighbours.                         *)

Pass(v, l, r)     == FoldLeft(LAMBDA u, i : IF Lt(u[i + 1], u[i]) THEN Swap(u, i, i + 1) ELSE u, v, From(l, r - 1))
BackPass(v, l, r) == FoldLeft(LAMBDA u, i : IF Lt(u[i], u[i - 1]) THEN Swap(u, i, i - 1) ELSE u, v, Reverse(From(l + 1, r)))
RECURSIVE BubbleSort(_, _), CocktailSort(_, _, _), Sink(_, _, _), ShellSort(_, _)
BubbleSort(v, end) ==
    LET u == Pass(v, 1, end) IN IF end < 2 \/ u = v THEN v ELSE BubbleSort(u, end - 1)
CocktailSort(v, l, r) ==
    LET u == Pass(v, l, r)
        w == BackPass(u, l, r - 1)
    IN  IF u = v \/ w = u THEN w ELSE CocktailSort(w, l + 1, r - 1)
Least(v, i) == Min({j \in i .. Len(v) : \A k \in i .. Len(v) : ~Lt(v[k], v[j])})
SelectSort(v) == FoldLeft(LAMBDA u, i : Swap(u, i, Least(u, i)), v, From(1, Len(v)))

Sink(v, j, gap) == IF j > gap /\ Lt(v[j], v[j - gap]) THEN Sink(Swap(v, j, j - gap), j - gap, gap) ELSE v
ShellSort(v, gap) ==
    IF gap = 0 THEN v
    ELSE ShellSort(FoldLeft(LAMBDA u, i : Sink(u, i, gap), v, From(gap + 1, Len(v))), gap \div 2)

(* __insertion_sort_aux looks for a smaller element and not for the front. *)
RECURSIVE Unguarded(_, _)
Unguarded(v, j) ==
    IF v = Lost \/ j = 1 THEN Lost
    ELSE IF Lt(v[j], v[j - 1]) THEN Unguarded(Swap(v, j, j - 1), j - 1) ELSE v
ToFront(v, f, i)  == Within(v, f, i + 1, <<v[i]>> \o SubSeq(v, f, i - 1))
InsertOne(v, f, i) == IF v = Lost THEN v ELSE IF Lt(v[i], v[f]) THEN ToFront(v, f, i) ELSE Unguarded(v, i)
InsertionSort(v, f, l) == FoldLeft(LAMBDA u, i : InsertOne(u, f, i), v, From(f + 1, l - 1))

-----------------------------------------------------------------------------
(* Sorts by partition. The pivot is a reference to the element at p, which *)
(* a swap may change.                                                      *)

RECURSIVE LomutoPartition(_, _, _, _)
LomutoPartition(v, f, l, p) ==
    LET a == First({i \in f .. Len(v) : ~Lt(v[i], v[p])}, 0)
        b == Max({0} \cup {i \in 1 .. l - 1 : ~Lt(v[p], v[i])})
    IN  IF f >= l THEN [v |-> v, at |-> f]
        ELSE IF a = 0 \/ b = 0 THEN [v |-> Lost, at |-> 0]
        ELSE IF a >= b THEN [v |-> v, at |-> a]
        ELSE LomutoPartition(Swap(v, a, b), a + 1, b, p)

MedianAt(v, a, b, c) ==
    IF Lt(v[a], v[b]) THEN IF Lt(v[b], v[c]) THEN b ELSE IF Lt(v[a], v[c]) THEN c ELSE a
    ELSE IF Lt(v[a], v[c]) THEN a ELSE IF Lt(v[b], v[c]) THEN c ELSE b
Cut(v, f, l) == LomutoPartition(v, f, l, MedianAt(v, f, f + (l - f) \div 2, l - 1))

RECURSIVE IntroSort(_, _, _, _, _), QuickSort(_, _, _), NthElement(_, _, _, _, _)
IntroSort(v, f, l, depth, least) ==     \* least: ranges that are left as they are
    IF v = Lost \/ l - f <= least THEN v
    ELSE IF depth = 0 THEN Within(v, f, l, PartialSort(SubSeq(v, f, l - 1), l - f))
    ELSE LET c == Cut(v, f, l)
         IN  IF c.v = Lost THEN Lost
             ELSE IntroSort(IntroSort(c.v, c.at, l, depth - 1, least), f, c.at, depth - 1, least)
IntrospectiveSort(v, depth) == IntroSort(v, 1, End(v), depth, 0)

QuickSort(v, f, l) ==
    IF v = Lost \/ f >= l THEN v
    ELSE LET c == LomutoPartition(v, f, l, l - 1)
         IN  IF c.v = Lost \/ c.at > l - 1 THEN Lost
             ELSE QuickSort(QuickSort(Swap(c.v, c.at, l - 1), f, c.at), c.at + 1, l)

Lg(n) == Max({k \in 0 .. n : 2 ^ k <= n})       \* cursory_lg2
Sort(v) ==
    LET u == IntroSort(v, 1, End(v), 2 * Lg(Len(v)), Threshold)
    IN  IF v = <<>> \/ u = Lost THEN Lost
        ELSE IF Len(v) <= Threshold THEN InsertionSort(u, 1, End(v))
        ELSE FoldLeft(Unguarded, InsertionSort(u, 1, Threshold + 1), From(Threshold + 1, Len(v)))

NthElement(v, nth, f, l, rounds) ==     \* rounds: more than the range has is no end
    IF l - f <= 3 THEN InsertionSort(v, f, l)
    ELSE LET c == Cut(v, f, l)
         IN  IF rounds = 0 \/ c.v = Lost THEN Lost
             ELSE IF c.at <= nth THEN NthElement(c.v, nth, c.at, l, rounds - 1)
             ELSE NthElement(c.v, nth, f, c.at, rounds - 1)

-----------------------------------------------------------------------------
(* Sorts by counting. The last element with a key takes the last place.    *)

ByCount(v, place, least, most) ==     \* place: the number by which each key is sorted
    LET Upto(d) == Cardinality({i \in DOMAIN v : place[v[i][1]] \in least .. d})
        step(r, i) == LET d == place[v[i][1]] IN [out |-> [r.out EXCEPT ![r.count[d]] = v[i]], count |-> [r.count EXCEPT ![d] = @ - 1]]
    IN  FoldLeft(step, [out |-> v, count |-> [d \in least .. most |-> Upto(d)]], Reverse(From(1, Len(v)))).out
CountingSort(v) ==
    LET keys == {v[i][1] : i \in DOMAIN v}
    IN  IF v = <<>> THEN v ELSE ByCount(v, [k \in keys |-> k], Min(keys), Max(keys))

RECURSIVE Digits(_), RadixFrom(_, _, _, _)
Digits(n) == IF n = 0 THEN 0 ELSE 1 + Digits(n \div Radix)
RadixFrom(v, d, last, up) ==
    LET digit == [k \in {x[1] : x \in ToSet(v)} |->
                    LET c == k \div Radix ^ (d - 1) % Radix IN IF up THEN c ELSE Radix - 1 - c]
    IN  IF d > last THEN v ELSE RadixFrom(ByCount(v, digit, 0, Radix - 1), d + 1, last, up)
RadixSort(v, up) ==     \* radix_sort_less, radix_sort_greater
    IF v = <<>> THEN v ELSE RadixFrom(v, 1, Digits(Max({v[i][1] : i \in DOMAIN v})), up)

-----------------------------------------------------------------------------
(* Leonardo heaps. h: the levels, a vector that only grows, and toplevel.  *)

leonardo == <<1, 1, 3, 5, 9, 15>>
Leonardo(n) == leonardo[n + 1]
Grow(h) ==
    LET top == h.levels[h.top + 1]
    IN  IF h.top > 0 /\ h.levels[h.top] - top = 1
        THEN [levels |-> [h.levels EXCEPT ![h.top] = @ + 1], top |-> h.top - 1]
        ELSE [levels |-> Append(h.levels, IF top # 1 THEN 1 ELSE 0), top |-> h.top + 1]
Shrink(h) ==
    LET top == h.levels[h.top + 1]
    IN  IF top <= 1 THEN [h EXCEPT !.top = @ - 1]
        ELSE [levels |-> Append([h.levels EXCEPT ![h.top + 1] = @ - 1], top - 2), top |-> h.top + 1]

RECURSIVE AlongRoots(_, _, _, _), IntoHeap(_, _, _)
Children(cur, level) == {cur - 1 - Leonardo(level - 2), cur - 1}
AlongRoots(v, cur, i, levels) ==
    LET level == levels[i + 1]
        prev  == cur - Leonardo(level)
    IN  IF i > 0 /\ (IF prev < 0 THEN TRUE ELSE Lt(v[cur + 1], v[prev + 1])
                        /\ ~(level > 1 /\ \E c \in Children(cur, level) : Lt(v[prev + 1], v[c + 1])))
        THEN IF prev < 0 THEN [v |-> Lost] ELSE AlongRoots(Swap(v, cur + 1, prev + 1), prev, i - 1, levels)
        ELSE [v |-> v, cur |-> cur, level |-> level]
IntoHeap(v, cur, level) ==
    LET c1  == cur - 1 - Leonardo(level - 2)
        c2  == cur - 1
        big == IF Lt(v[cur + 1], v[c1 + 1]) THEN c1 ELSE cur
    IN  IF level < 2 THEN v
        ELSE IF c1 < 0 THEN Lost
        ELSE IF Lt(v[big + 1], v[c2 + 1]) THEN IntoHeap(Swap(v, cur + 1, c2 + 1), c2, level - 2)
        ELSE IF big = c1 THEN IntoHeap(Swap(v, cur + 1, c1 + 1), c1, level - 1)
        ELSE v
AdjustLeonardo(v, cur, i, levels) ==
    IF v = Lost \/ cur < 0 THEN Lost
    ELSE LET r == AlongRoots(v, cur, i, levels) IN IF r.v = Lost THEN Lost ELSE IntoHeap(r.v, r.cur, r.level)

MakeLeonardo(v) ==
    FoldLeft(LAMBDA r, i : LET h == Grow(r.h) IN [v |-> AdjustLeonardo(r.v, i, h.top, h.levels), h |-> h],
             [v |-> v, h |-> [levels |-> <<1>>, top |-> 0]], From(1, Len(v) - 1))
ShrinkAt(r, i) ==
    LET h == Shrink(r.h)
        u == AdjustLeonardo(r.v, i - Leonardo(h.levels[h.top + 1]), h.top - 1, h.levels)
    IN  IF r.v = Lost \/ h.top < 0 THEN [v |-> Lost, h |-> r.h]
        ELSE [h |-> h, v |-> IF h.top < r.h.top THEN r.v ELSE AdjustLeonardo(u, i, h.top, h.levels)]
(* size - 2 and i > 0 are of size_t: one element is walked from 2^64 - 1.  *)
SmoothSort(v) ==
    IF Len(v) = 1 THEN Lost
    ELSE FoldLeft(ShrinkAt, MakeLeonardo(MakeLeonardo(v).v), Reverse(From(1, Len(v) - 2))).v

-----------------------------------------------------------------------------
(* Every input, and a priority_queue under every sequence of calls.        *)

InitSorting == st \in [kind : {"input", "queue"}, v : {<<>>}] \cup [kind : {"input"}, v : Longer]
OneMore ==
    /\ st.kind = "input" /\ Len(st.v) < MaxLen
    /\ \E k \in Keys : st' = [st EXCEPT !.v = Append(@, k)]
Elements(s) == FoldLeft(LAMBDA r, k : Append(r, <<k, Len(r) + 1>>), <<>>, s)
KeysOf(v)   == [i \in DOMAIN v |-> v[i][1]]
PriorityPush ==
    /\ st.kind = "queue" /\ Len(st.v) < MaxLen
    /\ \E k \in Keys : st' = [st EXCEPT !.v = KeysOf(PushHeap(Elements(Append(@, k))))]
PriorityPop ==
    /\ st.kind = "queue" /\ st.v # <<>>
    /\ st' = [st EXCEPT !.v = KeysOf(Front(PopHeap(Elements(@), Len(@))))]
NextSorting == OneMore \/ PriorityPush \/ PriorityPop

V == Elements(st.v)
Before(x, y)    == Lt(x, y) \/ (~Lt(y, x) /\ x[2] < y[2])
Ordered(v)      == \A i, j \in DOMAIN v : i < j => ~Lt(v[j], v[i])
Same(v, w)      == Len(v) = Len(w) /\ Range(v) = Range(w)
SortsIt(v)      == Same(v, V) /\ Ordered(v)
SortsStably(v)  == SortsIt(v) /\ \A i, j \in DOMAIN v : i < j => Before(v[i], v[j])
Smallest(v, m)  ==     \* place i has the i-th smallest key
    \A i \in 1 .. m : /\ Cardinality({k \in DOMAIN V : Lt(V[k], v[i])}) < i
                      /\ Cardinality({k \in DOMAIN V : ~Lt(v[i], V[k])}) >= i

\* A priority_queue is a heap of what was pushed and not popped, its top the greatest.
HeapsRight ==
    st.kind = "queue" =>
      /\ HeapUntil(V) = Len(V)
      /\ V # <<>> => /\ \A i \in DOMAIN V : ~Lt(V[1], V[i])
                     /\ Same(PopHeap(V, Len(V)), V) /\ Last(PopHeap(V, Len(V))) = V[1]
      /\ \A k \in Keys : LET w == Append(V, <<k, 0>>) IN Same(PushHeap(w), w)

\* The sorts sort, those that say so stably; partial_sort and its copy deliver the
\* smallest in order. smooth_sort leaves the range of one element.
SortsRight ==
    st.kind = "input" =>
      LET n == Len(V)
      IN  /\ SortsStably(BubbleSort(V, n)) /\ (n > 0 => SortsStably(CocktailSort(V, 1, n)))
          /\ SortsStably(InsertionSort(V, 1, End(V))) /\ SortsStably(CountingSort(V))
          /\ SortsStably(RadixSort(V, TRUE)) /\ SortsStably(Reverse(RadixSort(Reverse(V), FALSE)))
          /\ SortsIt(SelectSort(V)) /\ SortsIt(ShellSort(V, n \div 2))
          /\ SortsIt(QuickSort(V, 1, End(V))) /\ SortsIt(Sort(V))
          /\ SortsIt(SmoothSort(V)) <=> n # 1
          /\ HeapUntil(MakeHeap(V, n)) = n
          /\ \A m \in 0 .. n :
               /\ LET u == PartialSort(V, m) IN Same(u, V) /\ Smallest(u, m)
               /\ Smallest(PartialSortCopy(V, m), m)

\* The pivot of introspective_sort and nth_element is a reference into the range that
\* the partition swaps: up to five elements they are right, from six on they only
\* keep the elements. At depth 0 introspective_sort is a heap sort, and right.
PartitionsRight ==
    st.kind = "input" =>
      /\ SortsIt(IntrospectiveSort(V, 0))
      /\ \A d \in 1 .. 3 : LET u == IntrospectiveSort(V, d) IN Same(u, V) /\ (Len(V) < 6 => Ordered(u))
      /\ \A n \in DOMAIN V :
           LET u == NthElement(V, n, 1, End(V), Len(V))
           IN  /\ Same(u, V)
               /\ Len(V) < 6 => \A i \in 1 .. n, j \in n .. Len(V) : ~Lt(u[j], u[i])

SortsSound == HeapsRight /\ SortsRight /\ PartitionsRight

=============================================================================
