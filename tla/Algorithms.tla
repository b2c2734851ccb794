----------------------------- MODULE Algorithms -----------------------------
(***************************************************************************)
(* The algorithms on ranges of include/MSTL/core/algo.hpp, algobase.hpp,   *)
(* numeric.hpp and algorithm.hpp, translated loop by loop on sequences and *)
(* compared with what they are for, on every pair of short inputs. A       *)
(* position counts from 1, and last is the position behind the end. An     *)
(* element is a key and a number that tells equal keys apart; comparisons  *)
(* see the key only. [v, at]: the range after the call and the end it returned; [v, ok]: the  *)
(* range, and FALSE when the loop left it.                                 *)
(***************************************************************************)
EXTENDS Integers, Sequences, FiniteSets, SequencesExt, FiniteSetsExt, Functions

CONSTANTS
    Keys,       \* the keys, from 1
    MaxTotal,   \* bound: the elements of the two inputs together
    Byte,       \* what one byte counts to (256)
    Threshhold  \* the longest range that reduce does not split

VARIABLE st     \* v, w: the keys of the two inputs

Up(n)    == [i \in 1 .. n |-> i]
End(v)   == Len(v) + 1
Zero     == <<0, 99>>
Lt(x, y) == x[1] < y[1]
Eq(x, y) == x[1] = y[1]
Swap(v, i, j)  == [v EXCEPT ![i] = v[j], ![j] = v[i]]
First(S, else) == IF S = {} THEN else ELSE Min(S)

-----------------------------------------------------------------------------
(* Searching.                                                              *)

Find(v, f, x) == First({i \in f .. Len(v) : Eq(v[i], x)}, End(v))
AdjacentFind(v) == First({i \in 1 .. Len(v) - 1 : Eq(v[i], v[i + 1])}, End(v))
Mismatch(v, w)  == First({i \in DOMAIN v : ~Eq(v[i], w[i])}, End(v))

(* The window starts at f and slides while more than Len(w) are left.      *)
RECURSIVE SearchFrom(_, _, _)
SearchFrom(v, w, f) ==
    IF \A j \in DOMAIN w : Eq(v[f + j - 1], w[j]) THEN f
    ELSE IF Len(v) - f + 1 = Len(w) THEN End(v) ELSE SearchFrom(v, w, f + 1)
Search(v, w) == IF Len(v) < Len(w) THEN End(v) ELSE SearchFrom(v, w, 1)

(* From one run of x to the next; the run is followed for count elements,  *)
(* which for count = 0 is to its end, as size_t wraps.                     *)
RECURSIVE SearchN(_, _, _, _)
SearchN(v, f, count, x) ==
    LET p == Find(v, f, x)
        e == First({i \in p + 1 .. Len(v) : ~Eq(v[i], x)}, End(v))
    IN  IF p = End(v) THEN p
        ELSE IF count > 0 /\ e - p >= count THEN p ELSE SearchN(v, e, count, x)

(* Both directions of iterator: a search backwards, and searches on and on.*)
FindEnd(v, w) ==
    LET p == Search(Reverse(v), Reverse(w))
    IN  IF w = <<>> \/ p = End(v) THEN End(v) ELSE End(v) - (p - 1) - Len(w)
RECURSIVE FindEndForward(_, _, _, _)
FindEndForward(v, w, f, result) ==
    LET p == Search(SubSeq(v, f, Len(v)), w) + f - 1
    IN  IF w = <<>> \/ p = End(v) THEN result ELSE FindEndForward(v, w, p + 1, p)
FindFirstOf(v, w) == First({i \in DOMAIN v : \E j \in DOMAIN w : Eq(v[i], w[j])}, End(v))

RECURSIVE Bound(_, _, _, _)
Bound(v, f, len, Beyond) ==      \* Beyond: the positions the comparison sends on
    LET half == len \div 2
    IN  IF len = 0 THEN f
        ELSE IF f + half \in Beyond THEN Bound(v, f + half + 1, len - half - 1, Beyond)
        ELSE Bound(v, f, half, Beyond)
Below(v, x) == {i \in DOMAIN v : Lt(v[i], x)}
Above(v, x) == {i \in DOMAIN v : Lt(x, v[i])}
LowerBound(v, x) == Bound(v, 1, Len(v), Below(v, x))
(* upper_bound goes on past the elements for which comp(value, *middle);   *)
(* its own comp is greater, equal_range passes less.                       *)
UpperBound(v, x)   == Bound(v, 1, Len(v), Below(v, x))
BinarySearch(v, x) == LET i == LowerBound(v, x) IN i # End(v) /\ ~Lt(x, v[i])

RECURSIVE EqualRange(_, _, _, _)
EqualRange(v, f, len, x) ==
    LET half == len \div 2
        m    == f + half
    IN  IF len = 0 THEN <<f, f>>
        ELSE IF Lt(v[m], x) THEN EqualRange(v, m + 1, len - half - 1, x)
        ELSE IF Lt(x, v[m]) THEN EqualRange(v, f, half, x)
        ELSE <<Bound(v, f, half, Below(v, x)), Bound(v, m + 1, len - half - 1, Above(v, x))>>

-----------------------------------------------------------------------------
(* Two sorted ranges.                                                      *)

RECURSIVE SetUnion(_, _), Merge(_, _), Includes(_, _)
SetUnion(v, w) ==
    IF v = <<>> \/ w = <<>> THEN v \o w
    ELSE IF Lt(v[1], w[1]) THEN <<v[1]>> \o SetUnion(Tail(v), w)
    ELSE IF Lt(w[1], v[1]) THEN <<w[1]>> \o SetUnion(v, Tail(w))
    ELSE <<v[1]>> \o SetUnion(Tail(v), Tail(w))
Merge(v, w) ==
    IF v = <<>> \/ w = <<>> THEN v \o w
    ELSE IF Lt(w[1], v[1]) THEN <<w[1]>> \o Merge(v, Tail(w))
    ELSE <<v[1]>> \o Merge(Tail(v), w)
Includes(v, w) ==
    IF v = <<>> \/ w = <<>> THEN w = <<>>
    ELSE ~Lt(w[1], v[1]) /\ Includes(Tail(v), IF Lt(v[1], w[1]) THEN w ELSE Tail(w))

RECURSIVE Less(_, _), BytesLess(_, _)
Less(v, w) ==       \* lexicographical_compare
    IF v = <<>> \/ w = <<>> THEN v = <<>> /\ w # <<>>
    ELSE Lt(v[1], w[1]) \/ (~Lt(w[1], v[1]) /\ Less(Tail(v), Tail(w)))
(* Contiguous ranges are compared byte by byte, and the low one comes first.*)
Bytes(x) == <<x[1] % Byte, x[1] \div Byte>>
BytesLess(v, w) ==
    IF v = <<>> \/ w = <<>> THEN v = <<>> /\ w # <<>>
    ELSE LET a == Bytes(v[1])  b == Bytes(w[1])
         IN  IF a = b THEN BytesLess(Tail(v), Tail(w))
             ELSE a[1] < b[1] \/ (a[1] = b[1] /\ a[2] < b[2])

-----------------------------------------------------------------------------
(* Moving elements inside a range.                                         *)

CopyUp(v, f, l, to)   == FoldLeft(LAMBDA u, k : [u EXCEPT ![to + k - 1] = u[f + k - 1]], v, Up(l - f))
CopyDown(v, f, l, to) == FoldLeft(LAMBDA u, k : [u EXCEPT ![to - k] = u[l - k]], v, Up(l - f))
Clear(v, f, l)        == [i \in DOMAIN v |-> IF i \in f .. l - 1 THEN Zero ELSE v[i]]
ShiftLeft(v, n) ==
    IF v = <<>> \/ n = 0 THEN v
    ELSE IF n >= Len(v) THEN Clear(v, 1, End(v))
    ELSE Clear(CopyUp(v, n + 1, End(v), 1), End(v) - n, End(v))
ShiftRight_up(v, n) ==      \* mutant: copied upwards, over what is still to be moved
    IF v = <<>> \/ n = 0 THEN v
    ELSE IF n >= Len(v) THEN Clear(v, 1, End(v))
    ELSE Clear(CopyUp(v, 1, End(v) - n, n + 1), 1, n + 1)
ShiftRight(v, n) ==
    IF v = <<>> \/ n = 0 THEN v
    ELSE IF n >= Len(v) THEN Clear(v, 1, End(v))
    ELSE Clear(CopyDown(v, 1, End(v) - n, End(v)), 1, n + 1)
(* Contiguous ranges: one block is moved to result and not to where it     *)
(* would end there.                                                        *)
BlockDownFits(v, f, l, to) == f = l \/ to + l - f <= End(v)

RECURSIVE Partition(_, _, _, _), RemoveFrom(_, _, _, _), UniqueFrom(_, _, _)
Partition(v, f, l, P) ==    \* P: the keys the predicate takes
    LET a == First({i \in f .. l - 1 : v[i][1] \notin P}, l)
        b == Max({a} \cup {i \in a .. l - 1 : v[i][1] \in P})
    IN  IF a = b THEN [v |-> v, at |-> a] ELSE Partition(Swap(v, a, b), a + 1, b, P)
RemoveFrom(v, i, to, x) ==
    IF i = End(v) THEN [v |-> v, at |-> to]
    ELSE IF Eq(v[i], x) THEN RemoveFrom(v, i + 1, to, x)
    ELSE RemoveFrom([v EXCEPT ![to] = v[i]], i + 1, to + 1, x)
RemoveValue(v, x) ==
    LET p == Find(v, 1, x) IN IF p = End(v) THEN [v |-> v, at |-> p] ELSE RemoveFrom(v, p + 1, p, x)
UniqueFrom(v, i, r) ==      \* r: the last element kept
    IF i = End(v) THEN [v |-> v, at |-> r + 1]
    ELSE IF Eq(v[r], v[i]) THEN UniqueFrom(v, i + 1, r)
    ELSE UniqueFrom([v EXCEPT ![r + 1] = v[i]], i + 1, r + 1)
Unique(v) ==
    LET p == AdjacentFind(v) IN IF p = End(v) THEN [v |-> v, at |-> p] ELSE UniqueFrom(v, p + 1, p)

RECURSIVE ReverseRandom(_, _, _), ReverseBid(_, _, _), RotateForward(_, _, _, _)
ReverseRandom(v, f, l) ==
    IF f >= l THEN v ELSE ReverseRandom(Swap(v, f, l - 1), f + 1, l - 1)
ReverseBid(v, f, l) ==      \* the comparison has already stepped back
    IF l < f THEN [v |-> v, ok |-> FALSE]
    ELSE IF l - f < 2 THEN [v |-> v, ok |-> TRUE]
    ELSE ReverseBid(Swap(v, f, l - 2), f + 1, l - 2)
RotateForward(v, f, i, m) ==
    LET u == Swap(v, f, i)
        j == i + 1
    IN  IF f + 1 = m THEN IF j = End(v) THEN u ELSE RotateForward(u, m, j, j)
        ELSE RotateForward(u, f + 1, IF j = End(v) THEN m ELSE j, m)
Rotate(v, m)     == IF m = 1 \/ m = End(v) THEN v ELSE RotateForward(v, 1, m, m)
RotateBid(v, m) ==         \* the three reversals
    IF m = 1 \/ m = End(v) THEN [v |-> v, ok |-> TRUE]
    ELSE LET a == ReverseBid(v, 1, m)
             b == ReverseBid(a.v, m, End(v))
             c == ReverseBid(b.v, 1, End(v))
         IN  [v |-> c.v, ok |-> a.ok /\ b.ok /\ c.ok]
RotateCopy(v, m) == SubSeq(v, m, Len(v)) \o SubSeq(v, 1, m - 1)

-----------------------------------------------------------------------------
(* Permutations. c: what the generator gives for each element but the first.*)

CountOf(v, f, x) == Cardinality({i \in f .. Len(v) : Eq(v[i], x)})
IsPermutation(v, w) ==
    /\ Len(v) = Len(w)
    /\ LET p == Mismatch(v, w)
       IN  \A i \in p .. Len(v) : (\E j \in p .. i - 1 : Eq(v[j], v[i])) \/ CountOf(v, i, v[i]) = CountOf(w, p, v[i])
Turned(v, i, j) ==
    LET u == Swap(v, i, j) IN [v |-> SubSeq(u, 1, i) \o Reverse(SubSeq(u, i + 1, Len(u))), more |-> TRUE]
NextPermutation(v) ==
    LET i == Max({0} \cup {k \in 1 .. Len(v) - 1 : Lt(v[k], v[k + 1])})
    IN  IF i = 0 THEN [v |-> Reverse(v), more |-> FALSE]
        ELSE Turned(v, i, Max({k \in DOMAIN v : k > i /\ Lt(v[i], v[k])}))
PrevPermutation(v) ==
    LET i == Max({0} \cup {k \in 1 .. Len(v) - 1 : Lt(v[k + 1], v[k])})
    IN  IF i = 0 THEN [v |-> Reverse(v), more |-> FALSE]
        ELSE Turned(v, i, Max({k \in DOMAIN v : k > i /\ Lt(v[k], v[i])}))

(* random_lcd.next_int(0, distance) is below distance, a generator's       *)
(* rand(i - first + 1) below that.                                         *)
Shuffle(v, c)      == FoldLeft(LAMBDA u, i : Swap(u, i, c[i]), v, Tail(Up(Len(v))))
OwnChoices(n)      == {c \in [1 .. n -> 1 .. n] : c[1] = 1 /\ \A i \in 2 .. n : c[i] < i}
GeneratorChoices(n) == {c \in [1 .. n -> 1 .. n] : c[1] = 1 /\ \A i \in 2 .. n : c[i] <= i}
MayShuffle(n)      == n > 0

-----------------------------------------------------------------------------
(* Folds; a result is the sequence of what went into it, Zero an initial   *)
(* value. reduce and transform_reduce run their right halves on a thread   *)
(* that they join before they look at its result.                          *)

RECURSIVE Reduce(_, _), TransformReduce(_, _)
Half(v, n) == IF n = 1 THEN SubSeq(v, 1, Len(v) \div 2) ELSE SubSeq(v, Len(v) \div 2 + 1, Len(v))
Reduce(v, res) ==
    IF Len(v) <= Threshhold THEN res \o v ELSE Reduce(Half(v, 1), res) \o Reduce(Half(v, 2), res)
TransformReduce(v, res) ==
    IF Len(v) <= Threshhold THEN res \o v
    ELSE res \o TransformReduce(Half(v, 1), <<Zero>>) \o TransformReduce(Half(v, 2), <<Zero>>)

PartialSum(s) ==
    FoldLeft(LAMBDA r, x : Append(r, IF r = <<>> THEN x ELSE Last(r) + x), <<>>, s)
AdjacentDifference(s) == [i \in DOMAIN s |-> IF i = 1 THEN s[1] ELSE s[i] - s[i - 1]]
MinMax(v) ==
    FoldLeft(LAMBDA r, x : IF Lt(x, r[1]) THEN <<x, r[2]>> ELSE IF ~Lt(x, r[2]) THEN <<r[1], x>> ELSE r,
             <<v[1], v[1]>>, Tail(v))
MaxElement(v) == FoldLeft(LAMBDA r, i : IF Lt(v[r], v[i]) THEN i ELSE r, 1, Up(Len(v)))
MinElement(v) == FoldLeft(LAMBDA r, i : IF Lt(v[i], v[r]) THEN i ELSE r, 1, Up(Len(v)))
Median(a, b, c) ==
    IF Lt(a, b) THEN IF Lt(b, c) THEN b ELSE IF Lt(a, c) THEN c ELSE a
    ELSE IF Lt(a, c) THEN a ELSE IF Lt(b, c) THEN c ELSE b
Clamp(x, lo, hi) == IF Lt(x, lo) THEN lo ELSE IF Lt(hi, x) THEN hi ELSE x

-----------------------------------------------------------------------------
(* Every pair of inputs.                                                   *)

InitAlgorithms == st = [v |-> <<>>, w |-> <<>>]
NextAlgorithms ==
    /\ Len(st.v) + Len(st.w) < MaxTotal
    /\ \E k \in Keys : st' \in {[st EXCEPT !.v = Append(@, k)], [st EXCEPT !.w = Append(@, k)]}

Elements(s, n) == FoldLeft(LAMBDA r, k : Append(r, <<k, n + Len(r) + 1>>), <<>>, s)
V == Elements(st.v, 0)
W == Elements(st.w, MaxTotal)
Values == {<<k, 0>> : k \in Keys}

Sorted(v)      == \A i, j \in DOMAIN v : i < j => ~Lt(v[j], v[i])
KeysOf(v)      == [i \in DOMAIN v |-> v[i][1]]
Occurs(v, w, i) == i + Len(w) <= End(v) /\ \A j \in DOMAIN w : Eq(v[i + j - 1], w[j])
Perms(v)       == {[i \in DOMAIN v |-> v[p[i]]] : p \in Permutations(DOMAIN v)}
Kept(v, x)     == SelectSeq(v, LAMBDA e : ~Eq(e, x))
Runs(v, count, x) ==
    {i \in DOMAIN v : i + count <= End(v) /\ \A j \in i .. i + count - 1 : Eq(v[j], x)}

\* Searches find what they are for. The default upper_bound is a second lower_bound,
\* and equal_range stops at the right place only where no greater element follows.
SearchesRight ==
    /\ Search(V, W) = First({i \in 1 .. End(V) : Occurs(V, W, i)}, End(V))
    /\ FindEnd(V, W) = FindEndForward(V, W, 1, End(V))
    /\ FindEnd(V, W) = IF W = <<>> THEN End(V) ELSE Max({0} \cup {i \in DOMAIN V : Occurs(V, W, i)} \cup
                         (IF \E i \in DOMAIN V : Occurs(V, W, i) THEN {} ELSE {End(V)}))
    /\ \A x \in Values :
         /\ \A n \in 1 .. 3 : SearchN(V, 1, n, x) = First(Runs(V, n, x), End(V))
         /\ SearchN(V, 1, 0, x) = End(V)
         /\ Sorted(V) =>
              LET lo == First({i \in DOMAIN V : ~Lt(V[i], x)}, End(V))
                  hi == First({i \in DOMAIN V : Lt(x, V[i])}, End(V))
                  r  == EqualRange(V, 1, Len(V), x)
              IN  /\ LowerBound(V, x) = lo
                  /\ UpperBound(V, x) = hi <=> ~BinarySearch(V, x)
                  /\ BinarySearch(V, x) <=> lo < hi
                  /\ IF lo = hi THEN r = <<lo, lo>> ELSE r[1] = lo /\ r[2] >= lo + 1
                  /\ lo < hi /\ hi = End(V) => r[2] \in lo + 1 .. hi

\* Two sorted ranges: union and merge in order, the first range's elements first;
\* the comparison by bytes is right where every value is one byte.
RangesRight ==
    /\ Sorted(V) /\ Sorted(W) =>
         LET m == Merge(V, W)
             u == SetUnion(V, W)
         IN  /\ Sorted(m) /\ IsPermutation(m, V \o W)
             /\ \A i, j \in DOMAIN m : i < j /\ Eq(m[i], m[j]) => m[i][2] < m[j][2]
             /\ Sorted(u) /\ \A x \in Values : CountOf(u, 1, x) = Max({CountOf(V, 1, x), CountOf(W, 1, x)})
             /\ Includes(V, W) <=> \A x \in Values : CountOf(V, 1, x) >= CountOf(W, 1, x)
    /\ Less(V, W) <=> ~Less(W, V) /\ KeysOf(V) # KeysOf(W)
    /\ (\A i \in DOMAIN V : V[i][1] < Byte) /\ (\A i \in DOMAIN W : W[i][1] < Byte)
         => (BytesLess(V, W) <=> Less(V, W))

\* Moves: the elements each call keeps, in which order. Reversing a list is right for
\* one element or none, so that rotating one is right when nothing moves; ranges in one
\* block cannot be shifted right at all.
MovesRight ==
    /\ \A x \in Values :
         LET r == RemoveValue(V, x) IN SubSeq(r.v, 1, r.at - 1) = Kept(V, x)
    /\ LET r == Unique(V)
       IN  SubSeq(r.v, 1, r.at - 1) =
             FoldLeft(LAMBDA a, e : IF a # <<>> /\ Eq(Last(a), e) THEN a ELSE Append(a, e), <<>>, V)
    /\ \A P \in SUBSET Keys :
         LET r == Partition(V, 1, End(V), P)
         IN  Range(r.v) = Range(V) /\ \A i \in DOMAIN V : r.v[i][1] \in P <=> i < r.at
    /\ ReverseRandom(V, 1, End(V)) = Reverse(V)
    /\ LET r == ReverseBid(V, 1, End(V)) IN r.ok /\ r.v = Reverse(V) <=> Len(V) < 2
    /\ \A n \in 0 .. MaxTotal :
         /\ ShiftLeft(V, n) = [i \in DOMAIN V |-> IF i + n < End(V) THEN V[i + n] ELSE Zero]
         /\ ShiftRight(V, n) = [i \in DOMAIN V |-> IF i > n THEN V[i - n] ELSE Zero]
         /\ BlockDownFits(V, 1, End(V) - n, End(V)) => n >= Len(V)
    /\ \A m \in 1 .. End(V) :
         /\ Rotate(V, m) = RotateCopy(V, m)
         /\ LET r == RotateBid(V, m) IN r.ok /\ r.v = RotateCopy(V, m) <=> m \in {1, End(V)}

\* Permutations: next and previous in dictionary order, and back to the first after
\* the last. The library's own generator never leaves an element where it was.
PermutationsRight ==
    /\ IsPermutation(V, W) <=> \A x \in Values : CountOf(V, 1, x) = CountOf(W, 1, x)
    /\ LET n == NextPermutation(V)
           p == PrevPermutation(V)
       IN  /\ n.more => Less(V, n.v) /\ \A u \in Perms(V) : Less(V, u) => ~Less(u, n.v)
           /\ p.more => Less(p.v, V) /\ \A u \in Perms(V) : Less(u, V) => ~Less(p.v, u)
           /\ ~n.more => Sorted(n.v) /\ \A u \in Perms(V) : ~Less(V, u)
           /\ ~p.more => Sorted(Reverse(p.v)) /\ \A u \in Perms(V) : ~Less(u, V)
           /\ n.more => KeysOf(PrevPermutation(n.v).v) = KeysOf(V)
    /\ MayShuffle(Len(V)) /\ W = <<>> =>
         /\ \A c \in OwnChoices(Len(V)) :
              Len(V) > 1 => \A i \in DOMAIN V : Shuffle(V, c)[i] # V[i]
         /\ {Shuffle(V, c) : c \in GeneratorChoices(Len(V))} = Perms(V)

\* Folds: reduce takes the initial value once per part, so it is right for a value that
\* is neutral or for one part; transform_reduce adds zeroes, right where zero is neutral.
FoldsRight ==
    LET init == <<<<0, 0>>>>
    IN  /\ Reduce(V, <<>>) = V
        /\ Reduce(V, init) = init \o V <=> Len(V) <= Threshhold
        /\ SelectSeq(TransformReduce(V, <<>>), LAMBDA e : e # Zero) = V
        /\ TransformReduce(V, <<>>) = V <=> Len(V) <= Threshhold
        /\ PartialSum(AdjacentDifference(st.v)) = st.v
        /\ AdjacentDifference(PartialSum(st.v)) = st.v
        /\ V # <<>> =>
             LET lo == V[MinElement(V)]
                 hi == V[MaxElement(V)]
             IN  /\ \A e \in Range(V) : ~Lt(e, lo) /\ ~Lt(hi, e)
                 /\ \A i \in DOMAIN V : (Eq(V[i], lo) => i >= MinElement(V)) /\ (Eq(V[i], hi) => i >= MaxElement(V))
                 /\ MinMax(V)[1] = lo /\ Eq(MinMax(V)[2], hi)
                 /\ \A x \in Values : Eq(Clamp(x, lo, hi), Median(x, lo, hi))

AlgorithmsSound == SearchesRight /\ RangesRight /\ MovesRight /\ PermutationsRight /\ FoldsRight

=============================================================================
