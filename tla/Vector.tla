------------------------------- MODULE Vector -------------------------------
(***************************************************************************)
(* The vector of include/MSTL/core/vector.hpp, built as C++17 (its         *)
(* iterators are random access, not contiguous). A vector is its buffer,   *)
(* the number of elements and ok, which turns FALSE when the code touches  *)
(* memory outside the buffer. Positions count from 0. A cell nothing was   *)
(* constructed in is Raw. Elements need no destructor.                     *)
(***************************************************************************)
EXTENDS Integers, Sequences, SequencesExt

CONSTANTS
    MaxCap,     \* bound: cells of a buffer
    MaxNew      \* bound: elements inserted by one call

ASSUME VectorAssumption == MaxCap \in Nat /\ MaxNew \in 0 .. MaxCap

VARIABLE vec     \* a: the vector, b: another one

a == vec.a
Raw    == 0
Hollow == -1                         \* what a move leaves behind
Up(n)       == [i \in 1 .. n |-> i]
Times(n, v) == [i \in 1 .. n |-> v]
Larger(i, j) == IF i > j THEN i ELSE j

Buffer(vs, cap) == [cells |-> vs \o Times(cap - Len(vs), Raw), n |-> Len(vs), ok |-> TRUE]
Empty       == Buffer(<<>>, 0)
Cap(d)      == Len(d.cells)
Room(d)     == Cap(d) - d.n
Part(d, i, j) == SubSeq(d.cells, i + 1, j)           \* the elements of [i, j)

Cell(d, p) == IF p + 1 \in DOMAIN d.cells THEN d.cells[p + 1] ELSE Raw
Contents(d) == [i \in 1 .. d.n |-> Cell(d, i - 1)]
Poke(d, p, v) ==
    IF p + 1 \in DOMAIN d.cells THEN [d EXCEPT !.cells[p + 1] = v] ELSE [d EXCEPT !.ok = FALSE]
(* What comes from elsewhere goes to the cells from p on.                  *)
Store(d, p, vs) ==
    [d EXCEPT !.cells = [i \in DOMAIN @ |-> IF i - p \in DOMAIN vs THEN vs[i - p] ELSE @[i]],
              !.ok = @ /\ \A i \in DOMAIN vs : p + i \in DOMAIN d.cells]

(* A loop of assignments, one after the other: a move <<p, q>> gives cell  *)
(* q what is in cell p then. copy, and copy_backward, of the n cells at p  *)
(* to q do nothing for n < 0.                                              *)
Assigned(d, m) == Poke(d, m[2], Cell(d, m[1]))
Run(d, moves) ==
    LET after[k \in 0 .. Len(moves)] == IF k = 0 THEN d ELSE Assigned(after[k - 1], moves[k])
    IN  after[Len(moves)]
CopyUp(d, p, q, n)   == Run(d, [i \in 1 .. Larger(n, 0) |-> <<p + i - 1, q + i - 1>>])
CopyDown(d, p, q, n) == Run(d, [i \in 1 .. Larger(n, 0) |-> <<p + n - i, q + n - i>>])
(* move_backward counts in size_t: it does not end for n < 0.              *)
MoveDown(d, p, q, n) == IF n < 0 THEN [d EXCEPT !.ok = FALSE] ELSE CopyDown(d, p, q, n)

-----------------------------------------------------------------------------

FromSeq(vs) == Buffer(vs, Len(vs))
(* vector(n, T&&) constructs every element from the same rvalue.           *)
FromRvalue(n, v) == FromSeq([i \in 1 .. n |-> IF i = 1 THEN v ELSE Hollow])

Reserve(d, n) == IF Cap(d) >= n THEN d ELSE Buffer(Contents(d), Larger(2 * Cap(d), n))
ShrinkToFit(d) == FromSeq(Contents(d))
Clear(d) == [d EXCEPT !.n = 0]

(* An argument is a reference: to a value elsewhere, or to an element of   *)
(* this vector. Read when the buffer is d and the elements at the places   *)
(* in moved have been moved from, it gives what is there by then. (A move  *)
(* of a scalar leaves it as it was.)                                       *)
Elsewhere == -1
Fresh(v)  == [at |-> Elsewhere, v |-> v]
Own(k)    == [at |-> k, v |-> Raw]
Given(d, x, moved) ==
    IF x.at = Elsewhere THEN x.v ELSE IF x.at \in moved THEN Hollow ELSE Cell(d, x.at)

(* With room the last element is moved up, and the others after it; else   *)
(* those before p are moved to a new buffer. The argument is read then.    *)
Opened(d, p) ==
    LET u == [Poke(d, d.n, Cell(d, d.n - 1)) EXCEPT !.n = @ + 1, !.ok = @ /\ d.n > 0]
    IN  MoveDown(u, p, p + 1, u.n - 2 - p)
Emplace(d, p, x) ==
    IF Room(d) > 0 THEN Poke(Opened(d, p), p, Given(Opened(d, p), x, {p}))
    ELSE Buffer(Part(d, 0, p) \o <<Given(d, x, 0 .. p - 1)>> \o Part(d, p, d.n),
                IF d.n = 0 THEN 1 ELSE 2 * d.n)

PushBack(d, x) ==
    IF Room(d) > 0 THEN [Poke(d, d.n, Given(d, x, {})) EXCEPT !.n = @ + 1] ELSE Emplace(d, d.n, x)

PopBack(d) == [d EXCEPT !.n = @ - 1]

Grow(d, p, vs) ==
    Buffer(Part(d, 0, p) \o vs \o Part(d, p, d.n), d.n + Larger(d.n, Len(vs)))

(* The last n elements go to the free cells, those from p on after them.   *)
CopiedUp(d, p, n) ==
    LET u == [CopyUp(d, d.n - n, d.n, n) EXCEPT !.n = @ + n] IN CopyDown(u, p, p + n, d.n - n - p)

RangeInsert(d, p, vs) ==
    LET n == Len(vs)
        after == d.n - p
        w == [Store(d, d.n, SubSeq(vs, after + 1, n)) EXCEPT !.n = @ + n - after]
        x == [CopyUp(w, p, w.n, after) EXCEPT !.n = @ + after]
    IN  IF n = 0 THEN d
        ELSE IF Room(d) < n THEN Grow(d, p, vs)
        ELSE IF after > n THEN Store(CopiedUp(d, p, n), p, vs)
        ELSE Store(x, p, SubSeq(vs, 1, after))

(* insert of n copies takes the elements before the position for those     *)
(* after it. Where more than n are before it the elements after it are     *)
(* copied up before the argument is read; elsewhere an element keeps its   *)
(* value till it is overwritten with itself.                               *)
ElemsAfter(d, p) == p
InsertN(d, p, n, x) ==
    LET after == ElemsAfter(d, p)
        u == CopiedUp(d, p, n)
        v == Given(d, x, {})
        w == [Store(d, d.n, Times(n - after, v)) EXCEPT !.n = @ + n - after]
        y == [CopyUp(w, p, w.n, d.n - p) EXCEPT !.n = @ + after]
    IN  IF n = 0 THEN d
        ELSE IF Room(d) < n THEN Grow(d, p, Times(n, v))
        ELSE IF after > n THEN Store(u, p, Times(n, Given(u, x, {})))
        ELSE Store(y, p, Times(d.n - p, v))

EraseRange(d, i, j) == [CopyUp(d, j, i, d.n - j) EXCEPT !.n = @ - (j - i)]
EraseOne_short(d, p) == [CopyUp(d, p + 1, p, d.n - p - 2) EXCEPT !.n = @ - 1]
EraseOne(d, p)      == [CopyUp(d, p + 1, p, d.n - p - 1) EXCEPT !.n = @ - 1]

Resize(d, n, x) == IF n < d.n THEN EraseRange(d, n, d.n) ELSE InsertN(d, d.n, n - d.n, x)

(* Beyond the capacity reserve frees the buffer an own element is in.      *)
Assign(d, n, x) ==
    LET s == Store(d, 0, Times(n, Given(d, x, {})))
    IN  IF n > Cap(d) THEN [InsertN(Reserve(d, n), 0, n, x) EXCEPT !.ok = @ /\ x.at = Elsewhere]
        ELSE IF n > d.n THEN [s EXCEPT !.n = n]
        ELSE EraseRange(s, n, d.n)

AssignRange(d, vs) ==
    LET n == Len(vs)
    IN  IF n > Cap(d) THEN RangeInsert(Clear(d), 0, vs)
        ELSE IF n > d.n THEN [Store(d, 0, vs) EXCEPT !.n = n]
        ELSE EraseRange(Store(d, 0, vs), n, d.n)

CopyAssign(d, vs) == RangeInsert(Clear(d), 0, vs)

-----------------------------------------------------------------------------
(* The calls. No function looks at a value: the elements of a state are    *)
(* numbered in their order after every call, whatever its argument was.    *)

Numbered(d) == [d EXCEPT !.cells = [i \in DOMAIN @ |-> IF i <= d.n THEN i ELSE Raw]]
Put(d) == d.ok /\ Cap(d) <= MaxCap /\ vec' = [vec EXCEPT !.a = Numbered(d)]
Places == 0 .. a.n

InitVector == vec \in [a : {FromSeq(<<>>)}, b : {Empty}]

Push    == Put(PushBack(a, Fresh(Raw)))
Pop     == a.n > 0 /\ Put(PopBack(a))
Insert  == \E p \in Places : \/ Put(Emplace(a, p, Fresh(Raw)))
                             \/ \E n \in 0 .. MaxNew : Put(InsertN(a, p, n, Fresh(Raw)))
                             \/ \E n \in 0 .. MaxNew : Put(RangeInsert(a, p, Times(n, Raw)))
Erase   == \E i, j \in Places : \/ i <= j /\ Put(EraseRange(a, i, j))
                                \/ i < a.n /\ Put(EraseOne(a, i))
Change  == \E n \in 0 .. MaxCap : \/ Put(Resize(a, n, Fresh(Raw))) \/ Put(Assign(a, n, Fresh(Raw)))
                                  \/ Put(AssignRange(a, Up(n))) \/ Put(Reserve(a, n))
Tidy    == Put(ShrinkToFit(a)) \/ Put(Clear(a))
Another == \E n \in 0 .. MaxNew : vec' = [vec EXCEPT !.b = FromRvalue(n, 1)]
CopyAnother == Put(CopyAssign(a, Contents(vec.b)))
(* A move assignment clears this vector and swaps it with the other one.   *)
TakeAnother == vec' = [a |-> Numbered(vec.b), b |-> Numbered(Clear(a))]

NextVector ==
    Push \/ Pop \/ Insert \/ Erase \/ Change \/ Tidy \/ Another \/ CopyAnother \/ TakeAnother

SpecVector == InitVector /\ [][NextVector]_vec

-----------------------------------------------------------------------------

Holds(d, vs) == d.ok /\ d.n <= Cap(d) /\ Contents(d) = vs

(* What a call is to leave: vs before the element p, nothing of [p, q), or *)
(* new elements, which are numbered after those there are.                 *)
With(p, vs) == SubSeq(Contents(a), 1, p) \o vs \o SubSeq(Contents(a), p + 1, a.n)
Without(p, q) == SubSeq(Contents(a), 1, p) \o SubSeq(Contents(a), q + 1, a.n)
NewOne   == a.n + 1
New(m)   == [k \in 1 .. m |-> a.n + k]

OneSound ==
    /\ Holds(PushBack(a, Fresh(NewOne)), Append(Contents(a), NewOne))
    /\ a.n > 0 => Holds(PopBack(a), Front(Contents(a)))

(* An emplace at the end of a vector that has room moves an element that   *)
(* is not there.                                                           *)
EmplaceSound ==
    \A p \in Places :
        Holds(Emplace(a, p, Fresh(NewOne)), With(p, <<NewOne>>)) = (Room(a) = 0 \/ p < a.n)

(* Inserting n copies is right when the buffer grows, when more than n     *)
(* elements are before the place, or when as many are before it as after.  *)
CopiesFit(p, n) == n = 0 \/ Room(a) < n \/ p > n \/ p = a.n - p
InsertSound ==
    \A p \in Places, m \in 0 .. MaxNew :
        /\ Holds(RangeInsert(a, p, New(m)), With(p, New(m)))
        /\ Holds(InsertN(a, p, m, Fresh(NewOne)), With(p, Times(m, NewOne))) = CopiesFit(p, m)

EraseSound ==
    \A p \in Places : /\ \A q \in p .. a.n : Holds(EraseRange(a, p, q), Without(p, q))
                      /\ p < a.n => Holds(EraseOne(a, p), Without(p, p + 1))

(* assign(n, v) beyond the capacity keeps the elements there are.          *)
AssignSound ==
    \A m \in 0 .. MaxCap :
        /\ Holds(AssignRange(a, New(m)), New(m)) /\ Holds(CopyAssign(a, New(m)), New(m))
        /\ Holds(Reserve(a, m), Contents(a)) /\ Holds(ShrinkToFit(a), Contents(a))
        /\ Holds(Assign(a, m, Fresh(NewOne)), Times(m, NewOne)) = (m <= Cap(a) \/ a.n = 0)
        /\ Holds(Resize(a, m, Fresh(NewOne)), [k \in 1 .. m |-> IF k <= a.n THEN k ELSE NewOne])
             = (m <= a.n \/ CopiesFit(a.n, m - a.n))

(* The element k passed to a call on its own vector arrives where nothing  *)
(* has been moved or freed before it is read: not in a push_back on a full *)
(* vector, nor in an emplace before it in one with room.                   *)
OwnSound ==
    \A k \in 0 .. a.n - 1 :
        /\ Holds(PushBack(a, Own(k)), Append(Contents(a), k + 1)) = (Room(a) > 0)
        /\ \A p \in Places :
              /\ Holds(Emplace(a, p, Own(k)), With(p, <<k + 1>>))
                   = IF Room(a) = 0 THEN p <= k ELSE k < p /\ p < a.n
              /\ \A m \in 0 .. MaxNew :
                    CopiesFit(p, m) => Holds(InsertN(a, p, m, Own(k)), With(p, Times(m, k + 1)))
                                         = (m = 0 \/ Room(a) < m \/ p <= m \/ k < p + m)
        /\ \A m \in 0 .. MaxCap :
              Holds(Assign(a, m, Own(k)), Times(m, k + 1)) = (m <= Cap(a))

(* vector(n, T&&) gives the value to the first element only.               *)
FillSound == \A m \in 0 .. MaxCap : Contents(FromRvalue(m, 1)) = Times(m, 1) <=> m <= 1

(* Every call leaves the elements its definition says, inside the buffer,  *)
(* but for those that the parts above name.                                *)
VectorSound ==
    /\ Holds(a, Up(a.n)) /\ Cap(a) <= MaxCap
    /\ OneSound /\ EmplaceSound /\ InsertSound /\ EraseSound /\ AssignSound /\ OwnSound
    /\ FillSound

=============================================================================
