-------------------------------- MODULE Deque --------------------------------
(***************************************************************************)
(* The deque of include/MSTL/core/deque.hpp, and the stack and queue over  *)
(* it. A deque is its map of buffers, an iterator to the first element and *)
(* one behind the last. An iterator is the place of its buffer in the map  *)
(* and an offset in the buffer; the address of node * B + offset lies in   *)
(* buffer node. ok turns FALSE when the code touches memory that is not in *)
(* a live buffer. Elements need no destructor.                             *)
(*                                                                         *)
(* Brim: the constructors leave finish_ at offset B of the last buffer     *)
(* when the number of elements is a multiple of B. No other function       *)
(* expects an iterator there.                                              *)
(***************************************************************************)
EXTENDS Integers, Sequences, FiniteSets, SequencesExt

CONSTANTS
    B,          \* buffer_size_
    InitMap,    \* DEQUE_INIT_MAP_SIZE
    MaxSize,    \* bound: elements
    MaxMap,     \* bound: places of the map
    MaxN        \* bound: elements inserted by one call

VARIABLE st     \* a: the deque, b: another one

a == st.a
Null   == <<>>
Raw    == 0
Buffer == [i \in 1 .. B |-> Raw]
Gone   == Null                       \* the map pointer is null
Up(n)    == [i \in 1 .. n |-> i]
Times(n, v) == [i \in 1 .. n |-> v]
Larger(i, j) == IF i > j THEN i ELSE j

At(i)       == i[1] * B + i[2]
Plus(i, n)  == <<i[1] + ((i[2] + n) \div B), (i[2] + n) % B>>   \* operator +=
Size(d)     == At(d.f) - At(d.s)
Brim(d)     == d.f[2] = B
Live(d, p)  == (p \div B) \in DOMAIN d.map /\ d.map[p \div B] # Null
Cell(d, p)  == IF Live(d, p) THEN d.map[p \div B][(p % B) + 1] ELSE Raw
Poke(d, p, v) ==
    IF Live(d, p) THEN [d EXCEPT !.map[p \div B][(p % B) + 1] = v] ELSE [d EXCEPT !.ok = FALSE]

Store(d, p, vs) == FoldLeft(LAMBDA e, i : Poke(e, p + i - 1, vs[i]), d, Up(Len(vs)))
(* copy, and copy_backward, of the n cells at p to q.                      *)
CopyUp(d, p, q, n)   == FoldLeft(LAMBDA e, i : Poke(e, q + i - 1, Cell(e, p + i - 1)), d, Up(n))
CopyDown(d, p, q, n) == FoldLeft(LAMBDA e, i : Poke(e, q + n - i, Cell(e, p + n - i)), d, Up(n))

Contents(d) == [i \in 1 .. Size(d) |-> Cell(d, At(d.s) + i - 1)]

-----------------------------------------------------------------------------
(* Buffers and the map.                                                    *)

CreateNodes(d, m, n) == [d EXCEPT !.map = [k \in DOMAIN @ |-> IF k \in m .. n THEN Buffer ELSE @[k]]]

CreateMapAndNodes(n) ==
    LET nodes == (n + B - 1) \div B
        size  == Larger(InitMap, nodes + 2)
        s     == (size - nodes) \div 2 + 1
        f     == IF nodes = 0 THEN s ELSE s + nodes - 1
        off   == IF n = 0 THEN 0 ELSE IF n % B = 0 THEN B ELSE n % B
        d     == [map |-> [k \in 1 .. size |-> Null], s |-> <<s, 0>>, f |-> <<f, off>>, ok |-> TRUE]
    IN  CreateNodes(d, s, f)

FromSeq(vs) == LET d == CreateMapAndNodes(Len(vs)) IN Store(d, At(d.s), vs)

(* A larger map, with the used buffers from place m on.                    *)
MoveMap(d, size, m) ==
    LET old == d.f[1] - d.s[1] + 1
    IN  [d EXCEPT !.map = [k \in 1 .. size |-> IF k \in m .. m + old - 1
                                               THEN d.map[d.s[1] + k - m] ELSE Null],
                  !.s[1] = m, !.f[1] = m + old - 1]

Needed_exact(n, left) == (n - left) \div B
Needed(n, left) == (n - left) \div B + 1

(* reallocate_map: buffers for n more elements, and a larger map when there*)
(* are not enough places. A spare buffer that was there is leaked.         *)
Reallocate(d, n, front) ==
    LET left   == IF front THEN d.s[2] ELSE B - d.f[2] - 1
        needed == Needed(n, left)
        size   == Len(d.map)
        free   == IF front THEN d.s[1] - 1 ELSE size - d.f[1]
        larger == Larger(2 * size, size + needed + InitMap)
        begin  == (larger - (needed + d.f[1] - d.s[1] + 1)) \div 2 + 1
        u      == IF needed <= free THEN d
                  ELSE MoveMap(d, larger, IF front THEN begin + needed ELSE begin)
    IN  IF left >= n THEN d
        ELSE IF front THEN CreateNodes(u, u.s[1] - needed, u.s[1] - 1)
        ELSE CreateNodes(u, u.f[1] + 1, u.f[1] + needed)

ShrinkToFit(d) ==
    [d EXCEPT !.map = [k \in DOMAIN @ |-> IF k \in d.s[1] .. d.f[1] THEN @[k] ELSE Null]]
Free(d, k) == [d EXCEPT !.map[k] = Null]
Clear(d)   == [ShrinkToFit(d) EXCEPT !.f = d.s]

-----------------------------------------------------------------------------
(* One element.                                                            *)

EmplaceBack(d, v) ==
    LET e == IF d.f[2] # B - 1 THEN d ELSE Reallocate(d, 1, FALSE)
    IN  [Poke(e, At(e.f), v) EXCEPT !.f = Plus(e.f, 1)]

EmplaceFront(d, v) ==
    LET e == IF d.s[2] # 0 THEN d ELSE Reallocate(d, 1, TRUE)
    IN  Poke([e EXCEPT !.s = Plus(e.s, -1)], At(e.s) - 1, v)

PopBack(d) ==
    IF d.f[2] # 0 THEN [d EXCEPT !.f[2] = @ - 1]
    ELSE Free([d EXCEPT !.f = Plus(@, -1)], d.f[1])

PopFront(d) ==
    IF d.s[2] # B - 1 THEN [d EXCEPT !.s[2] = @ + 1]
    ELSE Free([d EXCEPT !.s = Plus(@, 1)], d.s[1])

(* insert_aux: the shorter side moves by one.                              *)
InsertAux(d, i, v) ==
    LET u == EmplaceFront(d, Cell(d, At(d.s)))
        w == EmplaceBack(d, Cell(d, At(d.f) - 1))
        p == At(u.s) + i
        q == At(w.s) + i
    IN  IF i < Size(d) \div 2
          THEN Poke(CopyUp(u, At(u.s) + 2, At(u.s) + 1, i - 1), p, v)
          ELSE Poke(CopyDown(w, q, q + 1, At(w.f) - 2 - q), q, v)

(* insert and emplace before the element i, counted from 0.                *)
InsertOne(d, i, v) ==
    IF i = 0 THEN EmplaceFront(d, v)
    ELSE IF i = Size(d) THEN EmplaceBack(d, v) ELSE InsertAux(d, i, v)

EraseOne(d, i) ==
    LET p == At(d.s) + i
    IN  IF i < Size(d) \div 2 THEN PopFront(CopyDown(d, At(d.s), At(d.s) + 1, i))
        ELSE PopBack(CopyUp(d, p + 1, p, Size(d) - i - 1))

-----------------------------------------------------------------------------
(* Several elements.                                                       *)

InsertMiddleFront(d, i, vs) ==
    LET n == Len(vs)
        u == Reallocate(d, n, TRUE)
        s == At(u.s)
        e == [u EXCEPT !.s = Plus(@, -n)]
    IN  IF i >= n THEN Store(CopyUp(CopyUp(e, s, s - n, n), s + n, s, i - n), s + i - n, vs)
        ELSE Store(CopyUp(e, s, s - n, i), s - n + i, vs)

InsertMiddleBack(d, i, vs) ==
    LET n == Len(vs)
        u == Reallocate(d, n, FALSE)
        f == At(u.f)
        e == [u EXCEPT !.f = Plus(@, n)]
        p == At(u.s) + i
        after == Size(d) - i
    IN  IF after > n THEN Store(CopyDown(CopyUp(e, f - n, f, n), p, p + n, after - n), p, vs)
        ELSE Store(CopyUp(e, p, p + n, after), p, vs)

(* insert of a range, and of n copies.                                     *)
InsertSeq(d, i, vs) ==
    LET n == Len(vs)
        u == Reallocate(d, n, TRUE)
        w == Reallocate(d, n, FALSE)
    IN  IF i = 0 THEN [Store(u, At(u.s) - n, vs) EXCEPT !.s = Plus(@, -n)]
        ELSE IF i = Size(d) THEN [Store(w, At(w.f), vs) EXCEPT !.f = Plus(@, n)]
        ELSE IF i < Size(d) \div 2 THEN InsertMiddleFront(d, i, vs)
        ELSE InsertMiddleBack(d, i, vs)

EraseRange(d, i, j) ==
    LET len == j - i
        s == At(d.s)
    IN  IF i = 0 /\ j = Size(d) THEN Clear(d)
        ELSE IF i < (Size(d) - len) \div 2
          THEN [CopyDown(d, s, s + len, i) EXCEPT !.s = Plus(@, len)]
        ELSE [CopyUp(d, s + j, s + i, Size(d) - j) EXCEPT !.f = Plus(@, -len)]

Fill(d, v) == Store(d, At(d.s), Times(Size(d), v))

Resize(d, n, v) ==
    IF n < Size(d) THEN EraseRange(d, n, Size(d)) ELSE InsertSeq(d, Size(d), Times(n - Size(d), v))

Assign(d, n, v) ==
    IF n > Size(d) THEN InsertSeq(Fill(d, v), Size(d), Times(n - Size(d), v))
    ELSE Fill(EraseRange(d, n, Size(d)), v)

CopyAssign(d, vs) ==
    LET n == Size(d)
        u == Store(d, At(d.s), SubSeq(vs, 1, n))
    IN  IF n >= Len(vs) THEN EraseRange(Store(d, At(d.s), vs), Len(vs), n)
        ELSE InsertSeq(u, n, SubSeq(vs, n + 1, Len(vs)))

(* The iterators of a walk with operator ++ up to the n-th element.        *)
RECURSIVE WalkFrom(_, _, _)
WalkFrom(d, i, n) ==
    IF n = 0 THEN <<>>
    ELSE <<i>> \o WalkFrom(d, IF i[2] + 1 = B THEN <<i[1] + 1, 0>> ELSE <<i[1], i[2] + 1>>, n - 1)

-----------------------------------------------------------------------------
(* The calls. No function looks at a value: the elements of a state are    *)
(* numbered in their order, so that what a call does to it shows.          *)

Numbered(d) ==
    LET Place(p) == IF p \in At(d.s) .. At(d.f) - 1 THEN p - At(d.s) + 1 ELSE Raw
    IN  [d EXCEPT !.map = [k \in DOMAIN @ |-> IF @[k] = Null THEN Null
                                              ELSE [i \in 1 .. B |-> Place(k * B + i - 1)]]]

Put(d) == Size(d) <= MaxSize /\ Len(d.map) <= MaxMap /\ st' = [st EXCEPT !.a = Numbered(d)]
Usable == a # Gone /\ ~Brim(a)
Places == 0 .. Size(a)
Spans  == {r \in Places \X Places : r[1] <= r[2]}
Some   == {Times(n, Raw) : n \in 1 .. MaxN}

InitDeque == st \in [a : {FromSeq(<<>>)}, b : {Gone}]

(* push, emplace and pop of the stack are those at the back; the queue     *)
(* pushes at the back and pops at the front.                               *)
StackPush == Usable /\ Put(EmplaceBack(a, Raw))
StackPop  == a # Gone /\ Size(a) > 0 /\ Put(PopBack(a))
QueuePop  == Usable /\ Size(a) > 0 /\ Put(PopFront(a))
PushFront == Usable /\ Put(EmplaceFront(a, Raw))
Insert    == Usable /\ (\E i \in Places : Put(InsertOne(a, i, Raw)) \/ \E vs \in Some : Put(InsertSeq(a, i, vs)))
Erase     == Usable /\ ((\E i \in 0 .. Size(a) - 1 : Put(EraseOne(a, i))) \/ \E r \in Spans : Put(EraseRange(a, r[1], r[2])))
Change    == Usable /\ \E n \in 0 .. MaxSize : Put(Resize(a, n, Raw)) \/ Put(Assign(a, n, Raw))
Tidy      == a # Gone /\ (Put(ShrinkToFit(a)) \/ Put(Clear(a)))

(* A deque built from n elements takes the place of the old one.           *)
Renew   == \E n \in 0 .. MaxSize : Put(FromSeq(Up(n)))
Another == \E n \in 0 .. MaxN : n % B # 0 /\ st' = [st EXCEPT !.b = FromSeq(Up(n))]
CopyAnother == Usable /\ st.b # Gone /\ Put(CopyAssign(a, Contents(st.b)))
(* swap of two iterators nulls the second one: only this object survives a *)
(* swap, a move assignment or an assignment of a list.                     *)
TakeAnother == st.b # Gone /\ st' = [a |-> st.b, b |-> Gone]

NextDeque ==
    \/ StackPush \/ StackPop \/ QueuePop \/ PushFront \/ Insert \/ Erase \/ Change \/ Tidy
    \/ Renew \/ Another \/ CopyAnother \/ TakeAnother

-----------------------------------------------------------------------------

Sound(d) ==
    /\ d.ok /\ 0 <= Size(d) /\ d.s[2] \in 0 .. B - 1 /\ d.f[2] \in 0 .. B
    /\ \A p \in At(d.s) .. At(d.f) : Live(d, p) \/ (p = At(d.f) /\ Brim(d))

Holds(d, vs) == Sound(d) /\ ~Brim(d) /\ Contents(d) = vs

(* The buffers of a deque cover its elements and the place behind them,    *)
(* every call writes inside them and leaves the elements its definition    *)
(* says in the order it says. Walking to the end meets end() unless the    *)
(* deque was built with full buffers, and then it does not.                *)
DequeSound ==
    a # Gone =>
        LET w == Contents(a)
            n == Len(w)
            x == n + 1
            walk == WalkFrom(a, a.s, n + 1)
        IN  /\ Sound(a) /\ w = Up(n)
            /\ (walk[n + 1] = a.f) = ~Brim(a)
            /\ n > 0 => Holds(PopBack(a), SubSeq(w, 1, n - 1))
            /\ Usable =>
                 /\ n > 0 => Holds(PopFront(a), Tail(w))
                 /\ \A i \in 0 .. n : \A m \in 0 .. MaxN :
                       LET vs == [k \in 1 .. m |-> n + k]
                           ws == SubSeq(w, 1, i) \o vs \o SubSeq(w, i + 1, n)
                       IN  Holds(InsertSeq(a, i, vs), ws) /\ (m = 1 => Holds(InsertOne(a, i, x), ws))
                 /\ \A i \in 0 .. n - 1 : Holds(EraseOne(a, i), RemoveAt(w, i + 1))
                 /\ \A r \in Spans : Holds(EraseRange(a, r[1], r[2]),
                                           SubSeq(w, 1, r[1]) \o SubSeq(w, r[2] + 1, n))
                 /\ \A m \in 0 .. MaxSize :
                       LET low == IF m < n THEN m ELSE n
                           vs  == [k \in 1 .. m |-> n + k]
                       IN  /\ Holds(Resize(a, m, x), SubSeq(w, 1, low) \o Times(m - low, x))
                           /\ Holds(Assign(a, m, x), Times(m, x))
                           /\ Holds(CopyAssign(a, vs), vs)

=============================================================================
