------------------------------ MODULE Strings -------------------------------
(***************************************************************************)
(* The storage of include/MSTL/core/basic_string.hpp, without the          *)
(* assertions of a debug build. A string is its buffer, the number of its  *)
(* elements, ok, which turns FALSE when the code touches memory outside    *)
(* the buffer, and leak, TRUE when a call drops a buffer without freeing   *)
(* it. A string that was moved from has no buffer. Positions count from 0. *)
(* Nul is the terminator, a cell nothing was written to is Raw.            *)
(***************************************************************************)
EXTENDS Integers, Sequences, SequencesExt

CONSTANTS
    InitCap,    \* MEMORY_ALIGN_THRESHHOLD: cells of the smallest fresh buffer
    MaxCap,     \* bound: cells of a buffer
    MaxNew      \* bound: elements one call adds

VARIABLE st     \* the string

Raw == -1
Nul == 0
Up(n)        == [i \in 1 .. n |-> i]
Times(n, v)  == [i \in 1 .. n |-> v]
Larger(i, j) == IF i > j THEN i ELSE j
Less(i, j)   == IF i < j THEN i ELSE j

Buffer(vs, cap) ==
    [cells |-> vs \o Times(cap - Len(vs), Raw), n |-> Len(vs), ok |-> TRUE, leak |-> FALSE]
Null        == Buffer(<<>>, 0)
Cap(d)      == Len(d.cells)
Room(d)     == Cap(d) - d.n
Part(d, i, j) == SubSeq(d.cells, i + 1, j)           \* the elements of [i, j)
Contents(d) == Part(d, 0, Less(d.n, Cap(d)))

Bad(d) == [d EXCEPT !.ok = FALSE]
Poke(d, p, v) == IF p + 1 \in DOMAIN d.cells THEN [d EXCEPT !.cells[p + 1] = v] ELSE Bad(d)
Store(d, p, vs) == FoldLeft(LAMBDA e, i : Poke(e, p + i - 1, vs[i]), d, Up(Len(vs)))
(* Traits::move of n cells from p to q: n is a size_t.                     *)
Move(d, p, q, n) ==
    IF n < 0 \/ p < 0 \/ p + n > Cap(d) THEN Bad(d) ELSE Store(d, q, Part(d, p, p + n))
Sized(d, k) == [d EXCEPT !.n = @ + k]

-----------------------------------------------------------------------------
(* Buffers and the terminator.                                             *)

Moved(d, cap) == Poke([Buffer(Contents(d), cap) EXCEPT !.ok = d.ok], d.n, Nul)

Reserve(d, n) == IF Cap(d) >= n + 1 THEN d ELSE Moved(d, n + 1)

NullTerminate_tight(d) == IF Room(d) > 0 THEN Poke(d, d.n, Nul) ELSE d
NullTerminate(d) ==
    IF Room(d) > 0 THEN Poke(d, d.n, Nul)
    ELSE IF Room(d) = 0 THEN Poke(Reserve(d, (3 * Cap(d)) \div 2), d.n, Nul)
    ELSE d

Reallocate(d, n) == Moved(d, Larger(Cap(d) + n, Cap(d) + Cap(d) \div 2) + 1)

(* reallocate_and_fill and reallocate_and_copy                             *)
ReallocateWith(d, p, vs) ==
    NullTerminate(Buffer(Part(d, 0, p) \o vs \o Part(d, p, d.n),
                         Larger(Cap(d) + Len(vs), Cap(d) + Cap(d) \div 2)))

ShrinkToFit(d) == IF d.n + 1 >= Cap(d) THEN d ELSE Moved(d, d.n + 1)

-----------------------------------------------------------------------------
(* Constructors and assignments.                                           *)

Fresh(vs)   == Buffer(vs, Larger(InitCap, Len(vs) + 1))
FromPtr(vs) == NullTerminate(Fresh(vs))
FromIter(vs) == Fresh(vs)
(* From input iterators the size is set before the elements are appended.  *)
FromInput(vs) ==
    FoldLeft(LAMBDA d, v : NullTerminate(Sized(Store(IF Room(d) < 1 THEN Reallocate(d, 1) ELSE d,
                                                     d.n, <<v>>), 1)),
             [Fresh(Times(Len(vs), Raw)) EXCEPT !.n = Len(vs)], vs)

AssignChar(d, v) ==
    NullTerminate([Poke(IF Cap(d) < 1 THEN Buffer(<<>>, 2) ELSE d, 0, v) EXCEPT !.n = 1])
(* operator= of a pointer or a view                                        *)
AssignSeq(d, vs) ==
    NullTerminate([Store(IF Cap(d) < Len(vs) THEN Buffer(<<>>, Len(vs) + 1) ELSE d, 0, vs)
                   EXCEPT !.n = Len(vs)])
(* operator= of a string constructs over the old buffer.                   *)
CopyAssign(d, vs) == [FromPtr(vs) EXCEPT !.leak = Cap(d) > 0]

Clear(d) == NullTerminate([d EXCEPT !.n = 0])
(* A move assignment: this string and the other one.                       *)
MoveAssign(d, e) == [to |-> e, from |-> Clear(d)]

-----------------------------------------------------------------------------
(* Growing and shrinking.                                                  *)

AppendSeq(d, vs) ==
    NullTerminate(Sized(Store(IF Room(d) < Len(vs) THEN Reallocate(d, Len(vs)) ELSE d, d.n, vs),
                        Len(vs)))
(* A string that is appended, copied or moved, must not be empty to count. *)
AppendString(d, vs) == IF vs = <<>> THEN d ELSE AppendSeq(d, vs)
AppendMoved(d, e) ==
    [to |-> AppendString(d, Contents(e)), from |-> IF e.n = 0 THEN e ELSE Null]
(* operator+ of two strings, or of a string and characters                 *)
Plus(vs, ws) == AppendString(FromPtr(vs), ws)
(* append(pointer, n) of n elements of its own, from position i            *)
AppendOwn(d, i, n) == IF Room(d) < n THEN Bad(d) ELSE AppendSeq(d, Part(d, i, i + n))

(* assign of characters or of a range keeps the buffer when it is enough.  *)
AssignAll(d, vs) == AppendSeq(Clear(d), vs)

PopBack(d) == NullTerminate(Sized(d, -1))

InsertN(d, p, n, v) ==
    IF n = 0 THEN d
    ELSE IF Room(d) < n THEN ReallocateWith(d, p, Times(n, v))
    ELSE IF p = d.n THEN Sized(Store(d, p, Times(n, v)), n)
    ELSE NullTerminate(Sized(Store(Move(d, p, p + n, n), p, Times(n, v)), n))

(* [i, j) is erased; j may be before i.                                    *)
EraseRange(d, i, j) ==
    IF i = 0 /\ j = d.n THEN Clear(d) ELSE NullTerminate(Sized(Move(d, j, i, d.n - j), i - j))
(* npos counts as -1 in the iterator's arithmetic.                         *)
EraseToEnd(d, i) == EraseRange(d, i, i - 1)

Resize(d, n, v) ==
    IF n < d.n THEN EraseRange(d, n, d.n) ELSE AppendSeq(d, Times(n - d.n, v))

ResizeAndOverwrite(d, n, vs) ==
    LET e == IF n + 1 > Cap(d) THEN Reserve(d, n + 1) ELSE d
    IN  NullTerminate([Store(e, 0, vs) EXCEPT !.n = Len(vs)])

(* The n1 elements from p on become vs: the iterator still points into the *)
(* old buffer after a reallocation. A difference larger than the capacity  *)
(* wraps round, and nothing is reallocated.                                *)
Rewrite(d, p, n1, vs) ==
    LET diff == Len(vs) - n1
    IN  IF diff > 0 /\ diff <= Cap(d) /\ d.n > Cap(d) - diff THEN Bad(d)
        ELSE NullTerminate(Sized(Store(Move(d, p + n1, p + Len(vs), d.n - p - n1), p, vs), diff))
ReplaceFill_unclamped(d, p, n1, n2, v) == Rewrite(d, p, n1, Times(n2, v))
ReplaceFill(d, p, n1, n2, v) == Rewrite(d, p, Less(n1, d.n - p), Times(n2, v))
ReplaceCopy(d, p, n1, vs)    == Rewrite(d, p, n1, vs)
(* By position, which must be one of an element.                           *)
ReplaceFrom(d, p, n1, vs) == IF p >= d.n THEN Bad(d) ELSE ReplaceCopy(d, p, n1, vs)

TrimLeft(d, k)  == IF k = 0 THEN d ELSE EraseRange(d, 0, k)          \* k spaces lead
TrimRight(d, k) == IF k = 0 THEN d ELSE EraseRange(d, d.n - k, d.n)  \* k spaces trail
Trim(d, i, j)   == TrimLeft(TrimRight(d, j), i)

Swapped(d, i, j) == Poke(Poke(d, i, d.cells[j + 1]), j, d.cells[i + 1])
ReverseAll(d) == FoldLeft(LAMBDA e, i : Swapped(e, i - 1, d.n - i), d, Up(d.n \div 2))

(* off = size is out of range, too: the exception leaves a noexcept check. *)
SubStr(d, off, n) ==
    IF off >= d.n THEN Bad(d) ELSE FromPtr(Part(d, off, off + Less(n, d.n - off)))
CopyTo(d, n, p) == Part(d, p, p + Less(n, d.n - p))

-----------------------------------------------------------------------------
(* The calls. No function here looks at a value but for the terminator:    *)
(* the elements of a state are numbered in their order.                    *)

Tidy(d) ==
    LET after == IF Room(d) = 0 THEN <<>>
                 ELSE <<IF d.cells[d.n + 1] = Nul THEN Nul ELSE Raw>>
    IN  [cells |-> Up(d.n) \o after \o Times(Room(d) - Len(after), Raw), n |-> d.n,
         ok |-> TRUE, leak |-> FALSE]
Put(d) == d.ok /\ Cap(d) <= MaxCap /\ st' = Tidy(d)
Places == 0 .. st.n
New(n) == [i \in 1 .. n |-> 20 + i]
Others == {Null} \cup {FromPtr(New(n)) : n \in 0 .. MaxNew}

InitStrings == st \in {Tidy(d) : d \in {Null} \cup UNION {{FromPtr(Up(n)), FromIter(Up(n))} : n \in 0 .. MaxNew}}

AddSome  == \E n \in 0 .. MaxNew :
    \/ Put(AppendSeq(st, Up(n))) \/ Put(AppendString(st, Up(n)))
    \/ Put(AssignSeq(st, Up(n))) \/ Put(CopyAssign(st, Up(n))) \/ Put(AssignAll(st, Up(n)))
    \/ \E p \in Places : Put(InsertN(st, p, n, 1)) \/ Put(ReplaceCopy(st, p, 0, Up(n)))
Replace  == \E p \in Places, n1, n2 \in 0 .. MaxNew :
    Put(ReplaceFill(st, p, n1, n2, 1)) \/ Put(ReplaceCopy(st, p, n1, Up(n2)))
EraseSome == \E i, j \in Places : i <= j /\ (Put(EraseRange(st, i, j)) \/ Put(SubStr(st, i, j)))
Shorten  == st.n > 0 /\ (Put(PopBack(st)) \/ Put(TrimLeft(st, 1)) \/ Put(TrimRight(st, 1)))
ResizeTo == \E n \in 0 .. MaxCap : \/ Put(Resize(st, n, 1)) \/ Put(Reserve(st, n))
                                   \/ \E k \in 0 .. n : Put(ResizeAndOverwrite(st, n, Up(k)))
Whole    == \/ Put(Clear(st)) \/ Put(ShrinkToFit(st)) \/ Put(AssignChar(st, 1))
            \/ Put(Null) \/ Put(ReverseAll(st))
TakeOver == \E e \in Others : Put(MoveAssign(st, e).to) \/ Put(MoveAssign(e, st).from)
                              \/ Put(AppendMoved(st, e).to)

NextStrings ==
    AddSome \/ Replace \/ EraseSome \/ Shorten \/ ResizeTo \/ Whole \/ TakeOver

-----------------------------------------------------------------------------

Holds(d, vs)   == d.ok /\ ~d.leak /\ d.n <= Cap(d) /\ Contents(d) = vs
Terminated(d)  == Room(d) > 0 /\ d.cells[d.n + 1] = Nul
(* The elements are vs, and c_str() ends behind them.                      *)
Leaves(d, vs)  == Holds(d, vs) /\ Terminated(d)
Right(d, wrong, vs) == Leaves(d, vs) <=> ~wrong

Kept(i)        == Part(st, 0, i)
From(i)        == Part(st, i, st.n)

(* Every call leaves its elements and a terminator behind them, within the *)
(* buffer. Wrong are: a copy assignment loses the buffer there was; a      *)
(* string built from iterators, and one that n characters are inserted at  *)
(* the end of with room to spare, are not terminated, and from input       *)
(* iterators it is twice as long; n characters inserted with room to spare *)
(* before more than n overwrite some; an erase to the end (npos) shifts    *)
(* the wrong way; a replacement that needs a larger buffer, or of more     *)
(* elements than there are, writes elsewhere; so does an append of own     *)
(* elements that needs a larger buffer; substr(size) ends the program.     *)
BuildsSound ==
    \A n \in 0 .. MaxNew :
       LET vs == New(n)
       IN  /\ Leaves(FromPtr(vs), vs)
           /\ Holds(FromIter(vs), vs) /\ ~Terminated(FromIter(vs))
           /\ Right(FromInput(vs), n > 0, vs) \/ n = 0
           /\ Leaves(AppendSeq(st, vs), Kept(st.n) \o vs)
           /\ Leaves(Plus(Contents(st), vs), Contents(st) \o vs)
           /\ Holds(AppendString(st, vs), Kept(st.n) \o vs)
           /\ Leaves(AssignSeq(st, vs), vs) /\ Leaves(AssignAll(st, vs), vs)
           /\ Right(CopyAssign(st, vs), Cap(st) > 0, vs)
           /\ \A k \in n .. MaxNew : Leaves(ResizeAndOverwrite(st, k, vs), vs)
           /\ \A p \in Places :
                 LET d == InsertN(st, p, n, 7)
                 IN  /\ Holds(d, Kept(p) \o Times(n, 7) \o From(p)) <=>
                            \/ n = 0 \/ Room(st) < n \/ p = st.n
                            \/ st.n - p <= n /\ p + 2 * n <= Cap(st)
                     /\ (n > 0 /\ Room(st) < n) => Terminated(d)
                     /\ (n > 0 /\ Room(st) = n /\ p = st.n) => ~Terminated(d)
           /\ \A i \in Places : i + n <= st.n =>
                 Right(AppendOwn(st, i, n), Room(st) < n, Kept(st.n) \o Part(st, i, i + n))

ShrinksSound ==
    /\ \A i \in Places :
          /\ \A j \in i .. st.n : Leaves(EraseRange(st, i, j), Kept(i) \o From(j))
          /\ ~Holds(EraseToEnd(st, i), Kept(i))
          /\ (i < st.n) => Leaves(SubStr(st, i, MaxCap), From(i))
          /\ \A n \in 0 .. MaxCap : SubStr(st, i, n).ok <=> i < st.n
          /\ CopyTo(st, MaxCap, i) = From(i)
          /\ (st.n - i > 0) => Leaves(TrimLeft(st, st.n - i), From(st.n - i))
          /\ \A j \in 1 .. st.n - i : Leaves(Trim(st, i, j), Part(st, i, st.n - j))
    /\ st.n > 0 => Leaves(PopBack(st), Kept(st.n - 1))
    /\ \A n \in 0 .. MaxCap :
          /\ Leaves(Resize(st, n, 7), Kept(Less(n, st.n)) \o Times(Larger(n - st.n, 0), 7))
          /\ Holds(Reserve(st, n), Contents(st)) /\ Cap(Reserve(st, n)) > n
    /\ Leaves(Clear(st), <<>>) /\ Leaves(AssignChar(st, 7), <<7>>)
    /\ Holds(ShrinkToFit(st), Contents(st))
    /\ Contents(ReverseAll(st)) = Reverse(Contents(st))

Fits(n1, n2) == st.n + Larger(n2 - n1, 0) <= Cap(st)

ReplacesSound ==
    /\ \A p \in Places, n1, n2 \in 0 .. MaxNew :
          LET k == Less(n1, st.n - p)
          IN  /\ Right(ReplaceFill(st, p, n1, n2, 7), ~Fits(k, n2),
                       Kept(p) \o Times(n2, 7) \o From(p + k))
              /\ Right(ReplaceCopy(st, p, n1, New(n2)), p + n1 > st.n \/ ~Fits(n1, n2),
                       Kept(p) \o New(n2) \o From(p + k))
              /\ p < st.n => ReplaceFrom(st, p, n1, New(n2)) = ReplaceCopy(st, p, n1, New(n2))
              /\ ~ReplaceFrom(st, st.n, n1, New(n2)).ok
    /\ \A e \in Others :
          /\ MoveAssign(st, e) = [to |-> e, from |-> Clear(st)]
          /\ Leaves(MoveAssign(st, e).from, <<>>)
          /\ Holds(AppendMoved(st, e).to, Contents(st) \o Contents(e))
          /\ AppendMoved(st, e).from.n = 0

StringsSound == BuildsSound /\ ShrinksSound /\ ReplacesSound

=============================================================================
