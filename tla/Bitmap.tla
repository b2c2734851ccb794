------------------------------- MODULE Bitmap -------------------------------
(***************************************************************************)
(* The bitmap of include/MSTL/core/bitmap.hpp: bits packed into words (of  *)
(* 32 bits in the code), reached by iterators made of a word and an        *)
(* offset. A call works on the buffer of the bitmap, "old", and at most    *)
(* one fresh buffer, "new", that takes its place. An iterator is a record  *)
(* of a buffer, a word and an offset. ok turns FALSE when a bit outside    *)
(* the buffers is touched.                                                 *)
(***************************************************************************)
EXTENDS Integers, Sequences

CONSTANTS
    WordBits,   \* MSTL_WORD_BIT_SIZE
    MaxWords,   \* bound: words of a buffer
    MaxBits     \* bound: bits inserted by one call

ASSUME BitmapAssumption == WordBits \in Nat \ {0} /\ MaxWords \in Nat /\ MaxBits \in Nat

VARIABLE maps   \* a: the bitmap, b: another one

map == maps.a
Blank == 0

-----------------------------------------------------------------------------
(* Iterators.                                                              *)

It(buf, p, o) == [buf |-> buf, p |-> p, o |-> o]
BumpUp(i)   == IF i.o = WordBits - 1 THEN It(i.buf, i.p + 1, 0) ELSE It(i.buf, i.p, i.o + 1)
BumpDown(i) == IF i.o = 0 THEN It(i.buf, i.p - 1, WordBits - 1) ELSE It(i.buf, i.p, i.o - 1)
Diff(i, j)  == WordBits * (i.p - j.p) + i.o - j.o

(* operator += : the division truncates towards zero.                      *)
Quotient(k) == IF k >= 0 THEN k \div WordBits ELSE 0 - ((0 - k) \div WordBits)
Advance_floor(i, n) ==
    LET q == Quotient(n + i.o)
    IN  It(i.buf, i.p + q, (n + i.o - q * WordBits + WordBits) % WordBits)
Advance(i, n) ==
    LET q == Quotient(n + i.o)
        r == n + i.o - q * WordBits
    IN  IF r < 0 THEN It(i.buf, i.p + q - 1, r + WordBits) ELSE It(i.buf, i.p + q, r)

-----------------------------------------------------------------------------
(* The memory of a call, and a bitmap: its words and its finish_.          *)

BitAlloc(n) == [p \in 1 .. (n + WordBits - 1) \div WordBits |-> [o \in 1 .. WordBits |-> Blank]]
Words(m, i) == IF i.buf = "old" THEN m.old ELSE m.new
InWords(m, i) == i.p + 1 \in DOMAIN Words(m, i) /\ i.o \in 0 .. WordBits - 1
Bit(m, i)   == IF InWords(m, i) THEN Words(m, i)[i.p + 1][i.o + 1] ELSE Blank
SetBit(ws, i, v) == [ws EXCEPT ![i.p + 1][i.o + 1] = v]
PokeBit(m, i, v) ==
    IF ~InWords(m, i) THEN [m EXCEPT !.ok = FALSE]
    ELSE IF i.buf = "old" THEN [m EXCEPT !.old = SetBit(@, i, v)]
    ELSE [m EXCEPT !.new = SetBit(@, i, v)]

Start(d)    == It("old", 0, 0)
Finish(d)   == It("old", d.f[1], d.f[2])
Size(d)     == Diff(Finish(d), Start(d))
Capacity(d) == Diff(It("old", Len(d.words), 0), Start(d))
AtEnd(d)    == d.f[1] = Len(d.words)          \* finish_.ptr_ = end_of_storage_
Memory(d, n) == [old |-> d.words, new |-> BitAlloc(n), ok |-> d.ok]
Keeping(m, f)  == [words |-> m.old, f |-> <<f.p, f.o>>, ok |-> m.ok]
Adopting(m, f) == [words |-> m.new, f |-> <<f.p, f.o>>, ok |-> m.ok]

(* The rounds of bit_copy and bit_copy_backward of [first, last), and of   *)
(* the writing of given bits: the memory and the iterators after each.     *)
Rounds(n) == IF n > 0 THEN n ELSE 0
CopyRound(e) == [m |-> PokeBit(e.m, e.to, Bit(e.m, e.from)), from |-> BumpUp(e.from), to |-> BumpUp(e.to)]
BitCopy(m, first, last, result) ==
    LET n == Rounds(Diff(last, first))
        after[k \in 0 .. n] ==
            IF k = 0 THEN [m |-> m, from |-> first, to |-> result] ELSE CopyRound(after[k - 1])
    IN  after[n]

BackRound(e) ==
    LET s == BumpDown(e.from)
        t == BumpDown(e.to)
    IN  [m |-> PokeBit(e.m, t, Bit(e.m, s)), from |-> s, to |-> t]
BitCopyBackward(m, first, last, result) ==
    LET n == Rounds(Diff(last, first))
        after[k \in 0 .. n] ==
            IF k = 0 THEN [m |-> m, from |-> last, to |-> result] ELSE BackRound(after[k - 1])
    IN  after[n].m

WriteRound(e, v) == [m |-> PokeBit(e.m, e.to, v), to |-> BumpUp(e.to)]
Write(m, i, vs) ==
    LET after[k \in 0 .. Len(vs)] ==
            IF k = 0 THEN [m |-> m, to |-> i] ELSE WriteRound(after[k - 1], vs[k])
    IN  after[Len(vs)]

-----------------------------------------------------------------------------
(* The calls.                                                              *)

NoBits == [words |-> <<>>, f |-> <<0, 0>>, ok |-> TRUE]
Initialize(n) == LET f == Advance(It("old", 0, 0), n) IN [words |-> BitAlloc(n), f |-> <<f.p, f.o>>, ok |-> TRUE]
BitsFrom(vs) == LET d == Initialize(Len(vs)) IN Keeping(Write(Memory(d, 0), Start(d), vs).m, Finish(d))

(* A fresh buffer for len bits, with vs between the bits before and after. *)
Regrow(d, pos, vs, len) ==
    LET u == BitCopy(Memory(d, len), Start(d), pos, It("new", 0, 0))
        v == Write(u.m, u.to, vs)
        w == BitCopy(v.m, pos, Finish(d), v.to)
    IN  Adopting(w.m, w.to)

(* Room is made by moving the bits after pos up by n.                      *)
MoveUp(d, pos, vs) ==
    LET f == Advance(Finish(d), Len(vs))
    IN  Keeping(Write(BitCopyBackward(Memory(d, 0), pos, Finish(d), f), pos, vs).m, f)

InsertAux(d, pos, x) ==
    IF ~AtEnd(d) THEN MoveUp(d, pos, <<x>>)
    ELSE Regrow(d, pos, <<x>>, IF Size(d) > 0 THEN 2 * Size(d) ELSE WordBits)

PutLast(d, x) == Keeping(PokeBit(Memory(d, 0), Finish(d), x), BumpUp(Finish(d)))    \* *finish_++ = x
InsertBit(d, pos, x) == IF ~AtEnd(d) /\ pos = Finish(d) THEN PutLast(d, x) ELSE InsertAux(d, pos, x)
PushBit(d, x) == IF ~AtEnd(d) THEN PutLast(d, x) ELSE InsertAux(d, Finish(d), x)

(* insert of n copies and of a range of bools.                             *)
InsertBits(d, pos, vs) ==
    LET n == Len(vs)
    IN  IF n = 0 THEN d
        ELSE IF Capacity(d) - Size(d) >= n THEN MoveUp(d, pos, vs)
        ELSE Regrow(d, pos, vs, Size(d) + IF Size(d) > n THEN Size(d) ELSE n)

ReserveBits(d, n) ==
    LET u == BitCopy(Memory(d, n), Start(d), Finish(d), It("new", 0, 0))
    IN  IF Capacity(d) < n THEN Adopting(u.m, u.to) ELSE d

PopBit(d) == Keeping(Memory(d, 0), BumpDown(Finish(d)))
EraseBit(d, pos) ==
    LET next == Advance(pos, 1)
        m == IF next # Finish(d) THEN BitCopy(Memory(d, 0), next, Finish(d), pos).m ELSE Memory(d, 0)
    IN  Keeping(m, BumpDown(Finish(d)))
EraseBits(d, first, last) == LET u == BitCopy(Memory(d, 0), last, Finish(d), first) IN Keeping(u.m, u.to)
ClearBits(d) == EraseBits(d, Start(d), Finish(d))

ResizeBits(d, n, x) ==
    IF n < Size(d) THEN EraseBits(d, Advance(Start(d), n), Finish(d))
    ELSE InsertBits(d, Finish(d), [i \in 1 .. n - Size(d) |-> x])

AssignBits(d, vs) ==
    LET e == IF Len(vs) > Capacity(d) THEN Initialize(Len(vs)) ELSE d
    IN  Keeping(Write(Memory(e, 0), Start(e), vs).m, Advance(Start(e), Len(vs)))

-----------------------------------------------------------------------------
(* The steps. No function looks at a bit: those of a state are numbered.   *)

BitsOf(d) == [k \in 1 .. Size(d) |-> Bit(Memory(d, 0), Advance(Start(d), k - 1))]
Counted(n) == [i \in 1 .. n |-> i]
Blanks(n)  == [i \in 1 .. n |-> Blank]
NumberedBits(d) ==
    LET Place(k) == IF k <= Size(d) THEN k ELSE Blank
    IN  [d EXCEPT !.words =
            [p \in 1 .. Len(d.words) |-> [o \in 1 .. WordBits |-> Place((p - 1) * WordBits + o)]]]
PutBits(d) == Len(d.words) <= MaxWords /\ maps' = [maps EXCEPT !.a = NumberedBits(d)]
Pos(d, k) == Advance(Start(d), k)
BitPlaces == 0 .. Size(map)

InitBitmap == maps = [a |-> NoBits, b |-> NoBits]

PushStep   == PutBits(PushBit(map, Blank))
PopStep    == Size(map) > 0 /\ PutBits(PopBit(map))
InsertStep == \E k \in BitPlaces :
    \/ PutBits(InsertBit(map, Pos(map, k), Blank))
    \/ \E n \in 1 .. MaxBits : PutBits(InsertBits(map, Pos(map, k), Blanks(n)))
EraseStep  == \E j, k \in BitPlaces :
    \/ j <= k /\ PutBits(EraseBits(map, Pos(map, j), Pos(map, k)))
    \/ j < Size(map) /\ PutBits(EraseBit(map, Pos(map, j)))
SizeStep   == \E n \in 0 .. WordBits * MaxWords :
    PutBits(ResizeBits(map, n, Blank)) \/ PutBits(ReserveBits(map, n))
ClearStep  == PutBits(ClearBits(map))
OtherMap   == \E n \in 0 .. MaxBits : maps' = [maps EXCEPT !.b = BitsFrom(Counted(n))]
CopyStep   == PutBits(AssignBits(map, BitsOf(maps.b)))
SwapStep   == maps' = [a |-> maps.b, b |-> map]

NextBitmap ==
    PushStep \/ PopStep \/ InsertStep \/ EraseStep \/ SizeStep \/ ClearStep \/ OtherMap \/ CopyStep \/ SwapStep

SpecBitmap == InitBitmap /\ [][NextBitmap]_maps

-----------------------------------------------------------------------------

HoldsBits(d, vs) == d.ok /\ d.f[2] \in 0 .. WordBits - 1 /\ Size(d) <= Capacity(d) /\ BitsOf(d) = vs

(* What a call is to leave: vs before the bit k, or nothing of [j, k), or  *)
(* new bits, which are numbered after those there are.                     *)
WithBits(k, vs) == SubSeq(BitsOf(map), 1, k) \o vs \o SubSeq(BitsOf(map), k + 1, Size(map))
WithoutBits(j, k) == SubSeq(BitsOf(map), 1, j) \o SubSeq(BitsOf(map), k + 1, Size(map))
NewBit     == Size(map) + 1
NewBits(m) == [i \in 1 .. m |-> Size(map) + i]

AddsSound ==
    /\ HoldsBits(PushBit(map, NewBit), Append(BitsOf(map), NewBit))
    /\ \A k \in BitPlaces :
         /\ HoldsBits(InsertBit(map, Pos(map, k), NewBit), WithBits(k, <<NewBit>>))
         /\ \A m \in 0 .. MaxBits : HoldsBits(InsertBits(map, Pos(map, k), NewBits(m)), WithBits(k, NewBits(m)))
RemovesSound ==
    /\ HoldsBits(ClearBits(map), <<>>)
    /\ Size(map) > 0 => HoldsBits(PopBit(map), WithoutBits(Size(map) - 1, Size(map)))
    /\ \A j, k \in BitPlaces :
         /\ j <= k => HoldsBits(EraseBits(map, Pos(map, j), Pos(map, k)), WithoutBits(j, k))
         /\ j < Size(map) => HoldsBits(EraseBit(map, Pos(map, j)), WithoutBits(j, j + 1))
SizesSound ==
    \A m \in 0 .. WordBits * MaxWords :
        /\ HoldsBits(AssignBits(map, NewBits(m)), NewBits(m))
        /\ HoldsBits(ReserveBits(map, m), BitsOf(map)) /\ Capacity(ReserveBits(map, m)) >= m
        /\ HoldsBits(ResizeBits(map, m, NewBit), [i \in 1 .. m |-> IF i <= Size(map) THEN i ELSE NewBit])
(* Adding n to an iterator is n steps, for a negative n too, and their     *)
(* difference is the number of steps between two.                          *)
IteratorsSound ==
    \A j, k \in BitPlaces :
        /\ Advance(Pos(map, j), k - j) = Pos(map, k) /\ Diff(Pos(map, k), Pos(map, j)) = k - j
        /\ k > 0 => BumpDown(Pos(map, k)) = Pos(map, k - 1) /\ BumpUp(Pos(map, k - 1)) = Pos(map, k)

(* Every call leaves the bits its definition says, whatever word boundary  *)
(* they cross, and touches no bit outside the buffers; and iterators move  *)
(* over the boundaries as numbers do.                                      *)
BitmapSound ==
    HoldsBits(map, Counted(Size(map))) /\ AddsSound /\ RemovesSound /\ SizesSound /\ IteratorsSound

=============================================================================
