------------------------------ MODULE CStrings ------------------------------
(***************************************************************************)
(* The functions on memory and on C strings of                             *)
(* include/MSTL/core/basiclib.hpp. A string is a sequence of characters    *)
(* that ends with 0, a pointer a position in it, counted from 0, and       *)
(* NullPtr the null pointer. Characters are signed.                        *)
(***************************************************************************)
EXTENDS Integers, Sequences, SequencesExt, FiniteSetsExt

CONSTANTS
    Letters,    \* characters of the strings
    MaxText,    \* bound: characters of the first string
    MaxWord,    \* bound: characters of the second one
    MaxCells    \* bound: cells of a memory

VARIABLE st     \* text, word: two strings without their terminator

NullPtr == -1
Up(n) == [i \in 1 .. n |-> i]
Times(n, v) == [i \in 1 .. n |-> v]
Less(i, j) == IF i < j THEN i ELSE j
Sign(i) == IF i < 0 THEN -1 ELSE IF i > 0 THEN 1 ELSE 0
At(s, i) == s[i + 1]
C(w) == w \o <<0>>
FirstWith(P, none) == IF P = {} THEN none ELSE Min(P)

Lower(c)    == IF c \in 65 .. 90 THEN c + 32 ELSE c             \* to_lowercase
UpperCase(c) == IF c \in 97 .. 122 THEN c - 32 ELSE c           \* to_uppercase
Digit(c)    == c \in 48 .. 57
Unsigned(c) == c % 256

-----------------------------------------------------------------------------
(* Memory: n cells of m from position p to position q.                     *)

Set1(m, q, p) == [m EXCEPT ![q + 1] = m[p + 1]]
MemoryCopy(m, q, p, n) == FoldLeft(LAMBDA x, i : Set1(x, q + i - 1, p + i - 1), m, Up(n))
MemoryMove(m, q, p, n) ==
    IF q < p THEN MemoryCopy(m, q, p, n)
    ELSE IF q > p THEN FoldLeft(LAMBDA x, i : Set1(x, q + n - i, p + n - i), m, Up(n))
    ELSE m
(* The copy ends behind the first cell that holds c.                       *)
MemoryCharCopy(m, q, p, c, n) ==
    LET k == FirstWith({i \in 0 .. n - 1 : At(m, p + i) = c}, n)
    IN  [mem |-> MemoryCopy(m, q, p, IF k = n THEN n ELSE k + 1),
         ret |-> IF k = n THEN NullPtr ELSE q + k + 1]
MemorySet(m, q, v, n) == FoldLeft(LAMBDA x, i : [x EXCEPT ![q + i] = v], m, Up(n))
MemoryChar(m, c, n) == FirstWith({i \in 0 .. n - 1 : At(m, i) = c}, NullPtr)

RECURSIVE MemoryCompare(_, _, _)
MemoryCompare(s, t, n) ==
    IF n = 0 THEN 0
    ELSE IF Head(s) # Head(t) THEN Head(s) - Head(t)
    ELSE MemoryCompare(Tail(s), Tail(t), n - 1)
MemoryCompareIgnoreCase(s, t, n) ==
    LET k == FirstWith({i \in 1 .. n : Lower(s[i]) # Lower(t[i])}, 0)
    IN  IF k = 0 THEN 0 ELSE Unsigned(Lower(s[k])) - Unsigned(Lower(t[k]))
MemoryInMemory(s, w) ==
    IF s = <<>> \/ w = <<>> \/ Len(w) > Len(s) THEN NullPtr
    ELSE FirstWith({i \in 0 .. Len(s) - Len(w) :
                        MemoryCompare(SubSeq(s, i + 1, i + Len(w)), w, Len(w)) = 0}, NullPtr)
Frobnicate(s) == [i \in DOMAIN s |-> LET u == Unsigned(s[i])        \* xor 42, bit by bit
                                         bit(k) == (u \div k) % 2
                                         flip(k) == IF bit(k) = 1 THEN -k ELSE k
                                     IN  u + flip(2) + flip(8) + flip(32)]

-----------------------------------------------------------------------------
(* Strings: s and t hold their terminator.                                 *)

StringLength(s) == FirstWith({i \in 0 .. Len(s) - 1 : At(s, i) = 0}, NullPtr)
Value(s) == SubSeq(s, 1, StringLength(s))

(* dest becomes the source and its terminator; stpcpy's end, too.          *)
StringCopy(dest, s) == [i \in DOMAIN dest |-> IF i <= StringLength(s) + 1 THEN s[i] ELSE dest[i]]
StringCopyOffset(s) == StringLength(s) - 1
WriteAt(dest, q, w) == [i \in DOMAIN dest |-> IF i \in q + 1 .. q + Len(w) THEN w[i - q] ELSE dest[i]]
StringConcatenate(dest, s) == WriteAt(dest, StringLength(dest), C(Value(s)))

RECURSIVE StringCompare(_, _)
StringCompare(s, t) ==
    IF Head(s) = Head(t) THEN IF Head(s) = 0 THEN 0 ELSE StringCompare(Tail(s), Tail(t))
    ELSE IF Head(s) > Head(t) THEN 1 ELSE -1

RECURSIVE StringCompareIgnoreCase(_, _)
StringCompareIgnoreCase(s, t) ==
    IF Head(s) # 0 /\ Head(t) # 0
    THEN IF Lower(Head(s)) # Lower(Head(t)) THEN Sign(Lower(Head(s)) - Lower(Head(t)))
         ELSE StringCompareIgnoreCase(Tail(s), Tail(t))
    ELSE Sign(Head(s) - Head(t))

(* A run of digits compares as a number: without its zeros, longer is more *)
RECURSIVE SkipZeros(_)
SkipZeros(s) == IF Head(s) = 48 /\ Digit(s[2]) THEN SkipZeros(Tail(s)) ELSE s
RunLength(s) == FirstWith({i \in 0 .. Len(s) - 1 : ~Digit(At(s, i))}, 0)
After(s, i) == SubSeq(s, i + 1, Len(s))
RECURSIVE StringCompareNatural(_, _)
StringCompareNatural(s, t) ==
    LET u == SkipZeros(s)
        v == SkipZeros(t)
        n == RunLength(u)
        c == MemoryCompare(u, v, n)
    IN  IF Head(s) = 0 \/ Head(t) = 0 THEN Head(s) - Head(t)
        ELSE IF Digit(Head(s)) /\ Digit(Head(t))
        THEN IF n # RunLength(v) THEN Sign(n - RunLength(v))
             ELSE IF c # 0 THEN c ELSE StringCompareNatural(After(u, n), After(v, n))
        ELSE IF Head(s) # Head(t) THEN Head(s) - Head(t)
        ELSE StringCompareNatural(Tail(s), Tail(t))

StringChar(s, c) == FirstWith({i \in 0 .. StringLength(s) : At(s, i) = c}, NullPtr)
StringLastChar(s, c) ==
    LET P == {i \in 0 .. StringLength(s) - 1 : At(s, i) = c} IN IF P = {} THEN NullPtr ELSE Max(P)
In(c, w) == \E i \in 1 .. StringLength(w) : w[i] = c
StringSpanIn(s, w) ==
    IF Head(w) = 0 THEN 0 ELSE FirstWith({i \in 0 .. StringLength(s) - 1 : ~In(At(s, i), w)}, StringLength(s))
StringSpanNotIn(s, w) == FirstWith({i \in 0 .. StringLength(s) - 1 : In(At(s, i), w)}, StringLength(s))
StringFindAny(s, w)   == FirstWith({i \in 0 .. StringLength(s) - 1 : In(At(s, i), w)}, NullPtr)
StringToLowercase(s)  == [i \in DOMAIN s |-> Lower(s[i])]
StringToUppercase(s)  == [i \in DOMAIN s |-> UpperCase(s[i])]

RECURSIVE Prefix(_, _)
Prefix(w, s) == Head(w) = 0 \/ (Head(s) = Head(w) /\ Prefix(Tail(w), Tail(s)))
(* Only places before the terminator are tried.                            *)
StringInString(s, w) == FirstWith({i \in 0 .. StringLength(s) - 1 : Prefix(w, After(s, i))}, NullPtr)
StringInStringIgnoredCase(s, w) ==
    IF Head(w) = 0 THEN 0 ELSE StringInString(StringToLowercase(s), StringToLowercase(w))

(* The two ends meet at the position that is returned.                     *)
StringReverse(s) == [mem |-> C(Reverse(Value(s))), ret |-> StringLength(s) \div 2]

-----------------------------------------------------------------------------
(* At most n characters.                                                   *)

StringNCopy(s, n) == [i \in 1 .. n |-> IF i <= StringLength(s) THEN s[i] ELSE 0]
StringNCopyOffset(n) == n
StringNConcatenate(dest, s, n) ==
    WriteAt(dest, StringLength(dest), C(SubSeq(s, 1, Less(n, StringLength(s)))))
StringNLength(s, n) == Less(n, StringLength(s))
(* The character behind the last one that counts is read first.            *)
StringNLengthReads(s, n) == Less(n, StringLength(s)) + 1
StringNSet(s, v, n) == [i \in DOMAIN s |-> IF i <= Less(n, StringLength(s)) THEN v ELSE s[i]]

Reach(s, t, n) == 0 .. Less(n, Less(Len(s), Len(t))) - 1     \* one of them ends there
(* Both comparisons return 0 when they reach the last character to compare *)
StringNCompare_all(s, t, n) ==
    LET k == FirstWith({i \in Reach(s, t, n) : At(s, i) # At(t, i) \/ At(s, i) = 0}, n)
    IN  IF k = n THEN 0 ELSE Sign(At(s, k) - At(t, k))
StringNCompare(s, t, n) ==
    LET k == FirstWith({i \in Reach(s, t, n - 1) : At(s, i) # At(t, i) \/ At(s, i) = 0}, n - 1)
    IN  IF n = 0 \/ k = n - 1 THEN 0 ELSE Sign(At(s, k) - At(t, k))
StringNCompareIgnoreCase(s, t, n) ==
    LET k == FirstWith({i \in Reach(s, t, n - 1) : \/ Lower(At(s, i)) # Lower(At(t, i))
                                                  \/ At(s, i) = 0 \/ At(t, i) = 0}, n - 1)
    IN  IF n = 0 \/ k = n - 1 THEN 0 ELSE Sign(Lower(At(s, k)) - Lower(At(t, k)))

(* strlcpy and strlcat: the cells of dest and the value returned.          *)
StringCopySafe(dest, s, size) ==
    [mem |-> IF size = 0 THEN dest ELSE WriteAt(dest, 0, C(SubSeq(s, 1, Less(size - 1, StringLength(s))))),
     ret |-> StringLength(s)]
StringConcatenateSafe(dest, s, size) ==
    LET n    == StringNLength(dest, size)
        room == size - n - 1
    IN  [mem |-> IF n >= size \/ StringNLength(s, room) = 0 THEN dest
                 ELSE WriteAt(dest, n, C(SubSeq(s, 1, Less(room, StringLength(s))))),
         ret |-> IF size = 0 THEN StringNLength(s, 0) ELSE n + StringNLength(s, size)]

-----------------------------------------------------------------------------
(* The tokenizers keep where they are between calls: m is the string, at   *)
(* the place the next call goes on from, got what was returned so far.     *)

Isolate(m, i) == IF i \in DOMAIN m THEN [m EXCEPT ![i] = 0] ELSE m
TokenAt(m, i) == Value(After(m, i))

RECURSIVE Tokens(_, _, _, _)
Tokens(m, at, w, got) ==
    LET start == FirstWith({i \in at .. Len(m) - 1 : At(m, i) = 0 \/ ~In(At(m, i), w)}, Len(m) - 1)
        end   == FirstWith({i \in start .. Len(m) - 1 : At(m, i) = 0 \/ In(At(m, i), w)}, Len(m) - 1)
        cut   == Isolate(m, end + 1)
    IN  IF At(m, start) = 0 THEN got
        ELSE IF At(m, end) = 0 THEN Append(got, TokenAt(m, start))
        ELSE Tokens(cut, end + 1, w, Append(got, TokenAt(cut, start)))

(* Backwards: the end of a token is found, not marked. 0 counts for a      *)
(* delimiter.                                                              *)
Stop(c, w) == c = 0 \/ In(c, w)
RECURSIVE LastTokens(_, _, _, _)
LastTokens(m, at, w, got) ==
    LET P     == {i \in 0 .. at - 1 : ~Stop(At(m, i), w)}
        end   == Max(P)
        start == Max({0} \cup {i \in 1 .. end : Stop(At(m, i - 1), w)})
        cut   == Isolate(m, start)
    IN  IF P = {} THEN got
        ELSE IF start = 0 THEN Append(got, TokenAt(m, 0))
        ELSE LastTokens(cut, start, w, Append(got, TokenAt(cut, start)))

StringToken(s, w)     == Tokens(s, 0, w, <<>>)
StringLastToken(s, w) == LastTokens(s, StringLength(s), w, <<>>)

-----------------------------------------------------------------------------

Words(n) == UNION {[1 .. k -> Letters] : k \in 0 .. n}
InitCStrings == st \in [text : {<<>>}, word : Words(MaxWord)]
NextCStrings == Len(st.text) < MaxText /\ \E c \in Letters : st' = [st EXCEPT !.text = Append(@, c)]

x == st.text
y == st.word
s0 == C(x)
t0 == C(y)
Cells == Up(MaxCells)
Before(a, b) ==
    \E k \in 0 .. Less(Len(a), Len(b)) :
        /\ SubSeq(a, 1, k) = SubSeq(b, 1, k)
        /\ IF k = Len(a) THEN k < Len(b) ELSE k < Len(b) /\ At(a, k) < At(b, k)
Order(a, b) == IF a = b THEN 0 ELSE IF Before(a, b) THEN -1 ELSE 1
Lowered(a) == [i \in DOMAIN a |-> Lower(a[i])]
First(a, n) == SubSeq(a, 1, Less(n, Len(a)))

(* The n cells at p are at q afterwards, and no other cell has changed.    *)
Copied(m, q, p, n) ==
    \A i \in 1 .. MaxCells : m[i] = IF i \in q + 1 .. q + n THEN Cells[i - q + p] ELSE Cells[i]

(* memory_move is right however the ranges lie, memory_copy unless the     *)
(* destination begins inside the source.                                   *)
MemorySound ==
    \A p, q \in 0 .. MaxCells - 1 : \A n \in 0 .. MaxCells - (IF p > q THEN p ELSE q) :
       /\ Copied(MemoryMove(Cells, q, p, n), q, p, n)
       /\ Copied(MemoryCopy(Cells, q, p, n), q, p, n) <=> ~(p < q /\ q < p + n)
       /\ \A c \in 1 .. MaxCells :
             LET r == MemoryCharCopy(Cells, q, p, c, n)
                 k == Less(n, c - p)
             IN  (q <= p /\ c > p) => /\ Copied(r.mem, q, p, k)
                                      /\ r.ret = IF c - p <= n THEN q + k ELSE NullPtr
       /\ MemorySet(Cells, q, 0, n) = [i \in 1 .. MaxCells |-> IF i \in q + 1 .. q + n THEN 0 ELSE i]
       /\ MemoryChar(Cells, p + 1, n) = IF p < n THEN p ELSE NullPtr

(* Comparing tells the lexicographical order of the characters as signed   *)
(* numbers: the end, 0, comes after a negative character. The two          *)
(* functions that compare n characters compare n - 1.                      *)
CompareSound ==
    /\ Len(x) = Len(y) => /\ Sign(MemoryCompare(x, y, Len(x))) = Order(x, y)
                          /\ (MemoryCompareIgnoreCase(x, y, Len(x)) = 0) <=> Lowered(x) = Lowered(y)
    /\ StringCompare(s0, t0) = Order(s0, t0)
    /\ StringCompareIgnoreCase(s0, t0) = Order(Lowered(s0), Lowered(t0))
    /\ \A n \in 1 .. MaxText + 1 :
          /\ StringNCompare(s0, t0, n) = Order(First(s0, n - 1), First(t0, n - 1))
          /\ StringNCompareIgnoreCase(s0, t0, n)
                = Order(Lowered(First(s0, n - 1)), Lowered(First(t0, n - 1)))

(* The natural order is one: antisymmetric, transitive, and by value when  *)
(* both strings are numbers.                                               *)
Natural(a, b) == Sign(StringCompareNatural(C(a), C(b)))
Number(a) == FoldLeft(LAMBDA n, c : 10 * n + c - 48, 0, a)
Digits(a) == a # <<>> /\ \A i \in DOMAIN a : Digit(a[i])
NaturalSound ==
    /\ Natural(x, y) = -Natural(y, x)
    /\ (Digits(x) /\ Digits(y)) => Natural(x, y) = Sign(Number(x) - Number(y))
    /\ \A z \in Words(1) : (Natural(x, y) <= 0 /\ Natural(y, z) <= 0) => Natural(x, z) <= 0

Occurs(i) == i + Len(y) <= Len(x) /\ SubSeq(x, i + 1, i + Len(y)) = y
Places == {i \in 0 .. Len(x) : Occurs(i)}
(* Searches find the first place, except that nothing is found in an empty *)
(* string, and strrchr of the terminator finds nothing. A run of spaces    *)
(* and a run of others make up the string.                                 *)
SearchesSound ==
    /\ StringLength(s0) = Len(x) /\ Value(s0) = x
    /\ (StringInString(s0, t0) = FirstWith(Places, NullPtr)) <=> ~(x = <<>> /\ y = <<>>)
    /\ (y # <<>>) => MemoryInMemory(x, y) = FirstWith(Places, NullPtr)
    /\ Places # {} => StringInStringIgnoredCase(s0, t0) \in 0 .. Min(Places)
    /\ \A c \in Letters \cup {0} :
          /\ StringChar(s0, c) = FirstWith({i \in 0 .. Len(x) : At(s0, i) = c}, NullPtr)
          /\ c # 0 => (StringLastChar(s0, c) = NullPtr) = (StringChar(s0, c) = NullPtr)
          /\ c = 0 => StringLastChar(s0, c) = NullPtr
    /\ LET n == StringSpanIn(s0, t0)
           m == StringSpanNotIn(s0, t0)
       IN  /\ n = 0 \/ m = 0
           /\ x # <<>> => n + m > 0
           /\ StringFindAny(s0, t0) = IF m < Len(x) THEN m ELSE NullPtr
    /\ Frobnicate(Frobnicate(x)) = [i \in DOMAIN x |-> Unsigned(x[i])]
    /\ StringToUppercase(StringToLowercase(s0)) = StringToUppercase(s0)

Dest == C(y) \o Times(MaxText + 1, 7)
(* The copies leave the whole string and its terminator. stpcpy returns    *)
(* the place before the terminator; the reversal returns where its two     *)
(* ends met; strnlen reads a character too many; strlcat returns a length  *)
(* cut at the size of the destination.                                     *)
CopiesSound ==
    /\ Value(StringCopy(Dest, s0)) = x /\ StringCopyOffset(s0) = Len(x) - 1
    /\ Value(StringConcatenate(Dest, s0)) = y \o x
    /\ StringReverse(s0).mem = C(Reverse(x)) /\ (StringReverse(s0).ret = 0 <=> Len(x) < 2)
    /\ \A n \in 0 .. MaxText + 1 :
          /\ StringNCopy(s0, n) = First(x, n) \o Times(n - Len(First(x, n)), 0)
          /\ StringNCopyOffset(n) = n
          /\ Value(StringNConcatenate(Dest, s0, n)) = y \o First(x, n)
          /\ StringNLengthReads(s0, n) <= n <=> Len(x) < n
          /\ Value(StringNSet(s0, 9, n)) = Times(StringNLength(s0, n), 9) \o SubSeq(x, n + 1, Len(x))
          /\ LET r == StringCopySafe(Dest, s0, n)
             IN  r.ret = Len(x) /\ Value(r.mem) = IF n = 0 THEN y ELSE First(x, n - 1)
          /\ LET r == StringConcatenateSafe(Dest, s0, n)
             IN  /\ Value(r.mem) = y \o First(x, IF n > Len(y) THEN n - Len(y) - 1 ELSE 0)
                 /\ r.ret = Less(Len(y), n) + Len(x) <=> Len(x) <= n

(* The tokens are the longest runs without a delimiter. Taken from the     *)
(* back, one keeps the delimiters behind it but the last, unless the       *)
(* string ends there.                                                      *)
Delimits(i) == i \in {0, Len(x) + 1} \/ In(x[i], t0)
Runs ==
    LET ends == {b \in 1 .. Len(x) : ~Delimits(b) /\ Delimits(b + 1)}
        from(b) == 1 + Max({a \in 0 .. b - 1 : Delimits(a)})
    IN  [k \in 1 .. Cardinality(ends) |->
            LET b == CHOOSE e \in ends : Cardinality({d \in ends : d <= e}) = k
            IN  SubSeq(x, from(b), b)]
CleanEnds == Len(x) > 0 => /\ ~Delimits(Len(x))
                           /\ \A i \in 1 .. Len(x) : (Delimits(i) /\ Delimits(i + 1)) =>
                                                          \A j \in 1 .. i : Delimits(j)
TokensSound ==
    /\ StringToken(s0, t0) = Runs
    /\ (StringLastToken(s0, t0) = Reverse(Runs)) <=> (CleanEnds \/ Runs = <<>>)

(* memory and strings: each call does what its standard namesake does, and *)
(* fails to where the parts say so.                                        *)
CStringsSound ==
    /\ x = <<>> => MemorySound
    /\ CompareSound /\ NaturalSound /\ SearchesSound /\ CopiesSound /\ TokensSound

=============================================================================
