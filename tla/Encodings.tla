----------------------------- MODULE Encodings ------------------------------
(***************************************************************************)
(* Numbers and characters as text, and back: the conversions of            *)
(* include/MSTL/core/string.hpp (to UTF-8, escaping, to_string), of        *)
(* hexadecimal.hpp, and to_int64 and its like of utility.hpp. Text is the  *)
(* sequence of its codes; the integer types have the widths below.         *)
(***************************************************************************)
EXTENDS Integers, Sequences, SequencesExt, FiniteSetsExt

CONSTANTS
    Units,      \* code units of the strings to encode
    Signs,      \* characters of the numbers to parse
    MaxUnits,   \* bound: code units of a string
    MaxSigns,   \* bound: characters of a number
    LongBits,   \* bits of int64_t, uint64_t and long
    IntBits     \* bits of int32_t and uint32_t

VARIABLE st     \* [kind: "units" or "signs", text]

C == INSTANCE Characters

Thrown == <<>>                  \* instead of the number, and where it ends
At(s, i) == s[i + 1]
From(s, i) == SubSeq(s, i + 1, Len(s))
First(P, none) == IF P = {} THEN none ELSE Min(P)
RECURSIVE Power(_)
Power(n) == IF n = 0 THEN 1 ELSE 2 * Power(n - 1)
ToSigned(x, bits) ==                            \* a cast to a signed type
    LET u == x % Power(bits) IN IF u >= Power(bits - 1) THEN u - Power(bits) ELSE u

-----------------------------------------------------------------------------
(* UTF-8. What is no code point becomes U+FFFD.                            *)

Replacement == <<239, 191, 189>>
Tail6(cp, k) == 128 + ((cp \div k) % 64)
Utf8(cp) ==
    IF cp <= 127 THEN <<cp>>
    ELSE IF cp <= 2047 THEN <<192 + cp \div 64, Tail6(cp, 1)>>
    ELSE IF cp <= 65535 THEN <<224 + cp \div 4096, Tail6(cp, 64), Tail6(cp, 1)>>
    ELSE <<240 + cp \div 262144, Tail6(cp, 4096), Tail6(cp, 64), Tail6(cp, 1)>>

IsHighSurrogate(c) == c \in \hD800 .. \hDBFF
IsLowSurrogate(c)  == c \in \hDC00 .. \hDFFF
CombineSurrogates(high, low) == \h10000 + (high - \hD800) * 1024 + (low - \hDC00)

(* A negative wchar_t counts as a code above all.                          *)
Encoded(cp) == IF cp < 0 \/ cp > \h10FFFF \/ cp \in \hD800 .. \hDFFF THEN Replacement ELSE Utf8(cp)
U32ToUtf8(s)   == FlattenSeq([i \in DOMAIN s |-> Encoded(s[i])])
WideToUtf8(s)  == FlattenSeq([i \in DOMAIN s |-> Encoded(s[i])])

RECURSIVE U16From(_, _)
U16From(s, i) ==
    IF i = Len(s) THEN <<>>
    ELSE IF i = 0 /\ At(s, i) = \hFEFF THEN U16From(s, i + 1)
    ELSE IF IsHighSurrogate(At(s, i)) /\ i + 1 < Len(s) /\ IsLowSurrogate(At(s, i + 1))
    THEN Utf8(CombineSurrogates(At(s, i), At(s, i + 1))) \o U16From(s, i + 2)
    ELSE Encoded(At(s, i)) \o U16From(s, i + 1)
U16ToUtf8(s) == U16From(s, 0)

-----------------------------------------------------------------------------
(* escape_string                                                           *)

BackSlash == 92
Named == [c \in {34, 39, 92} |-> c]             \* quotes and itself
    @@ (8 :> 98) @@ (12 :> 102) @@ (10 :> 110) @@ (13 :> 114) @@ (9 :> 116) @@ (11 :> 118)
HexDigit(n) == IF n < 10 THEN 48 + n ELSE 87 + n
EscapeChar(c) ==
    IF c \in DOMAIN Named THEN <<BackSlash, Named[c]>>
    ELSE IF c < 32 THEN <<BackSlash, 117, 48, 48, HexDigit(c \div 16), HexDigit(c % 16)>>
    ELSE <<c>>
EscapeString(s) == FlattenSeq([i \in DOMAIN s |-> EscapeChar(s[i])])

-----------------------------------------------------------------------------
(* Numbers to text: the digits are written from the last, on two's         *)
(* complement.                                                             *)

RECURSIVE UIntToBuff(_, _)
UIntToBuff(u, base) ==
    (IF u < base THEN <<>> ELSE UIntToBuff(u \div base, base)) \o <<HexDigit(u % base)>>
Minus == <<45>>
IntToString(x) ==
    LET u == x % Power(LongBits)
    IN  IF x < 0 THEN Minus \o UIntToBuff((0 - u) % Power(LongBits), 10) ELSE UIntToBuff(u, 10)
BoolToString(x) == IF x THEN "true" ELSE "false"

HexPrefix == <<48, 120>>
HexToString(x) ==
    IF x = 0 THEN HexPrefix \o <<48>>
    ELSE (IF x < 0 THEN Minus ELSE <<>>) \o HexPrefix
         \o UIntToBuff((IF x < 0 THEN -x ELSE x) % Power(LongBits), 16)
HexToStdString(x) == UIntToBuff(x % Power(LongBits), 16)

-----------------------------------------------------------------------------
(* Text to numbers.                                                        *)

IsSign(s, i) == i < Len(s) /\ At(s, i) \in {43, 45}
DigitValue(c) == IF c <= 57 THEN c - 48 ELSE IF c >= 97 THEN c - 87 ELSE c - 55
Number(s, base) == FoldLeft(LAMBDA n, c : base * n + DigitValue(c), 0, s)

(* strtoll and its like: the number at the start of the text, where it     *)
(* ends, and whether it is in lo .. hi. Those of unsigned types negate     *)
(* within the type.                                                        *)
Strto(s, base, lo, hi) ==
    LET i     == First({k \in 0 .. Len(s) - 1 : At(s, k) \notin C!Spaces}, Len(s))
        start == IF IsSign(s, i) THEN i + 1 ELSE i
        valid(c) == IF base = 16 THEN C!IsXDigit(c) ELSE C!Digit(c)
        end   == First({k \in start .. Len(s) - 1 : ~valid(At(s, k))}, Len(s))
        n     == Number(SubSeq(s, start + 1, end), base)
        neg   == start > i /\ At(s, i) = 45
        x     == IF neg THEN -n ELSE n
    IN  IF end = start THEN [num |-> 0, end |-> 0, inRange |-> TRUE]
        ELSE [num |-> IF lo = 0 THEN x % (hi + 1) ELSE x, end |-> end,
              inRange |-> IF lo = 0 THEN n <= hi ELSE x \in lo .. hi]
Checked(r) == IF r.end = 0 \/ ~r.inRange THEN Thrown ELSE <<r.num, r.end>>
Cast(r, bits)  == IF r = Thrown THEN r ELSE [r EXCEPT ![1] = ToSigned(@, bits)]
UCast(r, bits) == IF r = Thrown THEN r ELSE [r EXCEPT ![1] = @ % Power(bits)]

ToInt64(s, base)  == Checked(Strto(s, base, -Power(LongBits - 1), Power(LongBits - 1) - 1))
ToUInt64(s, base) == Checked(Strto(s, base, 0, Power(LongBits) - 1))
(* strtol's long is wider than the result.                                 *)
ToInt32(s, base)  == Cast(ToInt64(s, base), IntBits)
ToUInt32(s, base) == UCast(ToUInt64(s, base), IntBits)
ToInt16(s, base)  == Cast(ToInt32(s, base), IntBits - 1)
ToUInt16(s, base) == UCast(Cast(ToUInt32(s, base), IntBits - 1), IntBits - 1)
ToBool(s, base)   ==
    LET r == ToInt32(s, base) IN IF r = Thrown THEN r ELSE [r EXCEPT ![1] = IF @ = 0 THEN 0 ELSE 1]

Limit_same(neg) == Power(LongBits - 1)
Limit(neg) == IF neg THEN Power(LongBits - 1) ELSE Power(LongBits - 1) - 1
(* hexadecimal(string): spaces, a sign and 0x; spaces between digits, too, *)
(* are left out, anything else refused.                                    *)
ParseHex(s) ==
    LET i     == First({k \in 0 .. Len(s) - 1 : ~C!IsSpaceChar(At(s, k))}, Len(s))
        j     == IF IsSign(s, i) THEN i + 1 ELSE i
        neg   == j > i /\ At(s, i) = 45
        start == IF j + 1 < Len(s) /\ At(s, j) = 48 /\ At(s, j + 1) \in {88, 120} THEN j + 2 ELSE j
        body  == From(s, start)
        raw   == ToUInt64(SelectSeq(body, C!IsXDigitChar), 16)
    IN  IF i = Len(s) THEN <<0>>
        ELSE IF \E k \in DOMAIN body : ~C!IsXDigitChar(body[k]) /\ ~C!IsSpaceChar(body[k]) THEN Thrown
        ELSE IF \A k \in DOMAIN body : ~C!IsXDigitChar(body[k]) THEN <<0>>
        ELSE IF raw = Thrown \/ Head(raw) > Limit(neg) THEN Thrown
        ELSE IF neg THEN <<-Head(raw)>> ELSE <<Head(raw)>>

(* Division of hexadecimals truncates.                                     *)
Magnitude(x) == IF x < 0 THEN -x ELSE x
Quotient(x, y) ==
    IF y = 0 THEN Thrown
    ELSE LET q == Magnitude(x) \div Magnitude(y) IN <<IF (x < 0) = (y < 0) THEN q ELSE -q>>
Remainder(x, y) ==
    IF y = 0 THEN Thrown
    ELSE LET r == Magnitude(x) % Magnitude(y) IN <<IF x < 0 THEN -r ELSE r>>

-----------------------------------------------------------------------------

InitEncodings == st \in [kind : {"units", "signs"}, text : {<<>>}]
NextEncodings ==
    \/ st.kind = "units" /\ Len(st.text) < MaxUnits
       /\ \E c \in Units : st' = [st EXCEPT !.text = Append(@, c)]
    \/ st.kind = "signs" /\ Len(st.text) < MaxSigns
       /\ \E c \in Signs : st' = [st EXCEPT !.text = Append(@, c)]

-----------------------------------------------------------------------------

t == st.text
Ints == -Power(LongBits - 1) .. Power(LongBits - 1) - 1
Within(x, bits) == x \in -Power(bits - 1) .. Power(bits - 1) - 1

(* A reader of UTF-8, and the code units of UTF-16.                        *)
RECURSIVE Decode(_)
Decode(b) ==
    LET n == IF b[1] < 128 THEN 1 ELSE IF b[1] < 224 THEN 2 ELSE IF b[1] < 240 THEN 3 ELSE 4
        lead == CASE n = 1 -> b[1] [] n = 2 -> b[1] - 192 [] n = 3 -> b[1] - 224 [] n = 4 -> b[1] - 240
    IN  IF b = <<>> THEN <<>>
        ELSE <<FoldLeft(LAMBDA v, c : 64 * v + c - 128, lead, SubSeq(b, 2, n))>>
             \o Decode(SubSeq(b, n + 1, Len(b)))
Utf16(cp) ==
    IF cp < \h10000 THEN <<cp>>
    ELSE <<\hD800 + (cp - \h10000) \div 1024, \hDC00 + ((cp - \h10000) % 1024)>>

CodePoint(c) == c \in 0 .. \hD7FF \/ c \in \hE000 .. \h10FFFF
Clean(c)     == IF CodePoint(c) THEN c ELSE \hFFFD
Lone(s, i)   == \/ IsHighSurrogate(s[i]) /\ (i = Len(s) \/ ~IsLowSurrogate(s[i + 1]))
                \/ IsLowSurrogate(s[i]) /\ (i = 1 \/ ~IsHighSurrogate(s[i - 1]))

(* UTF-8 keeps every code point and replaces what is none; a byte order    *)
(* mark at the start of UTF-16 is dropped. An escaped text can be read     *)
(* back in one way only, and holds no control character.                   *)
TextsSound ==
    /\ Decode(U32ToUtf8(t)) = [i \in DOMAIN t |-> Clean(t[i])]
    /\ WideToUtf8(t) = U32ToUtf8(t)
    /\ (\A i \in DOMAIN t : t[i] \in 0 .. \hFFFF) =>
          LET cps   == Decode(U16ToUtf8(t))
              units == [i \in DOMAIN t |-> IF Lone(t, i) THEN \hFFFD ELSE t[i]]
          IN  FlattenSeq([i \in DOMAIN cps |-> Utf16(cps[i])])
                 = IF t # <<>> /\ t[1] = \hFEFF THEN Tail(units) ELSE units
    /\ Len(t) = 2 => (IsPrefix(EscapeChar(t[1]), EscapeChar(t[2])) => t[1] = t[2])
    /\ \A i \in DOMAIN EscapeString(t) : EscapeString(t)[i] \notin 0 .. 31

(* Every number is read back from its text; a number that does not fit     *)
(* into the 64 bits is refused, one that does not fit into fewer bits cut. *)
NumbersSound ==
    \A x \in Ints :
       LET s == IntToString(x)
       IN  /\ ToInt64(s, 10) = <<x, Len(s)>>
           /\ ToUInt64(s, 10) = <<x % Power(LongBits), Len(s)>>
           /\ (ToInt32(s, 10) = <<x, Len(s)>>) <=> Within(x, IntBits)
           /\ (ToUInt32(s, 10) = <<x, Len(s)>>) <=> x \in 0 .. Power(IntBits) - 1
           /\ (ToInt16(s, 10) = <<x, Len(s)>>) <=> Within(x, IntBits - 1)
           /\ (ToUInt16(s, 10) = <<x, Len(s)>>) <=> x \in 0 .. Power(IntBits - 1) - 1
           /\ (ToBool(s, 10) = <<0, Len(s)>>) <=> x % Power(IntBits) = 0
           /\ ParseHex(HexToString(x)) = <<x>>
           /\ ParseHex(HexToStdString(x)) = IF x < 0 THEN Thrown ELSE <<x>>
           /\ \A y \in {-3, -1, 2, 5} : Quotient(x, y)[1] * y + Remainder(x, y)[1] = x
           /\ Quotient(x, 0) = Thrown /\ Remainder(x, 0) = Thrown

(* A hexadecimal is refused unless its value fits; spaces, and the letters *)
(* is_space takes for one, do not count; no digits at all are zero.        *)
Spaceless == SelectSeq(t, LAMBDA c : ~C!IsSpaceChar(c))
HexSound ==
    LET r == ParseHex(t)
    IN  r # Thrown => /\ r[1] \in Ints
                      /\ ParseHex(Spaceless) = r
                      /\ (\A c \in ToSet(t) : ~C!IsXDigitChar(c)) => r = <<0>>

EncodingsSound ==
    /\ st.kind = "units" => TextsSound
    /\ st.kind = "signs" => HexSound
    /\ t = <<>> => NumbersSound /\ \A c \in 0 .. 300 : C!KindsSound(c)

=============================================================================
