----------------------------- MODULE Characters -----------------------------
(***************************************************************************)
(* What include/MSTL/core/basiclib.hpp takes for a space, a letter or a    *)
(* digit. A character is the number of its code; a char is a byte, the     *)
(* other character types hold larger codes.                                *)
(***************************************************************************)
EXTENDS Integers, Bitwise

Spaces == {9, 10, 11, 12, 13, 32}       \* the bits of SPACE_MASK

(* On x86 the mask's shift by a byte counts modulo 64: six characters more *)
(* are taken for a space, and every one of those again above 127.          *)
IsSpaceChar(c) == c % 64 \in Spaces
IsSpaceWide(c) == c < 64 /\ c \in Spaces

LetterBits(c)  == (c & 223) >= 65 /\ (c & 223) <= 90
DigitBits(c)   == (c & 240) = 48 /\ (c & 15) <= 9
HexBits(c)     == \E high \in {64, 96} : (c & 240) = high /\ (c & 15) \in 1 .. 6

IsAlphaChar(c)  == LetterBits(c)
IsAlpha(c)      == c <= 127 /\ LetterBits(c)
IsDigitChar(c)  == DigitBits(c)
IsDigit(c)      == c <= 127 /\ DigitBits(c)
IsXDigitChar(c) == DigitBits(c) \/ HexBits(c)
IsXDigit(c)     == c <= 127 /\ (DigitBits(c) \/ HexBits(c))
IsAlphaOrDigit(c) == IsAlpha(c) \/ IsDigit(c)

-----------------------------------------------------------------------------

(* The kinds are those of ASCII, and no code above it has one, but that a  *)
(* char is taken for a space when its last six bits are those of one.      *)
Letter(c) == c \in 65 .. 90 \cup 97 .. 122
Digit(c)  == c \in 48 .. 57
KindsSound(c) ==
    /\ IsSpaceWide(c) <=> c \in Spaces
    /\ c < 256 => /\ IsAlphaChar(c) <=> Letter(c)
                  /\ IsDigitChar(c) <=> Digit(c)
                  /\ IsXDigitChar(c) <=> Digit(c) \/ c \in 65 .. 70 \cup 97 .. 102
    /\ c < 128 => (IsSpaceChar(c) <=> c \in Spaces \cup {73, 74, 75, 76, 77, 96})
    /\ IsAlpha(c) <=> Letter(c)
    /\ IsDigit(c) <=> Digit(c)
    /\ IsXDigit(c) <=> Digit(c) \/ c \in 65 .. 70 \cup 97 .. 102
    /\ IsAlphaOrDigit(c) <=> Letter(c) \/ Digit(c)

=============================================================================
