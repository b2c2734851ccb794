------------------------------ MODULE ByteSeqs ------------------------------
(* Sequences of bytes as the kernel keeps them for a file.                 *)
EXTENDS Naturals, Sequences

CONSTANTS Zero, Newline

Least(m, n) == IF m < n THEN m ELSE n

(* s with d written at offset p; a gap before it is filled with zeros.     *)
Overwrite(s, p, d) ==
    IF d = <<>> THEN s
    ELSE [i \in DOMAIN s \cup 1 .. p + Len(d) |->
            IF i \in p + 1 .. p + Len(d) THEN d[i - p]
            ELSE IF i \in DOMAIN s THEN s[i] ELSE Zero]

Resized(s, n) == [i \in 1 .. n |-> IF i \in DOMAIN s THEN s[i] ELSE Zero]

Dropped(s, n) == SubSeq(s, n + 1, Len(s))

(* The length of the first line of s, with its newline if it has one.      *)
LineLength(s) ==
    IF \E i \in DOMAIN s : s[i] = Newline
      THEN CHOOSE i \in DOMAIN s : s[i] = Newline /\ \A j \in 1 .. i - 1 : s[j] # Newline
      ELSE Len(s)

Text(s) == SelectSeq(s, LAMBDA x : x # Newline)

=============================================================================
