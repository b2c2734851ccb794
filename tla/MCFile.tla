------------------------------- MODULE MCFile -------------------------------
(* Instances of File for TLC: a buffer of two bytes, one write that fits,  *)
(* one that fills the buffer more than once and one that goes past it.     *)
EXTENDS File, Integers, TLC

CONSTANTS f, g, h1, x

TwoObjects == {f, g}
OneHandle  == {h1}
Writes     == {<<x>>, <<Newline, x>>, <<x, Newline, x>>}
Backward   == {-2, 0, 3}
Symmetry   == Permutations(Objects) \cup Permutations(Handles)

=============================================================================
