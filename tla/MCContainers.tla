---------------------------- MODULE MCContainers ----------------------------
(***************************************************************************)
(* Instances for TLC of the containers. They do not interact: a behaviour  *)
(* picks one part and keeps its state in st, but the vector's in vec and   *)
(* the bitmap's in maps.                                                   *)
(***************************************************************************)
EXTENDS Vector, Bitmap

VARIABLES part, st

Ordered == INSTANCE OrderedContainers WITH
    Kinds  <- {"map", "set", "multimap", "multiset"},
    KeysOf <- [map |-> 1 .. 5, set |-> 1 .. 3, multimap |-> 1 .. 2, multiset |-> 1 .. 2],
    MaxOf  <- [map |-> 5, set |-> 3, multimap |-> 3, multiset |-> 3], MaxPair <- 2

Hashed == INSTANCE HashTable WITH
    Kinds  <- {"map", "set", "multimap", "multiset"},
    KeysOf <- [map |-> 1 .. 3, set |-> 1 .. 2, multimap |-> 1 .. 2, multiset |-> 1 .. 1],
    MaxOf  <- [map |-> 3, set |-> 2, multimap |-> 2, multiset |-> 2], MaxPair <- 2,
    Hash   <- <<1, 6, 11, 2>>, Primes <- <<2, 5>>

Deques == INSTANCE Deque WITH B <- 2, InitMap <- 1, MaxSize <- 4, MaxMap <- 6, MaxN <- 2
Lists   == INSTANCE List WITH Keys <- 1 .. 2, MaxLen <- 3, MaxBoth <- 4, MaxNew <- 2

Init ==
    /\ InitVector /\ InitBitmap
    /\ \/ part = "ordered" /\ Ordered!InitOrdered
       \/ part = "hashed"  /\ Hashed!InitHash
       \/ part = "deque"   /\ Deques!InitDeque
       \/ part = "vector"  /\ st = <<>>
       \/ part = "list"    /\ Lists!InitList
       \/ part = "bitmap"  /\ st = <<>>

OtherStep ==
    \/ part = "ordered" /\ Ordered!NextOrdered
    \/ part = "hashed"  /\ Hashed!NextHash
    \/ part = "deque"   /\ Deques!NextDeque
    \/ part = "list"    /\ Lists!NextList
VectorStep == part = "vector" /\ NextVector
BitmapStep == part = "bitmap" /\ NextBitmap

Next ==
    \/ OtherStep  /\ UNCHANGED <<part, vec, maps>>
    \/ VectorStep /\ UNCHANGED <<part, st, maps>>
    \/ BitmapStep /\ UNCHANGED <<part, st, vec>>

Spec == Init /\ [][Next]_<<part, st, vec, maps>>

\* See OrderedContainers and HashTable: maps and sets are red-black trees of what was inserted;
\* what the unordered containers hold, and what they lose; and Deque and List: every
\* call leaves the elements it says, over all places of the buffers, inside them, in rings
\* whose links agree.
ContainersSound ==
    /\ part = "ordered" => Ordered!OrderedSound
    /\ part = "hashed"  => Hashed!HashSound
    /\ part = "deque"   => Deques!DequeSound
    /\ part = "list"    => Lists!ListSound /\ Lists!CountsAddUp

=============================================================================
