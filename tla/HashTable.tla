------------------------------ MODULE HashTable ------------------------------
(***************************************************************************)
(* The chained hash table of include/MSTL/core/hashtable.hpp under the     *)
(* adaptors of unordered_map.hpp and unordered_set.hpp. A table is its     *)
(* buckets, each the chain of its nodes, the stored size, and a history    *)
(* variable: how many nodes insert_unique has lost from their chain while  *)
(* size still counts them. A node is named by its key and a number that    *)
(* stands for its value.                                                   *)
(***************************************************************************)
EXTENDS Naturals, Sequences, FiniteSets, SequencesExt

CONSTANTS
    Kinds,     \* map, set, multimap, multiset
    KeysOf,    \* the keys used with each kind
    MaxOf,     \* bound: the size of one table of each kind
    MaxPair,   \* bound: the sizes of two tables
    Hash,      \* the hash of each key
    Primes     \* HASH_PRIME_LIST, ascending

VARIABLE st    \* kind, and the tables a and b

a    == st.a
Keys == KeysOf[st.kind]
Nil  == <<>>
End  == <<Nil, 0>>      \* an iterator is a node and the bucket it is in
Key(x) == x[1]

NextSize(n) ==
    IF \A i \in DOMAIN Primes : Primes[i] < n THEN Last(Primes)
    ELSE Primes[Min({i \in DOMAIN Primes : Primes[i] >= n})]

Bkt(k, n)     == (Hash[k] % n) + 1
Slots(t)      == DOMAIN t.b
NodesOf(t)    == UNION {Range(t.b[n]) : n \in Slots(t)}
NoBuckets     == [b |-> <<>>, size |-> 0, lost |-> 0]
NewTable(n)   == [NoBuckets EXCEPT !.b = [i \in 1 .. NextSize(n) |-> <<>>]]
Home(t, k)    == Bkt(k, Len(t.b))
Positions(c, P(_)) == {i \in DOMAIN c : P(c[i])}
From(c, x)    == IF x = Nil THEN <<>> ELSE SubSeq(c, CHOOSE i \in DOMAIN c : c[i] = x, Len(c))

-----------------------------------------------------------------------------
(* Walking and looking up.                                                 *)

FirstFrom(t, m) ==
    LET used == {n \in Slots(t) : n >= m /\ t.b[n] # <<>>}
    IN  IF used = {} THEN End ELSE <<Head(t.b[Min(used)]), Min(used)>>

Begin(t) == FirstFrom(t, 1)

Succ(t, i) ==
    LET rest == Tail(From(t.b[i[2]], i[1]))
    IN  IF rest # <<>> THEN <<rest[1], i[2]>> ELSE FirstFrom(t, i[2] + 1)

RECURSIVE Walk(_, _)
Walk(t, i) == IF i[1] = Nil THEN <<>> ELSE <<i[1]>> \o Walk(t, Succ(t, i))

(* An absent key gives the null node, with the bucket it was looked for in.*)
Find(t, k) ==
    LET n == Home(t, k)
        hits == Positions(t.b[n], LAMBDA x : Key(x) = k)
    IN  <<IF hits = {} THEN Nil ELSE t.b[n][Min(hits)], n>>

BucketSize(t, n) == Len(t.b[n])
SameTable(t, u)  == t.b = u.b

-----------------------------------------------------------------------------
(* Inserting.                                                              *)

(* Every chain is emptied from its head and pushed on the new chains.      *)
Rehash(t, m) ==
    LET n == NextSize(m)
        all == FlattenSeq(t.b)
    IN  IF m <= Len(t.b) \/ n <= Len(t.b) THEN t
        ELSE [t EXCEPT !.b = [i \in 1 .. n |-> Reverse(SelectSeq(all, LAMBDA x : Bkt(Key(x), n) = i))]]

InsertUniqueNoResize_keeps(t, x) ==
    LET n == Home(t, Key(x)) IN [t EXCEPT !.b[n] = <<x>> \o @, !.size = @ + 1]

(* The node found equal becomes the head of its bucket with what is after  *)
(* it, and is replaced: the nodes before it are lost.                      *)
InsertUniqueNoResize(t, x) ==
    LET n == Home(t, Key(x))
        c == t.b[n]
        i == Min(Positions(c, LAMBDA y : Key(y) = Key(x)))
    IN  IF Find(t, Key(x))[1] = Nil
          THEN [t EXCEPT !.b[n] = <<x>> \o c, !.size = @ + 1]
          ELSE [t EXCEPT !.b[n] = <<x>> \o SubSeq(c, i + 1, Len(c)), !.lost = @ + i - 1]

(* Behind the whole chain when an equal key is in it, else before it.      *)
InsertEqualNoResize(t, x) ==
    LET n == Home(t, Key(x))
    IN  [t EXCEPT !.b[n] = IF Find(t, Key(x))[1] # Nil THEN @ \o <<x>> ELSE <<x>> \o @,
                  !.size = @ + 1]

EmplaceUnique(t, x) == InsertUniqueNoResize(Rehash(t, t.size + 1), x)
EmplaceEqual(t, x)  == InsertEqualNoResize(Rehash(t, t.size + 1), x)

(* Of a range with forward iterators; insert_equal does the same.          *)
InsertRange(t, xs) == FoldLeft(InsertUniqueNoResize, Rehash(t, t.size + Len(xs)), xs)

-----------------------------------------------------------------------------
(* Erasing, and whole tables.                                              *)

EraseKey(t, k) ==
    LET n == Home(t, k)
    IN  [t EXCEPT !.b[n] = SelectSeq(@, LAMBDA x : Key(x) # k),
                  !.size = @ - Cardinality(Positions(t.b[n], LAMBDA x : Key(x) = k))]

(* The second component is the iterator that is returned.                  *)
EraseAt(t, i) ==
    LET n == Home(t, Key(i[1]))
        rest == Tail(From(t.b[n], i[1]))
        u == [t EXCEPT !.b[n] = Remove(@, i[1]), !.size = @ - 1]
    IN  <<u, IF rest # <<>> THEN <<rest[1], n>> ELSE FirstFrom(u, n + 1)>>

(* erase_bucket: up to last when first is the head of its chain, up to the *)
(* end of the chain when it is not.                                        *)
EraseBucket(t, n, first, last) ==
    LET c == t.b[n]
        rest == IF c = <<>> \/ first = Head(c) THEN From(c, last)
                ELSE SubSeq(c, 1, Len(c) - Len(From(c, first)))
    IN  [t EXCEPT !.b[n] = rest, !.size = @ - (Len(c) - Len(rest))]

HeadOf(t, n) == IF t.b[n] = <<>> THEN Nil ELSE Head(t.b[n])

EraseRange(t, i, j) ==
    LET past == Len(t.b) + 1
        f == IF i[1] # Nil THEN i[2] ELSE past
        l == IF j[1] # Nil THEN j[2] ELSE past
        u == EraseBucket(t, f, i[1], Nil)
        Whole(v, n) == EraseBucket(v, n, HeadOf(v, n), Nil)
        v == FoldLeft(Whole, u, [n \in 1 .. l - f - 1 |-> f + n])
    IN  IF i[1] = j[1] THEN t
        ELSE IF f = l THEN EraseBucket(t, f, i[1], j[1])
        ELSE IF l = past THEN v ELSE EraseBucket(v, l, HeadOf(v, l), j[1])

Clear(t)  == [t EXCEPT !.b = [n \in Slots(t) |-> <<>>], !.size = 0, !.lost = 0]
CopyOf(t) == t

-----------------------------------------------------------------------------
(* The adaptors. Without buckets the remainder in find and erase by key is *)
(* undefined.                                                              *)

IsUnique == st.kind \in {"map", "set"}

InitHash ==
    st \in [kind : Kinds, a : {NewTable(1)}, b : {NewTable(1)}]

Fit(t, u) == (u.size > 0 => t.size + u.size <= MaxPair) /\ t.size <= MaxOf[st.kind]
Put(t)    == Fit(t, st.b) /\ st' = [st EXCEPT !.a = t]

Unused(S, k)  == <<k, Min({i \in 1 .. Cardinality(S) + 1 : <<k, i>> \notin S})>>
NewNode(t, k) == Unused(NodesOf(t), k)
Emplace(t, x) == IF IsUnique THEN EmplaceUnique(t, x) ELSE EmplaceEqual(t, x)
Iterators(t)  == {i \in NodesOf(t) \X Slots(t) : i[1] \in Range(t.b[i[2]])} \cup {End}
Ranges(t) == {r \in Iterators(t) \X Iterators(t) :
                LET w == Append(Walk(t, Begin(t)), Nil)
                IN  \E i, j \in DOMAIN w : i <= j /\ w[i] = r[1][1] /\ w[j] = r[2][1]}

(* operator[] inserts the value of an absent key.                          *)
Subscript(t, k) == IF Find(t, k)[1] = Nil THEN EmplaceUnique(t, <<k, 1>>) ELSE t

Modify ==
    \/ \E k \in Keys : Put(Emplace(a, NewNode(a, k)))
    \/ \E k, m \in Keys : LET x == NewNode(a, k)
                          IN  Put(InsertRange(a, <<x, Unused(NodesOf(a) \cup {x}, m)>>))
    \/ \E k \in Keys : a.b # <<>> /\ Put(EraseKey(a, k))
    \/ \E i \in Iterators(a) \ {End} : Put(EraseAt(a, i)[1])
    \/ \E r \in Ranges(a) : Put(EraseRange(a, r[1], r[2]))
    \/ Put(Clear(a))

MapModifies      == st.kind = "map" /\ (Modify \/ \E k \in Keys : a.b # <<>> /\ Put(Subscript(a, k)))
SetModifies      == st.kind = "set" /\ Modify
MultimapModifies == st.kind = "multimap" /\ Modify
MultisetModifies == st.kind = "multiset" /\ Modify

Reserve    == \E m \in 1 .. Last(Primes) : Put(Rehash(a, m))
CopyAssign == Put(CopyOf(st.b))
(* clear, and swap with the other one.                                     *)
MoveAssign == st' = [st EXCEPT !.a = st.b, !.b = Clear(a)]
SwapBoth   == Fit(st.b, a) /\ st' = [st EXCEPT !.a = st.b, !.b = a]
(* A new object, with buckets or, by the constructor of one argument or    *)
(* after a move from it, without.                                          *)
Renew == \E t \in {NewTable(1), NoBuckets} : Put(t)

NextHash ==
    \/ MapModifies \/ SetModifies \/ MultimapModifies \/ MultisetModifies
    \/ Reserve \/ CopyAssign \/ MoveAssign \/ SwapBoth \/ Renew

-----------------------------------------------------------------------------

Sound(t) ==
    LET w == Walk(t, Begin(t))
    IN  /\ \A n \in Slots(t) : \A x \in Range(t.b[n]) : Home(t, Key(x)) = n
        /\ IsInjective(w) /\ Range(w) = NodesOf(t)
        /\ t.size = Len(w) + t.lost /\ t.size <= Len(t.b)
        /\ IsUnique => \A x, y \in NodesOf(t) : Key(x) = Key(y) => x = y

(* In a table of unique keys that has lost nothing, a new key leaves every *)
(* node where it can be found, and a present one is replaced; what is lost *)
(* is exactly what came before it in its chain.                            *)
Inserted(t, u, x) ==
    LET same == {y \in NodesOf(t) : Key(y) = Key(x)}
    IN  /\ Sound(u) /\ x \in NodesOf(u)
        /\ NodesOf(u) \subseteq NodesOf(t) \cup {x}
        /\ ~IsUnique \/ same = {} => NodesOf(t) \subseteq NodesOf(u)
        /\ IsUnique => \A y \in same : y = x \/ y \notin NodesOf(u)

Erased(t, u, S) == Sound(u) /\ NodesOf(u) = NodesOf(t) \ S /\ u.lost = t.lost

(* What a range erases: to the end of the chain when it begins inside one. *)
ToErase(t, i, j) ==
    LET w == Append(Walk(t, Begin(t)), Nil)
        At(x) == CHOOSE p \in DOMAIN w : w[p] = x
        inside == i # j /\ i[2] = j[2] /\ i[1] # Head(t.b[i[2]])
    IN  IF inside THEN Range(From(t.b[i[2]], i[1]))
        ELSE {w[p] : p \in At(i[1]) .. At(j[1]) - 1}

(* Every node is in the bucket of its key, once, and is visited once; the  *)
(* stored size counts the nodes and those insert_unique lost, and is not   *)
(* above the number of buckets; lookups, insertions, erasures and rehashing*)
(* do what they say to the nodes and to no others.                         *)
HashSound ==
    /\ Sound(a)
    /\ a.b # <<>> => \A k \in Keys :
          /\ Find(a, k)[1] # Nil <=> \E x \in NodesOf(a) : Key(x) = k
          /\ Erased(a, EraseKey(a, k), {x \in NodesOf(a) : Key(x) = k})
          /\ IsUnique => LET u == Subscript(a, k)
                         IN  Sound(u) /\ NodesOf(a) \subseteq NodesOf(u) /\ Find(u, k)[1] # Nil
    /\ \A k \in Keys : Inserted(a, Emplace(a, NewNode(a, k)), NewNode(a, k))
    /\ \A i \in Iterators(a) \ {End} :
          /\ Erased(a, EraseAt(a, i)[1], {i[1]})
          /\ EraseAt(a, i)[2] = Succ(a, i)
    /\ \A r \in Ranges(a) : Erased(a, EraseRange(a, r[1], r[2]), ToErase(a, r[1], r[2]))
    /\ \A m \in 1 .. Last(Primes) : Erased(a, Rehash(a, m), {})
    /\ SameTable(a, CopyOf(a))

=============================================================================
