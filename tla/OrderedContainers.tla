------------------------- MODULE OrderedContainers --------------------------
(***************************************************************************)
(* map, set, multimap and multiset of include/MSTL/core/map.hpp and        *)
(* set.hpp: two containers of one kind, of which the first is worked on    *)
(* and the second is what it is copied, moved and swapped with.            *)
(***************************************************************************)
EXTENDS RbTree, FiniteSetsExt

CONSTANTS
    Kinds,    \* map, set, multimap, multiset: those that are looked at
    KeysOf,   \* the keys used with each kind
    MaxOf,    \* bound: the nodes of one container of each kind
    MaxPair   \* bound: the nodes of two containers

VARIABLE st    \* kind, and the trees a and b

a    == st.a
Keys == KeysOf[st.kind]

InitOrdered ==
    st \in [kind : Kinds, a : {Empty}, b : {Empty}]

Fit(t, u) ==
    LET m == Cardinality(Nodes(t))
        n == Cardinality(Nodes(u))
    IN  (n > 0 => m + n <= MaxPair) /\ m <= MaxOf[st.kind]

Put(t) == Fit(t, st.b) /\ st' = [st EXCEPT !.a = t]

NewNode(t, k) == <<k, Min({i \in 1 .. Cardinality(Nodes(t)) + 1 : <<k, i>> \notin Nodes(t)})>>

InsertNode(t, n, unique) == IF unique THEN InsertUniqueNode(t, n) ELSE InsertEqualNode(t, n)

(* operator[]: the value of an absent key is made with a hint.             *)
Subscript(t, k) ==
    LET i == LowerBound(t, k)
    IN  IF i = Header \/ k < Key(i) THEN EmplaceHint(t, i, <<k, 1>>, TRUE) ELSE t

Ranges(t) == {r \in (DOMAIN t) \X (DOMAIN t) :
                LET w == Append(Forwards(t), Header)
                IN  \E i, j \in DOMAIN w : i <= j /\ r = <<w[i], w[j]>>}

Insertions(unique) ==
    \/ \E k \in Keys : Put(InsertNode(a, NewNode(a, k), unique))
    \/ \E k \in Keys, pos \in DOMAIN a : Put(EmplaceHint(a, pos, NewNode(a, k), unique))

Erasures ==
    \/ \E n \in Nodes(a) : Put(EraseAt(a, n))
    \/ \E k \in Keys : Put(EraseKey(a, k))
    \/ \E r \in Ranges(a) : Put(EraseRange(a, r[1], r[2]))
    \/ Put(Clear(a))

MapModifies ==
    /\ st.kind = "map" /\ a # Gone
    /\ Insertions(TRUE) \/ Erasures \/ \E k \in Keys : Put(Subscript(a, k))
SetModifies      == st.kind = "set" /\ a # Gone /\ (Insertions(TRUE) \/ Erasures)
MultimapModifies == st.kind = "multimap" /\ a # Gone /\ (Insertions(FALSE) \/ Erasures)
MultisetModifies == st.kind = "multiset" /\ a # Gone /\ (Insertions(FALSE) \/ Erasures)

(* An assignment by copy needs both headers.                               *)
CopyAssign == a # Gone /\ st.b # Gone /\ Put(CopyOf(st.b))
MoveAssign == st' = [st EXCEPT !.a = st.b, !.b = Gone]
SwapBoth   == Fit(st.b, a) /\ st' = [st EXCEPT !.a = st.b, !.b = a]

(* The object is destroyed and another one constructed.                    *)
Renew == st' = [st EXCEPT !.a = Empty]

NextOrdered ==
    \/ MapModifies \/ SetModifies \/ MultimapModifies \/ MultisetModifies
    \/ CopyAssign \/ MoveAssign \/ SwapBoth \/ Renew

-----------------------------------------------------------------------------

Unique == st.kind \in {"map", "set"}
Ordered(w) ==
    \A i \in 1 .. Len(w) - 1 : IF Unique THEN Smaller(w[i], w[i + 1]) ELSE ~Smaller(w[i + 1], w[i])
Without(w, S) == SelectSeq(w, LAMBDA n : n \notin S)
Flip(w) == [i \in DOMAIN w |-> w[Len(w) + 1 - i]]
FirstOf(t, P(_)) == LET w == SelectSeq(Forwards(t), P) IN IF w = <<>> THEN Header ELSE w[1]

Sound(t) ==
    LET w == Forwards(t)
    IN  /\ RedBlack(t) /\ Linked(t) /\ Ordered(w)
        /\ Len(w) = Cardinality(Nodes(t)) /\ Backwards(t) = Flip(w)

LooksUp(t) == \A k \in Keys :
    /\ LowerBound(t, k) = FirstOf(t, LAMBDA n : Key(n) >= k)
    /\ UpperBound(t, k) = FirstOf(t, LAMBDA n : Key(n) > k)
    /\ Find(t, k) = FirstOf(t, LAMBDA n : Key(n) = k)
    /\ Count(t, k) = Cardinality({n \in Nodes(t) : Key(n) = k})

(* u is t with n in it, or t again when n's key must be unique and is not. *)
Inserted(t, u, n) ==
    /\ Sound(u)
    /\ Forwards(t) = IF Unique /\ Find(t, Key(n)) # Header
                       THEN Forwards(u) ELSE Without(Forwards(u), {n})
    /\ Find(u, Key(n)) # Header

(* u is t without the nodes S; all others keep their place.                *)
Erased(t, u, S) == Sound(u) /\ Forwards(u) = Without(Forwards(t), S)

(* An ordered container stays balanced and linked in order through every   *)
(* call; lookups agree with the order; a call changes nothing but what it  *)
(* inserts or erases, and no iterator but the erased ones becomes invalid. *)
OrderedSound ==
    a # Gone =>
        /\ Sound(a) /\ LooksUp(a)
        /\ \A k \in Keys :
              LET n == NewNode(a, k)
              IN  /\ Inserted(a, InsertNode(a, n, Unique), n)
                  /\ \A pos \in DOMAIN a : Inserted(a, EmplaceHint(a, pos, n, Unique), n)
                  /\ st.kind = "map" => Inserted(a, Subscript(a, k), <<k, 1>>)
                  /\ Erased(a, EraseKey(a, k), {m \in Nodes(a) : Key(m) = k})
        /\ \A n \in Nodes(a) : Erased(a, EraseAt(a, n), {n})
        /\ \A r \in Ranges(a) :
              Erased(a, EraseRange(a, r[1], r[2]),
                     LET w == Append(Forwards(a), Header)
                         At(n) == CHOOSE i \in DOMAIN w : w[i] = n
                     IN  {w[i] : i \in At(r[1]) .. At(r[2]) - 1})

=============================================================================
