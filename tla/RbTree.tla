------------------------------- MODULE RbTree -------------------------------
(***************************************************************************)
(* The red-black tree of include/MSTL/core/rb_tree.hpp. A tree is a        *)
(* function from its nodes and its header to their links; the header holds *)
(* the root as its parent, and the leftmost and rightmost node. A node is  *)
(* named by its key and a serial number. The mirrored halves of the code   *)
(* are one definition with the side as a parameter.                        *)
(***************************************************************************)
EXTENDS Naturals, Sequences, FiniteSets, TLC

Nil    == <<>>
Header == <<0, 0>>
Gone   == <<>>     \* a tree whose header_ was moved from

Key(n)    == n[1]
Other(d)  == IF d = "l" THEN "r" ELSE "l"
Nodes(t)  == DOMAIN t \ {Header}
Root(t)   == t[Header].p
Begin(t)  == t[Header].l
IsRed(t, n) == n # Nil /\ t[n].c = "red"

(* header_init                                                             *)
Empty == Header :> [c |-> "red", p |-> Nil, l |-> Header, r |-> Header, size |-> 0]

RECURSIVE Outermost(_, _, _)
Outermost(t, x, d) == IF t[x][d] = Nil THEN x ELSE Outermost(t, t[x][d], d)

RECURSIVE Climb(_, _, _)
Climb(t, x, d) == LET y == t[x].p IN IF x = t[y][d] THEN Climb(t, y, d) ELSE x

Succ(t, x) ==
    IF t[x].r # Nil THEN Outermost(t, t[x].r, "l")
    ELSE LET y == Climb(t, x, "r") IN IF t[y].r # t[y].p THEN t[y].p ELSE y

Pred(t, x) ==
    IF IsRed(t, x) /\ t[x].p # Nil /\ t[t[x].p].p = x THEN t[x].r
    ELSE IF t[x].l # Nil THEN Outermost(t, t[x].l, "r")
    ELSE t[Climb(t, x, "l")].p

-----------------------------------------------------------------------------
(* Rotations, and the two rebalancings.                                    *)

Set(t, n, f, v) == IF n = Nil THEN t ELSE [t EXCEPT ![n][f] = v]

SideOf(t, x) == IF x = t[t[x].p].l THEN "l" ELSE "r"

(* y takes the place of x under the parent of x.                           *)
Replace(t, x, y) ==
    IF x = Root(t) THEN Set(t, Header, "p", y) ELSE Set(t, t[x].p, SideOf(t, x), y)

Rotate(t, x, d) ==
    LET e == Other(d)
        y == t[x][e]
        u == Replace(Set(t, t[y][d], "p", x), x, y)
    IN  [u EXCEPT ![x][e] = t[y][d], ![x].p = y, ![y][d] = x, ![y].p = t[x].p]

RECURSIVE Rebalance(_, _)
Rebalance(t, x) ==
    IF x = Root(t) \/ ~IsRed(t, t[x].p) THEN [t EXCEPT ![Root(t)].c = "black"]
    ELSE LET p == t[x].p
             g == t[p].p
             d == SideOf(t, p)
             y == t[g][Other(d)]
             inner == x = t[p][Other(d)]
             u  == IF inner THEN Rotate(t, p, d) ELSE t
             x1 == IF inner THEN p ELSE x
             p1 == u[x1].p
         IN  IF IsRed(t, y)
               THEN Rebalance([t EXCEPT ![p].c = "black", ![y].c = "black", ![g].c = "red"], g)
               ELSE Rebalance(Rotate([u EXCEPT ![p1].c = "black", ![g].c = "red"], g, Other(d)), x1)

FarNephewBlack_any(t, w, e) == FALSE
FarNephewBlack(t, w, e) == ~IsRed(t, t[w][e])

(* The loop after the erase of a black node: x, which may be null, under   *)
(* xp has one black node too few.                                          *)
RECURSIVE Refill(_, _, _)
Refill(t, x, xp) ==
    IF x = Root(t) \/ IsRed(t, x) THEN Set(t, x, "c", "black")
    ELSE LET d  == IF x = t[xp].l THEN "l" ELSE "r"
             e  == Other(d)
             w0 == t[xp][e]
             u  == IF IsRed(t, w0)
                     THEN Rotate([t EXCEPT ![w0].c = "black", ![xp].c = "red"], xp, d) ELSE t
             w  == u[xp][e]
             v  == IF FarNephewBlack(u, w, e)
                     THEN Rotate(Set([u EXCEPT ![w].c = "red"], u[w][d], "c", "black"), w, e)
                     ELSE u
             w1 == v[xp][e]
             z  == Set([v EXCEPT ![w1].c = v[xp].c, ![xp].c = "black"], v[w1][e], "c", "black")
         IN  IF ~IsRed(u, u[w].l) /\ ~IsRed(u, u[w].r)
               THEN Refill([u EXCEPT ![w].c = "red"], xp, u[xp].p)
               ELSE Set(Rotate(z, xp, d), x, "c", "black")

(* rb_tree_rebalance_for_erase with y the node that leaves the place it    *)
(* has, which is z or z's successor, and x what takes that place.          *)
Unlink(t, z) ==
    LET one == t[z].l = Nil \/ t[z].r = Nil
        y   == IF one THEN z ELSE Outermost(t, t[z].r, "l")
        x   == IF t[y].l = Nil THEN t[y].r ELSE t[y].l
        xp  == IF ~one /\ y = t[z].r THEN y ELSE t[y].p
        up  == Set(t, x, "p", xp)
        Ends(u) == [u EXCEPT
            ![Header].l = IF @ # z THEN @ ELSE IF t[z].r = Nil THEN t[z].p ELSE Outermost(u, x, "l"),
            ![Header].r = IF @ # z THEN @ ELSE IF t[z].l = Nil THEN t[z].p ELSE Outermost(u, x, "r")]
        moved == IF y = t[z].r THEN t
                 ELSE [up EXCEPT ![t[y].p].l = x, ![y].r = t[z].r, ![t[z].r].p = y]
        taken == Replace([moved EXCEPT ![t[z].l].p = y, ![y].l = t[z].l], z, y)
        u == IF one THEN Ends(Replace(up, z, x))
             ELSE [taken EXCEPT ![y].p = t[z].p, ![y].c = t[z].c]
    IN  IF t[y].c = "red" THEN u ELSE Refill(u, x, xp)

-----------------------------------------------------------------------------
(* Inserting. A node that insert_unique refuses is leaked by the code and  *)
(* is in no tree here.                                                     *)

Smaller(n, m) == Key(n) < Key(m)

InsertInto(t, x, y, n) ==
    LET left == y = Header \/ x # Nil \/ Smaller(n, y)
        h    == t[Header]
        head == [h EXCEPT !.p = IF y = Header THEN n ELSE @,
                          !.l = IF left /\ y \in {Header, h.l} THEN n ELSE @,
                          !.r = IF y = Header \/ (~left /\ y = h.r) THEN n ELSE @,
                          !.size = @ + 1]
        u    == (n :> [c |-> "red", p |-> y, l |-> Nil, r |-> Nil]) @@ (Header :> head) @@ t
    IN  Rebalance(IF y = Header THEN u ELSE Set(u, y, IF left THEN "l" ELSE "r", n), n)

RECURSIVE Leaf(_, _, _, _)
Leaf(t, x, y, n) ==
    IF x = Nil THEN y ELSE Leaf(t, IF Smaller(n, x) THEN t[x].l ELSE t[x].r, x, n)

InsertEqualNode(t, n) == InsertInto(t, Nil, Leaf(t, Root(t), Header, n), n)

InsertUniqueNode(t, n) ==
    LET y == Leaf(t, Root(t), Header, n)
        first == (y = Header \/ Smaller(n, y)) /\ y = Begin(t)
        j == IF y = Header \/ Smaller(n, y) THEN Pred(t, y) ELSE y
    IN  IF first \/ Smaller(j, n) THEN InsertInto(t, Nil, y, n) ELSE t

(* Whether n may go before pos: between two nodes, or at either end. The   *)
(* comparison is strict for unique keys.                                   *)
Before(n, m, unique) == IF unique THEN Smaller(n, m) ELSE ~Smaller(m, n)

EmplaceHint(t, pos, n, unique) ==
    LET retry == IF unique THEN InsertUniqueNode(t, n) ELSE InsertEqualNode(t, n)
        prev  == Pred(t, pos)
    IN  IF pos = Begin(t)
          THEN IF t[Header].size > 0 /\ Smaller(n, pos) THEN InsertInto(t, pos, pos, n) ELSE retry
        ELSE IF pos = Header
          THEN IF Before(t[Header].r, n, unique) THEN InsertInto(t, Nil, t[Header].r, n) ELSE retry
        ELSE IF Before(prev, n, unique) /\ Before(n, pos, unique)
          THEN IF t[prev].r = Nil THEN InsertInto(t, Nil, prev, n) ELSE InsertInto(t, pos, pos, n)
        ELSE retry

-----------------------------------------------------------------------------
(* Looking up, erasing, copying.                                           *)

RECURSIVE LowerFrom(_, _, _, _), UpperFrom(_, _, _, _)
LowerFrom(t, x, y, k) ==
    IF x = Nil THEN y
    ELSE IF ~(Key(x) < k) THEN LowerFrom(t, t[x].l, x, k) ELSE LowerFrom(t, t[x].r, y, k)
UpperFrom(t, x, y, k) ==
    IF x = Nil THEN y
    ELSE IF k < Key(x) THEN UpperFrom(t, t[x].l, x, k) ELSE UpperFrom(t, t[x].r, y, k)

LowerBound(t, k) == LowerFrom(t, Root(t), Header, k)
UpperBound(t, k) == UpperFrom(t, Root(t), Header, k)
Find(t, k) ==
    LET j == LowerBound(t, k) IN IF j = Header \/ k < Key(j) THEN Header ELSE j

RECURSIVE Distance(_, _, _)
Distance(t, i, j) == IF i = j THEN 0 ELSE 1 + Distance(t, Succ(t, i), j)

Count(t, k) == Distance(t, LowerBound(t, k), UpperBound(t, k))

Clear(t) == IF t[Header].size = 0 THEN t ELSE Empty

EraseAt(t, z) ==
    LET u == Unlink(t, z)
    IN  [n \in DOMAIN t \ {z} |-> IF n = Header THEN [u[n] EXCEPT !.size = @ - 1] ELSE u[n]]

RECURSIVE EraseFrom(_, _, _)
EraseFrom(t, i, j) == IF i = j THEN t ELSE EraseFrom(EraseAt(t, i), Succ(t, i), j)

EraseRange(t, i, j) ==
    IF i = Begin(t) /\ j = Header THEN Clear(t) ELSE EraseFrom(t, i, j)

EraseKey(t, k) == EraseRange(t, LowerBound(t, k), UpperBound(t, k))

(* The copy has the same shape; its ends are looked for again.             *)
CopyOf(t) ==
    IF Root(t) = Nil THEN [Empty EXCEPT ![Header].size = t[Header].size]
    ELSE [t EXCEPT ![Header].l = Outermost(t, Root(t), "l"),
                   ![Header].r = Outermost(t, Root(t), "r")]

-----------------------------------------------------------------------------
(* What a tree must be, and what it stands for.                            *)

(* The nodes in the order of the iterators, forwards and backwards.        *)
RECURSIVE ForwardsFrom(_, _), BackwardsFrom(_, _)
ForwardsFrom(t, x) == IF x = Header THEN <<>> ELSE <<x>> \o ForwardsFrom(t, Succ(t, x))
BackwardsFrom(t, x) == IF x = Begin(t) THEN <<>> ELSE <<Pred(t, x)>> \o BackwardsFrom(t, Pred(t, x))

Forwards(t)  == ForwardsFrom(t, Begin(t))
Backwards(t) == BackwardsFrom(t, Header)

RECURSIVE Height(_, _)
Height(t, x) ==
    IF x = Nil THEN 0
    ELSE LET a == Height(t, t[x].l)
             b == Height(t, t[x].r)
         IN  IF a # b \/ a = 99 THEN 99 ELSE IF t[x].c = "black" THEN a + 1 ELSE a

RedBlack(t) ==
    /\ \A n \in Nodes(t) : t[n].c = "red" => ~IsRed(t, t[n].l) /\ ~IsRed(t, t[n].r)
    /\ ~IsRed(t, Root(t)) /\ Height(t, Root(t)) < 99

Linked(t) ==
    /\ \A n \in Nodes(t) : \A m \in {t[n].l, t[n].r} \ {Nil} : t[m].p = n
    /\ Root(t) # Nil => t[Root(t)].p = Header /\ Begin(t) = Outermost(t, Root(t), "l")
                                              /\ t[Header].r = Outermost(t, Root(t), "r")
    /\ t[Header].size = Cardinality(Nodes(t))

=============================================================================
