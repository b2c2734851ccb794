---------------------------- MODULE SharedOwners ----------------------------
(***************************************************************************)
(* include/MSTL/core/memory.hpp: the ways in which a shared_ptr comes to   *)
(* own an object and to point at another, in one thread (SharedPtr has     *)
(* threads, without these). The control block and the object of an         *)
(* ownership are one block, which knows how the object was made, how it    *)
(* will be destroyed, how many owners there are and what became of it.     *)
(***************************************************************************)
EXTENDS Integers, Sequences, FiniteSets

CONSTANT MaxBlocks      \* bound: objects made
VARIABLE owners         \* two shared pointers and the blocks

None == 0
Null == [own |-> None, at |-> None]     \* owner_ and ptr_

(* How an object is made and then has to be destroyed; "nothing" is what a *)
(* null unique_ptr hands over.                                             *)
Right == [new |-> "delete", array |-> "delete[]", unique |-> "deleter", fused |-> "destructor",
          nothing |-> "deleter"]
(* default_delete<U> of the element type, also of an array.                *)
Deleter(how) == IF how = "array" THEN "delete" ELSE Right[how]

Block(how, count, life) == [how |-> how, del |-> Deleter(how), count |-> count, life |-> life]
Next1(s) == Len(s.blocks) + 1
Point(s, i, p) == [s EXCEPT !.ptr[i] = p]

IncrefBlock(s, k) == IF k = None THEN s ELSE [s EXCEPT !.blocks[k].count = @ + 1]
DecrefBlock(s, k) ==
    IF k = None THEN s
    ELSE IF s.blocks[k].count > 1 THEN [s EXCEPT !.blocks[k].count = @ - 1]
    ELSE [s EXCEPT !.blocks[k].count = 0,
                   !.blocks[k].life = IF s.blocks[k].del = Right[s.blocks[k].how] THEN "gone" ELSE "wrong"]

ResetPtr(s, i) == Point(DecrefBlock(s, s.ptr[i].own), i, Null)      \* also the destructor

(* From a plain pointer, a unique_ptr or make_shared. The control block    *)
(* may find no memory (oom): a constructor then leaves nothing, reset has  *)
(* set ptr_ already, and nobody deletes the object. make_shared takes one  *)
(* piece of memory for both and gives it back when a constructor throws.   *)
Owned(s, i, how, at) ==
    Point([s EXCEPT !.blocks = Append(@, Block(how, 1, "alive"))], i, [own |-> Next1(s), at |-> at])
Lost(s, how) == [s EXCEPT !.blocks = Append(@, Block(how, 0, "leaked"))]
FromRaw(s, i, how, oom) ==
    LET r == ResetPtr(s, i) IN IF oom THEN Lost(r, how) ELSE Owned(r, i, how, Next1(s))
ResetRaw(s, i, how, oom) ==
    LET r == ResetPtr(s, i)
    IN  IF oom THEN Point(Lost(r, how), i, [own |-> None, at |-> Next1(s)]) ELSE Owned(r, i, how, Next1(s))
FromUnique(s, i, null, oom) ==
    LET how == IF null THEN "nothing" ELSE "unique"
        r   == ResetPtr(s, i)
    IN  IF oom THEN Lost(r, how) ELSE Owned(r, i, how, IF null THEN None ELSE Next1(s))
MakeShared(s, i) == LET k == Next1(s) IN Owned(ResetPtr(s, i), i, "fused", k)

(* From another shared_ptr: at is the pointer of a cast or an alias.       *)
CopyCtor(s, i, j, at) ==
    LET p == s.ptr[j] IN Point(IncrefBlock(ResetPtr(s, i), p.own), i, [own |-> p.own, at |-> at])
MoveCtor_kept(s, i, j, at) == Point(ResetPtr(s, i), i, [own |-> s.ptr[j].own, at |-> at])
MoveCtor(s, i, j, at) == Point(Point(ResetPtr(s, i), i, [own |-> s.ptr[j].own, at |-> at]), j, Null)
DynamicCast(s, i, j, ok) == IF ok THEN CopyCtor(s, i, j, s.ptr[j].at) ELSE ResetPtr(s, i)
CopyAssign(s, i, j) ==
    IF i = j THEN s
    ELSE LET r == DecrefBlock(s, s.ptr[i].own) IN Point(IncrefBlock(r, s.ptr[j].own), i, s.ptr[j])
MoveAssign(s, i, j) ==
    IF i = j THEN s ELSE Point(Point(DecrefBlock(s, s.ptr[i].own), i, s.ptr[j]), j, Null)
Swap(s) == [s EXCEPT !.ptr = <<s.ptr[2], s.ptr[1]>>]
(* The object that j points at knows the owner that it was given first.    *)
SharedFromThis(s, i, j) ==
    LET k == s.ptr[j].at IN Point(ResetPtr(IncrefBlock(s, k), i), i, [own |-> k, at |-> k])

UseCount(s, i) == IF s.ptr[i].own = None THEN 0 ELSE s.blocks[s.ptr[i].own].count
IsUnique(s, i) == IF s.ptr[i].own = None THEN TRUE ELSE UseCount(s, i) = 1
Equal(s, i, j) == s.ptr[i].own = s.ptr[j].own

-----------------------------------------------------------------------------

InitOwners == owners = [ptr |-> <<Null, Null>>, blocks |-> <<>>]

Room == Len(owners.blocks) < MaxBlocks
Alive(k) == k # None /\ owners.blocks[k].life = "alive"
(* An alias points at what users say: here the object of either pointer.   *)
Targets(j) == {None, owners.ptr[j].at, owners.ptr[3 - j].at}
NextOwners == \E i \in 1 .. 2 : LET j == 3 - i IN
    \/ Room /\ \E how \in {"new", "array"}, oom \in BOOLEAN :
          \/ owners' = FromRaw(owners, i, how, oom)
          \/ owners' = ResetRaw(owners, i, how, oom)
    \/ Room /\ \E null, oom \in BOOLEAN : owners' = FromUnique(owners, i, null, oom)
    \/ Room /\ owners' = MakeShared(owners, i)
    \/ owners' = ResetPtr(owners, i)
    \/ \E at \in Targets(j) : owners' = CopyCtor(owners, i, j, at) \/ owners' = MoveCtor(owners, i, j, at)
    \/ \E ok \in BOOLEAN : owners' = DynamicCast(owners, i, j, ok)
    \/ \E k \in 1 .. 2 : owners' = CopyAssign(owners, i, k) \/ owners' = MoveAssign(owners, i, k)
    \/ owners' = Swap(owners)
    \/ \E k \in 1 .. 2 : Alive(owners.ptr[k].at) /\ owners' = SharedFromThis(owners, i, k)

SpecOwners == InitOwners /\ [][NextOwners]_owners

-----------------------------------------------------------------------------

(* A block counts its owners, its object lives as long as it has any, and  *)
(* is destroyed once, the way it was made, but for arrays; it is lost when *)
(* the control block finds no memory, and nothing else is. The count says  *)
(* how many pointers are equal, whatever they point at.                    *)
SharingSound ==
    /\ \A k \in DOMAIN owners.blocks :
        LET b == owners.blocks[k]
        IN  /\ b.count = Cardinality({i \in 1 .. 2 : owners.ptr[i].own = k})
            /\ b.life = "alive" <=> b.count > 0
            /\ b.life = "wrong" => b.how = "array"
            /\ b.life = "gone"  => b.how # "array"
            /\ b.life = "leaked" => b.how # "fused"
    /\ \A i \in 1 .. 2 :
        /\ owners.ptr[i].own # None => Alive(owners.ptr[i].own)
        /\ IsUnique(owners, i) <=> ~\E k \in 1 .. 2 : k # i /\ Equal(owners, i, k) /\ owners.ptr[i].own # None
        /\ UseCount(owners, i) = Cardinality({k \in 1 .. 2 : Equal(owners, i, k) /\ owners.ptr[i].own # None})

=============================================================================
