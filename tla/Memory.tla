------------------------------- MODULE Memory -------------------------------
(***************************************************************************)
(* include/MSTL/core/memory.hpp: objects built in raw memory, blocks with  *)
(* an alignment, and unique_ptr with a deleter of its own. A deleter is    *)
(* the name of the heap that it gives objects back to.                     *)
(***************************************************************************)
EXTENDS Integers, Sequences, FiniteSetsExt

CONSTANTS
    MaxLen,         \* bound: elements of a range
    Width,          \* bytes of the address space, which sizes wrap around
    ElemSize,       \* sizeof(value_type)
    MaxElems,       \* the largest number of elements of a temporary buffer
    AlignStep,      \* MEMORY_ALIGN_THRESHHOLD
    BigAlign,       \* MEMORY_BIG_ALLOC_ALIGN, a multiple of AlignStep
    BigBytes,       \* MEMORY_BIG_ALLOC_THRESHHOLD
    Pointer,        \* POINTER_SIZE, twice that in a debug build
    Deleters,       \* deleters of unique pointers
    MaxObjects      \* bound: objects made for unique pointers

VARIABLE st     \* a range to build, a block to allocate, or two unique pointers

-----------------------------------------------------------------------------
(* Ranges. Cells are "raw", "alive" or, when a destructor ran on a raw     *)
(* one, "torn"; bad is the element whose constructor throws, 0 for none.   *)

Destroyed(c) == IF c = "alive" THEN "raw" ELSE "torn"
(* uninitialized_copy, _fill, _move and their _n forms. The handler starts *)
(* at the element that was not built and stops before the first.           *)
Unwound_exact(cells, cur) == [k \in DOMAIN cells |-> IF k < cur THEN Destroyed(cells[k]) ELSE cells[k]]
Unwound(cells, cur) == [k \in DOMAIN cells |-> IF k \in 2 .. cur THEN Destroyed(cells[k]) ELSE cells[k]]
Uninitialized(n, bad, trivial) ==
    LET built(m) == [k \in 1 .. n |-> IF k <= m THEN "alive" ELSE "raw"]
    IN  IF trivial \/ bad \notin 1 .. n THEN [ok |-> TRUE, cells |-> built(n)]
        ELSE [ok |-> FALSE, cells |-> Unwound(built(bad - 1), bad)]

(* temporary_buffer: half as much until malloc, which has room for so many *)
(* elements, gives a block; all of it is filled with the first element.    *)
RECURSIVE Halved(_, _)
Halved(n, room) == IF n <= room THEN n ELSE Halved(n \div 2, room)
AllocateBuffer(n, room) == Halved(IF n > MaxElems THEN MaxElems ELSE n, room)
TemporaryBuffer(n, room, bad, trivial) ==
    LET len == AllocateBuffer(n, room)
        r   == Uninitialized(len, bad, trivial)
    IN  [ok |-> r.ok, original |-> n, len |-> IF r.ok THEN len ELSE 0, cells |-> r.cells]
BufferFreed(b) == [k \in DOMAIN b.cells |-> IF k <= b.len THEN Destroyed(b.cells[k]) ELSE b.cells[k]]

-----------------------------------------------------------------------------
(* Blocks. operator new gives holder, a multiple of Pointer; a big block   *)
(* of an MSVC build is moved to an aligned place, with holder before it.   *)

NoUser == Pointer + BigAlign - 1                \* MEMORY_NO_USER_SIZE
AllocSize(n) == (ElemSize * n) % Width          \* standard_allocator::allocate
Larger(a, b) == IF a < b THEN b ELSE a
AllocAlign(bytes, align) == IF bytes >= BigBytes THEN Larger(align, BigAlign) ELSE align
DeallocAlign(bytes, align) == IF bytes > BigBytes THEN Larger(align, BigAlign) ELSE align

Allocate(bytes, holder) ==                      \* __allocate_aux
    LET size == (NoUser + bytes) % Width
        at   == holder + NoUser
    IN  IF bytes < BigBytes THEN [ok |-> TRUE, ptr |-> holder, size |-> bytes, kept |-> holder]
        ELSE IF size <= bytes THEN [ok |-> FALSE, ptr |-> 0, size |-> 0, kept |-> 0]
        ELSE [ok |-> TRUE, ptr |-> at - (at % BigAlign), size |-> size, kept |-> holder]
Deallocate(block, bytes) ==                     \* what operator delete is given
    IF bytes < BigBytes THEN <<block.ptr, bytes>> ELSE <<block.kept, bytes + NoUser>>

-----------------------------------------------------------------------------
(* unique_ptr. s has the pointers and the deleters of two of them, what    *)
(* was released, and for each object its heap, the deleter that it must be *)
(* deleted by, until it is deleted by the right one.                       *)

NoObject == 0
Fresh(s) == Len(s.heap) + 1
Allocated(s, d) == [s EXCEPT !.heap = Append(@, d)]
Delete(s, p, d) ==
    IF p = NoObject THEN s
    ELSE [s EXCEPT !.heap[p] = IF @ = d THEN "deleted" ELSE "torn"]

Reset(s, i, p) == Delete([s EXCEPT !.ptr[i] = p], s.ptr[i], s.del[i])
Release(s, i)  == [s EXCEPT !.ptr[i] = NoObject]
MoveAssign_late(s, i, j) ==
    Reset([Release(s, j) EXCEPT !.del[i] = s.del[j]], i, s.ptr[j])
MoveAssign(s, i, j) ==                          \* also i = j
    [Reset(Release(s, j), i, s.ptr[j]) EXCEPT !.del[i] = s.del[j]]
MoveCtor(s, i, j) ==                            \* behind the destructor of i
    [Reset(s, i, NoObject) EXCEPT !.ptr[i] = s.ptr[j], !.ptr[j] = NoObject, !.del[i] = s.del[j]]
PtrCtor(s, i, d) == [Allocated(Reset(s, i, NoObject), d) EXCEPT !.ptr[i] = Fresh(s), !.del[i] = d]
ResetNew(s, i)   == Reset(Allocated(s, s.del[i]), i, Fresh(s))
Swap(s) == [s EXCEPT !.ptr = <<s.ptr[2], s.ptr[1]>>, !.del = <<s.del[2], s.del[1]>>]
Kept(s, i) == [Release(s, i) EXCEPT !.released = @ \cup ({s.ptr[i]} \ {NoObject})]
(* The caller deletes what it was given, as that must be deleted.          *)
DeleteReleased(s, p) == [Delete(s, p, s.heap[p]) EXCEPT !.released = @ \ {p}]

-----------------------------------------------------------------------------

Span(n, bad, trivial) == <<"range", n, bad, trivial>>
Block(bytes, holder)   == <<"block", bytes, holder>>
Pointers(s) == <<"pointers", s>>
p0 == st[2]

InitMemory == st \in
    {Span(0, 0, TRUE), Block(0, 0)}
    \cup {Pointers([ptr |-> <<0, 0>>, del |-> <<d, d>>, heap |-> <<>>, released |-> {}]) : d \in Deleters}

Room(s) == Len(s.heap) < MaxObjects
NextPointers == \E i \in 1 .. 2 :
    \/ \E j \in 1 .. 2 : st' = Pointers(MoveAssign(p0, i, j))
    \/ st' = Pointers(MoveCtor(p0, i, 3 - i))
    \/ Room(p0) /\ \E d \in Deleters : st' = Pointers(PtrCtor(p0, i, d))
    \/ Room(p0) /\ st' = Pointers(ResetNew(p0, i))
    \/ st' = Pointers(Reset(p0, i, NoObject))
    \/ st' = Pointers(Kept(p0, i))
    \/ st' = Pointers(Swap(p0))
    \/ \E p \in p0.released : st' = Pointers(DeleteReleased(p0, p))
NextMemory ==
    \/ st[1] = "range" /\ \E n, bad \in 0 .. MaxLen, trivial \in BOOLEAN : st' = Span(n, bad, trivial)
    \/ st[1] = "block" /\ \E bytes \in 0 .. Width - 1, k \in 0 .. BigAlign \div Pointer - 1 :
          st' = Block(bytes, k * Pointer)
    \/ st[1] = "pointers" /\ NextPointers

-----------------------------------------------------------------------------

(* A range is built whole or, when a constructor throws, left as it was if *)
(* it is the first that throws; otherwise the first element stays built    *)
(* and a destructor runs where nothing was built. A temporary buffer has   *)
(* as much as there is room for, at least half of it, all built.           *)
RangesSound ==
    LET r == Uninitialized(st[2], st[3], st[4])
        b(room) == TemporaryBuffer(st[2], room, st[3], st[4])
    IN  /\ r.ok => \A k \in DOMAIN r.cells : r.cells[k] = "alive"
        /\ ~r.ok => /\ st[3] = 1 => \A k \in DOMAIN r.cells : r.cells[k] = "raw"
                    /\ st[3] > 1 => r.cells[1] = "alive" /\ {k \in DOMAIN r.cells : r.cells[k] = "torn"} = {st[3]}
        /\ \A room \in 1 .. MaxLen :
             /\ b(room).len <= Min({room, MaxElems, st[2]})
             /\ b(room).ok => /\ st[2] > 0 => 2 * b(room).len + 1 >= Min({room, MaxElems, st[2]})
                              /\ \A k \in DOMAIN b(room).cells : BufferFreed(b(room))[k] = "raw"

(* A block is where its alignment wants it, within what operator new gave, *)
(* behind the place where that is kept, and given back as it was taken,    *)
(* also to the aligned operators. The allocator gives room for all the     *)
(* elements exactly when their size does not wrap.                         *)
BlocksSound ==
    LET bytes == st[2]
        b     == Allocate(bytes, st[3])
    IN  /\ b.ok => /\ b.ptr + bytes <= st[3] + b.size
                   /\ bytes >= BigBytes => b.ptr % BigAlign = 0 /\ b.ptr - st[3] \in Pointer .. NoUser
                   /\ Deallocate(b, bytes) = <<st[3], b.size>>
        /\ ~b.ok <=> bytes >= BigBytes /\ bytes + NoUser >= Width
        /\ \A k \in 1 .. 3 : AllocAlign(bytes, AlignStep * 2 ^ k) = DeallocAlign(bytes, AlignStep * 2 ^ k)
        /\ AllocSize(bytes) < bytes * ElemSize <=> bytes * ElemSize >= Width

(* Every object is owned by one pointer, or released, until it is deleted, *)
(* once and by the deleter that it was made for.                           *)
PointersSound ==
    /\ p0.ptr[1] # p0.ptr[2] \/ p0.ptr[1] = NoObject
    /\ \A i \in 1 .. 2 : p0.ptr[i] # NoObject => p0.heap[p0.ptr[i]] = p0.del[i] /\ p0.ptr[i] \notin p0.released
    /\ \A p \in DOMAIN p0.heap :
         p0.heap[p] = "deleted" \/ p \in p0.released \/ \E i \in 1 .. 2 : p0.ptr[i] = p

MemorySound ==
    CASE st[1] = "range"    -> RangesSound
      [] st[1] = "block"    -> BlocksSound
      [] st[1] = "pointers" -> PointersSound

=============================================================================
