------------------------------- MODULE Values -------------------------------
(***************************************************************************)
(* include/MSTL/core/optional.hpp, any.hpp, variant.hpp, functional.hpp:   *)
(* objects that hold an object, and when they build and destroy it. A      *)
(* state has two holders of one kind and a third for the temporaries of a  *)
(* call. What is built in a holder is <<type, number>>, or <<p>> when the  *)
(* holder keeps a pointer to it; "small" types are kept in place by any    *)
(* and function, "big" ones in the heap.                                   *)
(***************************************************************************)
EXTENDS Integers, Sequences, FiniteSets

CONSTANTS
    Numbers,        \* what objects are made with; 0 is T{}
    MaxHeap         \* bound: places of the heap, enough for all the holders

ASSUME ValuesAssumption ==
    0 \in Numbers /\ Numbers \subseteq Int /\ MaxHeap \in Nat /\ MaxHeap >= 3

VARIABLE held

Raw     == <<>>     \* nothing is built, nothing was given
Types   == {"small", "big"}
Objects == Types \X Numbers
Temp    == 3        \* the temporary of a call
NoType  == "none"

-----------------------------------------------------------------------------
(* Building and destroying. tag is the flag of an optional, the index of a *)
(* variant, the manager of an any or a function; cell what is built there. *)

Construct(s, i, x) ==                   \* placement new
    [s EXCEPT !.cell[i] = x, !.lost = IF s.cell[i] = Raw THEN @ ELSE @ \cup {s.cell[i]}]
Destroy(s, i, t) ==                     \* ~T()
    [s EXCEPT !.cell[i] = Raw,
              !.torn = @ \/ s.cell[i] = Raw \/ (s.cell[i] # Raw /\ s.cell[i][1] # t)]
Given(s, i, x) == [s EXCEPT !.want[i] = x]

-----------------------------------------------------------------------------
(* optional<T>: T is "small". Its union always starts with a T{}.          *)

Default == <<"small", 0>>
Has(s, i) == s.tag[i] # NoType
OptReset(s, i) == IF Has(s, i) THEN [Destroy(s, i, "small") EXCEPT !.tag[i] = NoType] ELSE s
OptEnded(s, i) ==                       \* the destructor, and what it leaves behind
    LET r == OptReset(s, i)
    IN  [r EXCEPT !.cell[i] = Raw, !.lost = IF r.cell[i] = Raw THEN @ ELSE @ \cup {r.cell[i]}]
OptFlagged(s, i, x) == [Construct(s, i, x) EXCEPT !.tag[i] = "small"]

OptNone(s, i)         == Construct(OptEnded(s, i), i, Default)
OptFromValue(s, i, x) == Construct(OptEnded(s, i), i, x)
OptInPlace(s, i, x)   == OptFlagged(OptEnded(s, i), i, x)
OptCopyCtor(s, i, j)  == IF Has(s, j) THEN OptFlagged(OptNone(s, i), i, s.cell[j]) ELSE OptNone(s, i)
OptMoveCtor(s, i, j)  == IF Has(s, j) THEN OptReset(OptCopyCtor(s, i, j), j) ELSE OptNone(s, i)
OptAssignValue(s, i, x) == IF Has(s, i) THEN [s EXCEPT !.cell[i] = x] ELSE Construct(s, i, x)
OptCopyAssign(s, i, j) ==
    IF i = j THEN s
    ELSE IF ~Has(s, j) THEN OptReset(s, i)
    ELSE IF Has(s, i) THEN [s EXCEPT !.cell[i] = s.cell[j]] ELSE OptFlagged(s, i, s.cell[j])
OptMoveAssign_kept(s, i, j) == OptCopyAssign(s, i, j)
OptMoveAssign(s, i, j) ==
    IF i # j /\ Has(s, j) THEN OptReset(OptCopyAssign(s, i, j), j) ELSE OptCopyAssign(s, i, j)
(* OptAssignValue is for a T of class type, or a value of another type. A  *)
(* scalar T's own value is converted to an optional, and that is moved.    *)
OptAssignScalar(s, i, x) == OptEnded(OptMoveAssign(OptFromValue(s, Temp, x), i, Temp), Temp)
OptEmplace(s, i, x) == OptFlagged(OptReset(s, i), i, x)
OptSwap(s) ==
    LET a == s.cell[1]
        b == s.cell[2]
    IN  CASE Has(s, 1) /\ Has(s, 2)   -> [s EXCEPT !.cell[1] = b, !.cell[2] = a]
          [] ~Has(s, 1) /\ ~Has(s, 2) -> s
          [] Has(s, 1) /\ ~Has(s, 2)  -> OptReset(OptEmplace(s, 2, a), 1)
          [] ~Has(s, 1) /\ Has(s, 2)  -> OptReset(OptEmplace(s, 1, b), 2)

(* What is read: or_else gives the optional or the other one, transform's  *)
(* result is converted from a value.                                       *)
OptValueOr(s, i, x) == IF Has(s, i) THEN s.cell[i] ELSE x
OptOrElse(s, i, j)  == IF Has(s, i) THEN OptCopyCtor(s, Temp, i) ELSE OptCopyCtor(s, Temp, j)
OptTransform(s, i)  == IF Has(s, i) THEN OptFromValue(s, Temp, s.cell[i]) ELSE OptNone(s, Temp)

Number(s, i)     == s.cell[i][2]
OptEqual(s, i, j)   == Has(s, i) = Has(s, j) /\ (Has(s, i) => Number(s, i) = Number(s, j))
OptGreater(s, i, j) == Has(s, i) /\ Has(s, j) /\ Number(s, i) > Number(s, j)
OptLess(s, i, j)    == OptGreater(s, j, i)
OptAtLeast(s, i, j) == ~OptLess(s, i, j)
OptAtMost(s, i, j)  == ~OptLess(s, i, j)

-----------------------------------------------------------------------------
(* variant<"small", "big">; both are kept in place.                        *)

VarEnded(s, i) == Destroy(s, i, s.tag[i])
VarFrom(s, i, x) == [Construct(VarEnded(s, i), i, x) EXCEPT !.tag[i] = x[1]]
VarCopyCtor(s, i, j) == VarFrom(s, i, s.cell[j])
(* operator= of the type of x, also when an object of another is there.    *)
VarCopyAssign(s, i, j) ==
    [s EXCEPT !.tag[i] = s.tag[j], !.cell[i] = s.cell[j],
              !.lost = IF s.tag[i] # s.tag[j] THEN @ \cup {s.cell[i]} ELSE @]
VarEmplace_leak(s, i, x) == [Construct(s, i, x) EXCEPT !.tag[i] = x[1]]
VarEmplace(s, i, x) == [Construct(Destroy(s, i, s.tag[i]), i, x) EXCEPT !.tag[i] = x[1]]
VarEmplaceThrows(s, i, t) == [Destroy(s, i, s.tag[i]) EXCEPT !.tag[i] = t]
(* The C++20 constructor keeps the holder and the argument of its first    *)
(* call: later ones build there once more, of what x then is, and nothing  *)
(* in their own holder.                                                    *)
VarFromArgs(s, i, x) ==
    IF s.first = 0 THEN [VarFrom(s, i, x) EXCEPT !.first = i]
    ELSE Construct(VarEnded(s, i), s.first, x)

VarGetIf(s, i, t) == IF s.tag[i] = t THEN s.cell[i] ELSE Raw
VarEqual(s, i, j) == s.tag[i] = s.tag[j] /\ Number(s, i) = Number(s, j)
VarLess(s, i, j)  == s.tag[i] = s.tag[j] /\ Number(s, i) < Number(s, j)
VarAtMost(s, i, j) == ~VarLess(s, j, i)

-----------------------------------------------------------------------------
(* The managers of any and function.                                       *)

Place(s) == CHOOSE p \in 1 .. MaxHeap : s.heap[p] = Raw /\ \A q \in 1 .. p - 1 : s.heap[q] # Raw
Create(s, i, x) ==
    LET p == Place(s)
        r == IF x[1] = "small" THEN Construct(s, i, x) ELSE Construct([s EXCEPT !.heap[p] = x], i, <<p>>)
    IN  [r EXCEPT !.tag[i] = x[1]]
Stored(s, i) == IF s.tag[i] = "small" THEN s.cell[i] ELSE s.heap[s.cell[i][1]]
ManageCopy(s, i, j) == Create(s, j, Stored(s, i))
ManageDestroy(s, i) ==
    IF s.tag[i] = "small" THEN Destroy(s, i, "small")
    ELSE LET p == s.cell[i][1]
         IN  [s EXCEPT !.cell[i] = Raw, !.heap[p] = Raw, !.torn = @ \/ s.heap[p] = Raw]
Passed(s, i, j) == [Construct(s, j, s.cell[i]) EXCEPT !.cell[i] = Raw, !.tag[j] = s.tag[i], !.tag[i] = NoType]

(* any. ManageSwap moves an object in place, or its pointer.               *)
ManageSwap(s, i, j) == Passed(s, i, j)
AnyReset(s, i) == IF Has(s, i) THEN [ManageDestroy(s, i) EXCEPT !.tag[i] = NoType] ELSE s
AnyFrom(s, i, x) == Create(AnyReset(s, i), i, x)
AnyCopyCtor(s, i, j) == IF Has(s, j) THEN ManageCopy(AnyReset(s, i), j, i) ELSE AnyReset(s, i)
AnyMoveCtor(s, i, j) == IF Has(s, j) THEN ManageSwap(AnyReset(s, i), j, i) ELSE AnyReset(s, i)
AnyMoveAssign_self(s, i, j) == IF Has(s, j) THEN ManageSwap(AnyReset(s, i), j, i) ELSE AnyReset(s, i)
AnyMoveAssign(s, i, j) ==
    IF ~Has(s, j) THEN AnyReset(s, i)
    ELSE IF i = j THEN s ELSE ManageSwap(AnyReset(s, i), j, i)
AnyCopyAssign(s, i, j) == AnyReset(AnyMoveAssign(AnyCopyCtor(s, Temp, j), i, Temp), Temp)
AnyAssign(s, i, x)     == AnyReset(AnyMoveAssign(Create(s, Temp, x), i, Temp), Temp)
AnySwap(s, i, j) ==
    IF ~Has(s, i) /\ ~Has(s, j) THEN s
    ELSE IF Has(s, i) /\ Has(s, j)
    THEN IF i = j THEN s ELSE ManageSwap(ManageSwap(ManageSwap(s, j, Temp), i, j), Temp, i)
    ELSE IF Has(s, i) THEN ManageSwap(s, i, j) ELSE ManageSwap(s, j, i)
AnyCast(s, i, t) == IF s.tag[i] = t THEN Stored(s, i) ELSE Raw

(* function. A move copies the storage; inv is the invoker.                *)
FnEnded(s, i) == [AnyReset(s, i) EXCEPT !.inv[i] = NoType]
FnCreated(s, i, x) == [Create(s, i, x) EXCEPT !.inv[i] = x[1]]
FnFrom(s, i, x) == IF x = Raw THEN FnEnded(s, i) ELSE FnCreated(FnEnded(s, i), i, x)
FnCopyCtor(s, i, j) ==
    IF Has(s, j) THEN [ManageCopy(FnEnded(s, i), j, i) EXCEPT !.inv[i] = s.inv[j]] ELSE FnEnded(s, i)
FnMoveCtor_shared(s, i, j) ==
    IF Has(s, j) THEN [FnEnded(s, i) EXCEPT !.cell[i] = s.cell[j], !.tag[i] = s.tag[j], !.inv[i] = s.inv[j]]
    ELSE FnEnded(s, i)
FnMoveCtor(s, i, j) ==
    IF Has(s, j) THEN [Passed(FnEnded(s, i), j, i) EXCEPT !.inv[i] = s.inv[j], !.inv[j] = NoType]
    ELSE FnEnded(s, i)
FnSwap(s, i, j) ==
    [s EXCEPT !.cell[i] = s.cell[j], !.cell[j] = s.cell[i], !.tag[i] = s.tag[j], !.tag[j] = s.tag[i],
              !.inv[i] = s.inv[j], !.inv[j] = s.inv[i]]
FnCopyAssign(s, i, j)  == FnEnded(FnSwap(FnCopyCtor(s, Temp, j), Temp, i), Temp)
FnMoveAssign(s, i, j)  == FnEnded(FnSwap(FnMoveCtor(s, Temp, j), Temp, i), Temp)
FnAssign(s, i, x)      == FnEnded(FnSwap(FnCreated(s, Temp, x), Temp, i), Temp)    \* of a reference_wrapper
FnCall(s, i) == IF Has(s, i) THEN <<s.inv[i], Stored(s, i)>> ELSE <<"throws">>
FnTarget(s, i, t) == IF s.tag[i] = t THEN Stored(s, i) ELSE Raw

-----------------------------------------------------------------------------
(* want is what each holder was given last; known is FALSE from the first  *)
(* call on that breaks what its kind promises; forgot has the objects that *)
(* an optional was given without noticing.                                 *)

HoldersOf(kind, t, x) ==
    [kind |-> kind, tag |-> <<t, t, NoType>>, inv |-> <<NoType, NoType, NoType>>,
     cell |-> <<x, x, Raw>>, heap |-> [p \in 1 .. MaxHeap |-> Raw], want |-> <<Raw, Raw>>,
     first |-> 0, lost |-> {}, torn |-> FALSE, known |-> TRUE, forgot |-> {}]
InitValues == held \in
    {HoldersOf("optional", NoType, Default), HoldersOf("any", NoType, Raw), HoldersOf("function", NoType, Raw),
     [HoldersOf("variant", "small", Default) EXCEPT !.want = <<Default, Default>>]}

Step(kind) == held.kind = kind /\ held.known
Smalls     == {"small"} \X Numbers
Forget(s, i, x) == [Given(s, i, Raw) EXCEPT !.forgot = @ \cup {x}]
Unknown(s) == [s EXCEPT !.known = FALSE]
Took(s, i, j) == [s EXCEPT !.want[j] = Raw, !.want[i] = held.want[j]]

NextOptional == Step("optional") /\ \E i \in 1 .. 2 :
    \/ held' = Given(OptNone(held, i), i, Raw)
    \/ held' = Given(OptReset(held, i), i, Raw)             \* also = nullopt, and an emplace that throws
    \/ \E x \in Smalls :
         \/ held' = Forget(OptFromValue(held, i, x), i, x)
         \/ held' = Forget(OptAssignScalar(held, i, x), i, x)
         \/ held' = Given(OptInPlace(held, i, x), i, x)
         \/ held' = Given(OptEmplace(held, i, x), i, x)
         \/ Has(held, i) /\ held' = Given(OptAssignValue(held, i, x), i, x)
         \/ ~Has(held, i) /\ held' = Forget(OptAssignValue(held, i, x), i, x)
    \/ held' = Given(OptCopyCtor(held, i, 3 - i), i, held.want[3 - i])
    \/ held' = Took(OptMoveCtor(held, i, 3 - i), i, 3 - i)
    \/ \E j \in 1 .. 2 : \/ held' = Given(OptCopyAssign(held, i, j), i, held.want[j])
                         \/ held' = Took(OptMoveAssign(held, i, j), i, j)
    \/ held' = [OptSwap(held) EXCEPT !.want = <<held.want[2], held.want[1]>>]
NextVariant == Step("variant") /\ \E i \in 1 .. 2 :
    \/ \E x \in Objects :
         \/ held' = Given(VarFrom(held, i, x), i, x)
         \/ held' = Given(VarEmplace(held, i, x), i, x)
         \/ held.first = 0 /\ held' = Given(VarFromArgs(held, i, x), i, x)
         \/ held.first # 0 /\ held' = Unknown(VarFromArgs(held, i, x))
    \/ \E t \in Types : held' = Unknown(VarEmplaceThrows(held, i, t))
    \/ held' = Given(VarCopyCtor(held, i, 3 - i), i, held.want[3 - i])
    \/ \E j \in 1 .. 2 : \/ held.tag[i] = held.tag[j] /\ held' = Given(VarCopyAssign(held, i, j), i, held.want[j])
                         \/ held.tag[i] # held.tag[j] /\ held' = Unknown(VarCopyAssign(held, i, j))
NextAny == Step("any") /\ \E i \in 1 .. 2 :
    \/ \E x \in Objects : \/ held' = Given(AnyFrom(held, i, x), i, x)       \* also emplace
                          \/ held' = Given(AnyAssign(held, i, x), i, x)
    \/ held' = Given(AnyReset(held, i), i, Raw)             \* also an emplace that throws
    \/ held' = Given(AnyCopyCtor(held, i, 3 - i), i, held.want[3 - i])
    \/ held' = Took(AnyMoveCtor(held, i, 3 - i), i, 3 - i)
    \/ \E j \in 1 .. 2 : \/ held' = Given(AnyCopyAssign(held, i, j), i, held.want[j])
                         \/ held' = Took(AnyMoveAssign(held, i, j), i, j)
                         \/ held' = [AnySwap(held, i, j) EXCEPT !.want[i] = held.want[j], !.want[j] = held.want[i]]
NextFunction == Step("function") /\ \E i \in 1 .. 2 :
    \/ \E x \in Objects \cup {Raw} : held' = Given(FnFrom(held, i, x), i, x)
    \/ \E x \in Smalls : held' = Given(FnAssign(held, i, x), i, x)
    \/ held' = Given(FnEnded(held, i), i, Raw)              \* = nullptr
    \/ held' = Given(FnCopyCtor(held, i, 3 - i), i, held.want[3 - i])
    \/ held' = Took(FnMoveCtor(held, i, 3 - i), i, 3 - i)
    \/ \E j \in 1 .. 2 : \/ held' = Given(FnCopyAssign(held, i, j), i, held.want[j])
                         \/ held' = Took(FnMoveAssign(held, i, j), i, j)
                         \/ held' = [FnSwap(held, i, j) EXCEPT !.want[i] = held.want[j], !.want[j] = held.want[i]]
NextValues == NextOptional \/ NextVariant \/ NextAny \/ NextFunction

SpecValues == InitValues /\ [][NextValues]_held

-----------------------------------------------------------------------------

(* An optional has what it was given last, through any chain of copies,    *)
(* moves and swaps, but for a value given to an empty one, or converted to *)
(* one: it is built and not noticed, so that transform never has a value   *)
(* and a full optional of a scalar is emptied by a value assigned to it.   *)
(* No object is built over another but over a T{} or over such a value,    *)
(* and none is destroyed that was not built. == is equality, > and < hold  *)
(* between values only, and <= is >=.                                      *)
OptionalsSound ==
    /\ ~held.torn /\ held.lost \subseteq {Default} \cup held.forgot
    /\ \A i, j \in 1 .. 2 :
        LET a == held.want[i]
            b == held.want[j]
            less == a # Raw /\ b # Raw /\ a[2] < b[2]
        IN  /\ Has(held, i) <=> a # Raw
            /\ a # Raw => held.cell[i] = a
            /\ OptValueOr(held, i, Default) = IF a = Raw THEN Default ELSE a
            /\ Has(OptOrElse(held, i, j), Temp) <=> a # Raw \/ b # Raw
            /\ ~Has(OptTransform(held, i), Temp)
            /\ OptEqual(held, i, j) <=> a = b
            /\ OptLess(held, i, j) <=> less
            /\ OptAtMost(held, i, j) <=> OptAtLeast(held, i, j)
            /\ OptAtLeast(held, i, j) <=> ~less

(* A variant has an object of the type that its index says, the one given  *)
(* last, and builds and destroys in turn, until a copy assignment between  *)
(* types assigns to what is not built, an emplace throws and leaves an     *)
(* index without an object, or the C++20 constructor is used twice. Of two *)
(* types none is less, and <= and >= hold both ways.                       *)
VariantsSound == held.known =>
    /\ ~held.torn /\ held.lost = {}
    /\ \A i, j \in 1 .. 2 :
        /\ held.cell[i] = held.want[i]
        /\ \A t \in Types : VarGetIf(held, i, t) = IF held.want[i][1] = t THEN held.want[i] ELSE Raw
        /\ VarEqual(held, i, j) <=> held.want[i] = held.want[j]
        /\ held.tag[i] = held.tag[j] => (VarAtMost(held, i, j) <=> Number(held, i) <= Number(held, j))
        /\ held.tag[i] # held.tag[j] => VarAtMost(held, i, j) /\ VarAtMost(held, j, i)

(* any and function have the object given last, each its own, and as many  *)
(* are in the heap as are held there: none is lost or destroyed twice.     *)
(* A function is called by the invoker of what it holds.                   *)
OwnersOfValuesSound ==
    /\ ~held.torn /\ held.lost = {} /\ held.cell[Temp] = Raw
    /\ Cardinality({p \in 1 .. MaxHeap : held.heap[p] # Raw}) = Cardinality({i \in 1 .. 2 : held.tag[i] = "big"})
    /\ held.tag[1] = "big" /\ held.tag[2] = "big" => held.cell[1] # held.cell[2]
    /\ \A i \in 1 .. 2, t \in Types :
        /\ Has(held, i) <=> held.want[i] # Raw
        /\ AnyCast(held, i, t) = IF held.want[i] # Raw /\ held.want[i][1] = t THEN held.want[i] ELSE Raw
        /\ held.kind = "function" =>
             /\ FnCall(held, i) = IF held.want[i] = Raw THEN <<"throws">> ELSE <<held.want[i][1], held.want[i]>>
             /\ FnTarget(held, i, t) = AnyCast(held, i, t)

(* What is held is what was given last, and was built once, in a holder of *)
(* each kind.                                                              *)
ValuesSound ==
    CASE held.kind = "optional" -> OptionalsSound
      [] held.kind = "variant"  -> VariantsSound
      [] OTHER -> OwnersOfValuesSound

=============================================================================
