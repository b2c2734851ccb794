----------------------------- MODULE MCAtomics -----------------------------
(***************************************************************************)
(* An instance for TLC of the two parts that work with atomics alone, the  *)
(* lock-free queue and shared_ptr. They do not interact: a behaviour picks *)
(* one and leaves the other as it is.                                      *)
(***************************************************************************)
EXTENDS LockFreeQueue, SharedPtr, TLC

CONSTANTS a, b, p, q, n1, n2, n3, n4, n5

TwoPushes == {a, b}
TwoPops   == {p, q}
FiveNodes == {n1, n2, n3, n4, n5}
\* The same model values serve both parts: symmetry is then the same, too.
Symmetry  == Permutations(Nodes) \cup Permutations(Pushers) \cup Permutations(Poppers)

VARIABLE part

InitEither    == part \in {"shared_ptr", "queue"} /\ InitPtr /\ Init
SharedPtrStep == part = "shared_ptr" /\ NextPtr /\ UNCHANGED <<part, vars>>
QueueStep     == part = "queue" /\ Next /\ UNCHANGED <<part, ptrVars>>
NextEither    == SharedPtrStep \/ QueueStep
SpecEither    == InitEither /\ [][NextEither]_<<part, ptrVars, vars>>

(* The queue alone, for the search for the lost push.                      *)
SpecQueue == InitEither /\ part = "queue" /\ [][QueueStep]_<<part, ptrVars, vars>>

=============================================================================
