----------------------------- MODULE SharedPtr -----------------------------
(***************************************************************************)
(* shared_ptr of include/MSTL/core/memory.hpp and its atomic reference     *)
(* count. Threads assign, move, reset and copy shared_ptr objects; some    *)
(* are local variables, others are members of the objects that they share, *)
(* as in a list. An assignment is several steps: the old owner is released *)
(* first, which may destroy objects, then the source is read.              *)
(***************************************************************************)
EXTENDS Naturals, Sequences, FiniteSets

CONSTANTS
    Users,     \* the threads, each with the locals <<t, 1>> and <<t, 2>>
    Objs,      \* bound: the objects made; each has one shared_ptr member
    Nobody     \* the null owner

Locals == Users \X {1, 2}
Slots  == Locals \cup Objs   \* the slot o is the member of the object o

VARIABLES
    own,    \* owner_ of each shared_ptr
    count,  \* count_ of each object's control block
    alive,  \* the objects constructed and not destroyed
    made,   \* the objects constructed so far
    op,     \* what each thread is doing
    bad,    \* a destroyed object or shared_ptr was used
    inside  \* some `p = x' had x in the object that p owned, as in p = p->next

ptrVars == <<own, count, alive, made, op, bad, inside>>

(* An operation on the shared_ptr dst: first the owners in drop are        *)
(* released, then dst takes the owner of src, by copy or by move.          *)
Idle == [do |-> "nothing"]
Op(d, s, how) == [do |-> how, dst |-> d, src |-> s,
                  drop |-> IF own[d] = Nobody THEN <<>> ELSE <<own[d]>>]

InitPtr ==
    /\ own = [s \in Slots |-> Nobody] /\ count = [o \in Objs |-> 0]
    /\ alive = {} /\ made = {} /\ bad = FALSE /\ inside = FALSE
    /\ op = [t \in Users |-> Idle]

(* The shared_ptrs that t can name: its locals and their objects' members. *)
Names(t) == {<<t, i>> : i \in {1, 2}} \cup ({own[<<t, i>>] : i \in {1, 2}} \ {Nobody})

Using(t) == IF op[t] = Idle THEN {} ELSE {op[t].dst, op[t].src}
Free(s)  == \A t \in Users : s \notin Using(t)

(* What the thread t names is read when its operation begins; users keep   *)
(* two threads off the same shared_ptr.                                    *)
Start(t, d, s, how) ==
    /\ op[t] = Idle /\ Free(d) /\ Free(s)
    /\ op' = [op EXCEPT ![t] = Op(d, s, how)]
    /\ UNCHANGED <<own, count, alive, made, bad>>

(* operator= : nothing on itself. A definition named ..._<bug> is not part *)
(* of the model: it is a plausible bug in the definition after it.         *)
Different_ignored(d, s) == TRUE
Different(d, s) == d # s

Assign(t) ==
    \E d, s \in Names(t), how \in {"copy", "move"} :
        /\ Different(d, s)
        /\ Start(t, d, s, how)
        /\ inside' = (inside \/ own[d] = s)

(* reset(new T) and reset().                                               *)
Reset(t) == \E d \in Names(t), how \in {"new", "clear"} : Start(t, d, d, how) /\ UNCHANGED inside

(* A copy is made for a thread that starts: its locals are still empty.    *)
Give(t) ==
    \E u \in Users \ {t}, s \in Names(t) :
        /\ own[<<u, 1>>] = Nobody /\ own[<<u, 2>>] = Nobody /\ op[u] = Idle
        /\ Start(t, <<u, 1>>, s, "copy") /\ UNCHANGED inside

-----------------------------------------------------------------------------

Reach(o) == bad' = (bad \/ o \notin alive)

(* decref: the last reference deletes the control block, whose destructor  *)
(* deletes the object, whose destructor releases its member.               *)
LastRef_early(o) == count[o] <= 2
LastRef(o) == count[o] = 1

Decref(t) ==
    /\ op[t] # Idle /\ op[t].drop # <<>>
    /\ LET o == Head(op[t].drop)
           member == IF LastRef(o) /\ own[o] # Nobody THEN <<own[o]>> ELSE <<>>
       IN  /\ Reach(o)
           /\ count' = [count EXCEPT ![o] = IF @ > 0 THEN @ - 1 ELSE 0]
           /\ alive' = IF LastRef(o) THEN alive \ {o} ELSE alive
           /\ own' = IF LastRef(o) THEN [own EXCEPT ![o] = Nobody] ELSE own
           /\ op' = [op EXCEPT ![t].drop = member \o Tail(@)]
    /\ UNCHANGED <<made, inside>>

(* The rest of the operation, after the old owner is released.             *)
Incref_forgotten(o) == UNCHANGED count
Incref(o) == count' = [count EXCEPT ![o] = @ + 1]

Take(t) ==
    /\ op[t].do \in {"copy", "move"} /\ op[t].drop = <<>>
    /\ LET d == op[t].dst   s == op[t].src   o == own[s]
       IN  /\ bad' = (bad \/ (s \in Objs /\ s \notin alive) \/ (d \in Objs /\ d \notin alive)
                          \/ (o # Nobody /\ o \notin alive))
           /\ IF op[t].do = "copy" /\ o # Nobody THEN Incref(o) ELSE UNCHANGED count
           /\ own' = IF op[t].do = "copy" THEN [own EXCEPT ![d] = o]
                     ELSE [own EXCEPT ![d] = o, ![s] = Nobody]
    /\ op' = [op EXCEPT ![t] = Idle]
    /\ UNCHANGED <<alive, made, inside>>

Make(t) ==
    /\ op[t].do = "new" /\ op[t].drop = <<>>
    /\ \E o \in Objs \ made :
          /\ own' = [own EXCEPT ![op[t].dst] = o]
          /\ count' = [count EXCEPT ![o] = 1]
          /\ alive' = alive \cup {o} /\ made' = made \cup {o}
    /\ UNCHANGED inside
    /\ bad' = (bad \/ (op[t].dst \in Objs /\ op[t].dst \notin alive))
    /\ op' = [op EXCEPT ![t] = Idle]

Clear(t) ==
    /\ op[t].do = "clear" /\ op[t].drop = <<>>
    /\ own' = [own EXCEPT ![op[t].dst] = Nobody]
    /\ bad' = (bad \/ (op[t].dst \in Objs /\ op[t].dst \notin alive))
    /\ op' = [op EXCEPT ![t] = Idle]
    /\ UNCHANGED <<count, alive, made, inside>>

NextPtr ==
    /\ ~bad
    /\ \E t \in Users :
          Assign(t) \/ Reset(t) \/ Give(t) \/ Decref(t) \/ Take(t) \/ Make(t) \/ Clear(t)

SpecPtr == InitPtr /\ [][NextPtr]_ptrVars

-----------------------------------------------------------------------------

\* No thread uses an object or a shared_ptr inside one after the last
\* reference has gone, unless an assignment released the object that its
\* source was in: the source is read after that.
NoUseAfterDelete == bad => inside

\* Between operations a count is the number of shared_ptrs that own the
\* object, in live variables and members, and an object lives exactly as long.
CountExact ==
    (~bad /\ \A t \in Users : op[t] = Idle) =>
        \A o \in Objs :
            /\ count[o] = Cardinality({s \in Locals \cup alive : own[s] = o})
            /\ o \in alive <=> count[o] > 0

\* An object is not used after its last reference has gone, but for p = p->next,
\* and its count is the number of its owners.
OwnersSound == NoUseAfterDelete /\ CountExact

=============================================================================
