--------------------------- MODULE OwnershipProofs ---------------------------
(***************************************************************************)
(* Objects and who owns them. That the reference counts of SharedPtr are   *)
(* exact and keep every object alive for its users, for any number of      *)
(* threads and objects; that every way to make, copy and drop a shared_ptr *)
(* keeps the blocks of SharedOwners in order, for any number of objects    *)
(* made; and that the optional, any, variant or function of Values has the *)
(* object that it was given last, built and destroyed once. The three are  *)
(* about variables of their own and do not interact.                       *)
(***************************************************************************)
EXTENDS SharedPtr, SharedOwners, Values,
        FiniteSetTheorems, SequenceTheorems, TLAPS

(* What the proofs take of the constants.                                  *)
Apart ==
    /\ IsFiniteSet(Users) /\ IsFiniteSet(Objs)
    /\ Nobody \notin Objs /\ Nobody \notin Locals /\ Locals \cap Objs = {}

Drops   == {<<>>} \cup {<<o>> : o \in Objs}
Pending == [do : {"copy", "move", "new", "clear"}, dst : Slots, src : Slots, drop : Drops]

Busy(t) == op[t] # Idle

Typed ==
    /\ own \in [Slots -> Objs \cup {Nobody}] /\ count \in [Objs -> Nat]
    /\ alive \subseteq made /\ made \subseteq Objs
    /\ op \in [Users -> {Idle} \cup Pending]
    /\ bad \in BOOLEAN /\ inside \in BOOLEAN

(* The reference that a shared_ptr stands for: its owner, but that an      *)
(* assignment to it has still to release what it owned.                    *)
Target(s) == \E t \in Users : Busy(t) /\ op[t].dst = s
Held(s, o) ==
    \/ ~Target(s) /\ own[s] = o
    \/ \E t \in Users : Busy(t) /\ op[t].dst = s /\ op[t].drop = <<o>>
Holders(o) == {s \in Locals \cup alive : Held(s, o)}

Counted ==
    \A o \in Objs :
        /\ count[o] = Cardinality(Holders(o)) /\ (o \in alive <=> count[o] > 0)
        /\ o \notin alive => own[o] = Nobody

(* The thread t has a local variable that keeps the slot s in being.       *)
Guarded(t, s) ==
    \/ s \in Locals
    \/ \E i \in {1, 2} : own[<<t, i>>] = s /\ ~Target(<<t, i>>)

(* Operations in progress: they use different shared_ptrs, which locals    *)
(* keep in being, and threads only give to locals that are empty.          *)
InOrder(t) ==
    /\ \A u \in Users \ {t} : Using(t) \cap Using(u) = {}
    /\ Guarded(t, op[t].dst) /\ (inside \/ Guarded(t, op[t].src))
    /\ op[t].src \in Locals => op[t].src \in {t} \X {1, 2}
    /\ op[t].dst \in Locals => op[t].dst \in {t} \X {1, 2} \/ own[op[t].dst] = Nobody
    /\ op[t].do \in {"copy", "move"} => op[t].dst # op[t].src
Orderly == \A t \in Users : Busy(t) => InOrder(t)

Inv ==
    /\ Typed /\ (bad => inside)
    /\ ~bad => Counted /\ Orderly

-----------------------------------------------------------------------------
(* Lemmas on states.                                                       *)

LEMMA SlotsFinite == ASSUME Apart PROVE IsFiniteSet(Slots)
<1>1. IsFiniteSet({1, 2})
  <2>1. {1, 2} = {1} \cup {2}
    OBVIOUS
  <2>2. IsFiniteSet({1})
    BY FS_Singleton
  <2> QED BY <2>1, <2>2, FS_AddElement
<1>2. IsFiniteSet(Locals)
  BY <1>1, FS_Product DEF Apart, Locals
<1> QED BY <1>2, FS_Union DEF Slots, Apart

LEMMA PendingFields ==
    ASSUME Typed, NEW t \in Users, Busy(t)
    PROVE  /\ op[t] \in Pending /\ op[t].dst \in Slots /\ op[t].src \in Slots
           /\ op[t].drop \in Drops
BY DEF Typed, Busy, Pending

(* A slot that an operation assigns to holds what the operation has still  *)
(* to release, any other one what it owns.                                 *)
LEMMA HeldByTarget ==
    ASSUME Typed, Orderly, NEW t \in Users, Busy(t), NEW o
    PROVE  Held(op[t].dst, o) <=> op[t].drop = <<o>>
<1>1. \A u \in Users : Busy(u) /\ op[u].dst = op[t].dst => u = t
  BY DEF Orderly, InOrder, Using, Busy
<1> QED BY <1>1 DEF Held, Target

LEMMA HeldByOther ==
    ASSUME NEW s, NEW o, ~Target(s) PROVE Held(s, o) <=> own[s] = o
BY DEF Held, Target

LEMMA HoldersFinite ==
    ASSUME Apart, Typed, NEW o PROVE IsFiniteSet(Holders(o)) /\ Cardinality(Holders(o)) \in Nat
<1>1. Holders(o) \subseteq Slots
  BY DEF Holders, Typed, Slots
<1> QED BY <1>1, SlotsFinite, FS_Subset, FS_CardinalityType

(* What a live shared_ptr holds is alive; two of them count twice.         *)
LEMMA HeldIsAlive ==
    ASSUME Apart, Typed, Counted, NEW o \in Objs, NEW s \in Locals \cup alive, Held(s, o)
    PROVE  /\ o \in alive /\ count[o] > 0
           /\ \A r \in (Locals \cup alive) \ {s} : Held(r, o) => count[o] # 1
<1>1. s \in Holders(o) /\ IsFiniteSet(Holders(o)) /\ count[o] = Cardinality(Holders(o))
  BY HoldersFinite DEF Holders, Counted
<1>2. Cardinality(Holders(o)) # 0
  BY <1>1, FS_EmptySet
<1>3. count[o] \in Nat
  BY DEF Typed
<1>4. ASSUME NEW r \in (Locals \cup alive) \ {s}, Held(r, o) PROVE count[o] # 1
  <2>1. r \in Holders(o)
    BY <1>4 DEF Holders
  <2>2. ~(\E x : Holders(o) = {x})
    BY <1>1, <1>4, <2>1
  <2> QED BY <1>1, <2>2, FS_Singleton
<1> QED BY <1>1, <1>2, <1>3, <1>4 DEF Counted

(* The object whose member is guarded is alive.                            *)
LEMMA GuardedIsAlive ==
    ASSUME Apart, Typed, Counted, NEW t \in Users, NEW s \in Slots, Guarded(t, s)
    PROVE  s \in Locals \cup alive
<1>1. CASE s \in Locals
  BY <1>1
<1>2. CASE s \notin Locals
  <2>1. PICK i \in {1, 2} : own[<<t, i>>] = s /\ ~Target(<<t, i>>)
    BY <1>2 DEF Guarded
  <2>2. Held(<<t, i>>, s) /\ <<t, i>> \in Locals /\ s \in Objs
    BY <1>2, <2>1, HeldByOther DEF Locals, Slots
  <2> QED BY <2>2, HeldIsAlive
<1> QED BY <1>1, <1>2

-----------------------------------------------------------------------------
(* Steps.                                                                  *)

(* An operation starts: nothing that is held changes.                      *)
LEMMA StartKeeps ==
    ASSUME Apart, Inv, bad = FALSE, NEW t \in Users, NEW d \in Slots, NEW s \in Slots,
           NEW how \in {"copy", "move", "new", "clear"}, Start(t, d, s, how),
           d \in Names(t) \/ (d \in Locals /\ own[d] = Nobody), s \in Names(t),
           how \in {"copy", "move"} => d # s,
           inside' = (inside \/ (d # s /\ own[d] = s)) \/ (inside' = inside /\ d = s)
             \/ (inside' = inside /\ own[d] # s)
    PROVE  Inv'
<1> DEFINE new == Op(d, s, how)
<1>0. Typed /\ Counted /\ Orderly
  BY DEF Inv
<1>1. /\ UNCHANGED <<own, count, alive, made, bad>> /\ op' = [op EXCEPT ![t] = new]
      /\ op[t] = Idle /\ Free(d) /\ Free(s)
  BY DEF Start
<1>2. new \in Pending /\ new # Idle /\ new.dst = d /\ new.src = s /\ new.do = how
  <2>1. own[d] # Nobody => own[d] \in Objs
    BY <1>0 DEF Typed
  <2> QED BY <2>1 DEF Op, Pending, Drops, Idle
<1>3. inside' \in BOOLEAN /\ (inside => inside')
  BY <1>0 DEF Typed
<1>4. Typed'
  BY <1>0, <1>1, <1>2, <1>3 DEF Typed
<1>5. /\ Busy(t)' /\ op'[t] = new /\ ~Busy(t)
      /\ \A u \in Users \ {t} : op'[u] = op[u] /\ (Busy(u)' <=> Busy(u))
  BY <1>0, <1>1, <1>2 DEF Busy, Typed
<1>6. \A x : Target(x)' <=> Target(x) \/ x = d
  BY <1>2, <1>5 DEF Target
<1>7. ~Target(d)
  BY <1>1 DEF Target, Free, Using, Busy
<1>8. \A x \in Slots, o \in Objs : Held(x, o)' <=> Held(x, o)
  <2> SUFFICES ASSUME NEW x \in Slots, NEW o \in Objs PROVE Held(x, o)' <=> Held(x, o)
    OBVIOUS
  <2>1. CASE x = d
    <3>1. Held(x, o)' <=> new.drop = <<o>>
      BY <1>2, <1>5, <1>6, <1>7, <2>1 DEF Held, Target
    <3>2. new.drop = <<o>> <=> own[d] = o
      BY <1>0 DEF Op, Typed, Apart
    <3> QED BY <3>1, <3>2, <2>1, <1>7, HeldByOther
  <2>2. CASE x # d
    BY <1>1, <1>2, <1>5, <1>6, <2>2 DEF Held
  <2> QED BY <2>1, <2>2
<1>9. \A o \in Objs : Holders(o)' = Holders(o)
  BY <1>0, <1>1, <1>8 DEF Holders, Slots, Typed
<1>10. Counted'
  BY <1>0, <1>1, <1>9 DEF Counted
<1>11. \A u \in Users, x \in Slots : Guarded(u, x) /\ (u = t => own[d] # x \/ x \in Locals \/ d \notin Locals)
              => Guarded(u, x)'
  <2> SUFFICES ASSUME NEW u \in Users, NEW x \in Objs, NEW i \in {1, 2}, own[<<u, i>>] = x,
                      ~Target(<<u, i>>), u = t => own[d] # x \/ d \notin Locals
               PROVE  <<u, i>> # d
    BY <1>1, <1>6 DEF Guarded, Slots
  <2>1. own[<<u, i>>] # Nobody /\ (u # t => <<u, i>> \notin Names(t))
    <3>1. \A j \in {1, 2} : <<t, j>> \in Slots /\ own[<<t, j>>] \in Objs \cup {Nobody}
      BY <1>0 DEF Typed, Slots, Locals
    <3>2. own[<<u, i>>] # Nobody /\ <<u, i>> \notin Objs
      BY DEF Apart, Locals
    <3> QED BY <3>1, <3>2 DEF Names
  <2>2. <<u, i>> \in Locals
    BY DEF Locals
  <2> QED BY <2>1, <2>2
<1>12. \A x \in Names(t) : Guarded(t, x)
  <2>1. \A x \in Names(t) : x \in Locals \/ (x \in Objs /\ \E i \in {1, 2} : own[<<t, i>>] = x)
    BY <1>0 DEF Names, Locals, Slots, Typed
  <2> SUFFICES ASSUME NEW x \in Objs, NEW i \in {1, 2}, own[<<t, i>>] = x PROVE ~Target(<<t, i>>)
    BY <2>1 DEF Guarded
  <2> SUFFICES ASSUME NEW u \in Users, Busy(u), op[u].dst = <<t, i>> PROVE FALSE
    BY DEF Target
  <2> QED BY <1>0, <1>5 DEF Orderly, InOrder, Apart, Locals
<1>13. Orderly'
  <2> SUFFICES ASSUME NEW u \in Users, Busy(u)' PROVE InOrder(u)'
    BY DEF Orderly
  <2>1. \A v \in Users : Using(v)' = IF v = t THEN {d, s} ELSE Using(v)
    BY <1>2, <1>5 DEF Using, Busy
  <2>2. \A v \in Users : {d, s} \cap Using(v) = {}
    BY <1>1 DEF Free
  <2>3. CASE u = t
    <3>1. \A v \in Users \ {u} : Using(u)' \cap Using(v)' = {}
      BY <2>1, <2>2, <2>3
    <3>2. Guarded(t, d)'
      <4>1. CASE d \in Locals
        BY <4>1 DEF Guarded
      <4>2. CASE d \notin Locals
        BY <4>2, <1>11, <1>12
      <4> QED BY <4>1, <4>2
    <3>3. inside' \/ Guarded(t, s)'
      BY <1>11, <1>12
    <3>4. \A x \in Names(t) : x \in Locals => x \in {t} \X {1, 2}
      BY <1>0 DEF Names, Locals, Slots, Typed, Apart
    <3> QED BY <1>1, <1>2, <1>5, <2>3, <3>1, <3>2, <3>3, <3>4 DEF InOrder
  <2>4. CASE u # t
    <3>1. Busy(u) /\ op'[u] = op[u] /\ op[u].dst \in Slots /\ op[u].src \in Slots
      BY <1>0, <1>5, <2>4, PendingFields
    <3>2. \A v \in Users \ {u} : Using(u)' \cap Using(v)' = {}
      BY <1>0, <2>1, <2>2, <2>4, <3>1 DEF Orderly, InOrder
    <3>3. InOrder(u)
      BY <1>0, <3>1 DEF Orderly
    <3> QED BY <1>1, <1>3, <1>11, <2>4, <3>1, <3>2, <3>3 DEF InOrder
  <2> QED BY <2>3, <2>4
<1> QED BY <1>1, <1>4, <1>10, <1>13 DEF Inv

(* The operation of t, which assigns to d from s, ends: only what these    *)
(* two own may change.                                                     *)
Ends(t, d, s) ==
    /\ Busy(t) /\ op[t].drop = <<>> /\ op[t].dst = d /\ op[t].src = s
    /\ op' = [op EXCEPT ![t] = Idle] /\ inside' = inside
    /\ \A x \in Slots \ {d, s} : own'[x] = own[x]

LEMMA EndKeepsOrder ==
    ASSUME Apart, Typed, Orderly, NEW t \in Users, NEW d \in Slots, NEW s \in Slots,
           Ends(t, d, s)
    PROVE  /\ Orderly' /\ (~Target(s) \/ s = d)
           /\ \A x \in Slots, o \in Objs : x = d => ~Held(x, o) /\ (Held(x, o)' <=> own'[x] = o)
           /\ \A x \in Slots, o \in Objs : x # d /\ own'[x] = own[x] => (Held(x, o)' <=> Held(x, o))
<1>0. /\ Busy(t) /\ op[t].drop = <<>> /\ op[t].dst = d /\ op[t].src = s
      /\ op' = [op EXCEPT ![t] = Idle] /\ inside' = inside
      /\ \A x \in Slots \ {d, s} : own'[x] = own[x]
  BY DEF Ends
<1>1. /\ ~Busy(t)' /\ Using(t) = {d, s} /\ InOrder(t)
      /\ \A u \in Users \ {t} : op'[u] = op[u] /\ (Busy(u)' <=> Busy(u)) /\ Using(u)' = Using(u)
  BY <1>0 DEF Busy, Typed, Using, Orderly
<1>2. Using(t)' = {}
  BY <1>1 DEF Using, Busy
<1>3. \A x : Target(x)' <=> Target(x) /\ x # d
  BY <1>0, <1>1 DEF Target, InOrder, Using, Busy
<1>4. ASSUME NEW u \in Users, Busy(u)' PROVE InOrder(u)'
  <2>1. u # t /\ Busy(u) /\ op'[u] = op[u] /\ InOrder(u) /\ op[u].dst \in Slots
    BY <1>1, <1>4, PendingFields DEF Orderly
  <2>2. \A v \in Users \ {u} : Using(u)' \cap Using(v)' = {}
    BY <1>1, <1>2, <2>1 DEF InOrder
  <2>3. \A x \in Slots : Guarded(u, x) => Guarded(u, x)'
    <3> SUFFICES ASSUME NEW x \in Objs, NEW i \in {1, 2}, own[<<u, i>>] = x, ~Target(<<u, i>>)
                 PROVE  own'[<<u, i>>] = x /\ ~Target(<<u, i>>)'
      BY DEF Guarded, Slots
    <3>1. <<u, i>> \in Slots /\ <<u, i>> \in Locals
      BY DEF Slots, Locals
    <3>2. <<u, i>> # d
      BY <1>0 DEF Target
    <3>3. <<u, i>> # s
      BY <1>0, <1>1, <2>1, <3>1 DEF InOrder
    <3> QED BY <1>0, <1>1, <1>3, <3>1, <3>2, <3>3
  <2>4. own'[op[u].dst] = own[op[u].dst]
    BY <1>0, <1>1, <2>1 DEF InOrder, Using, Busy
  <2>5. op[u].src \in Slots
    BY <2>1, PendingFields
  <2> QED BY <1>0, <2>1, <2>2, <2>3, <2>4, <2>5 DEF InOrder
<1>5. ~Target(s) \/ s = d
  BY <1>0, <1>1 DEF Target, InOrder, Using, Busy
<1>6. \A x, o : x = d => ~Held(x, o)
  <2>1. \A o : <<>> # <<o>>
    OBVIOUS
  <2> QED BY <1>0, <2>1, HeldByTarget, ZenonT(60)
<1>7. \A x, o : x = d => (Held(x, o)' <=> own'[x] = o)
  BY <1>3 DEF Held, Target
<1>8. \A x, o : x # d /\ own'[x] = own[x] => (Held(x, o)' <=> Held(x, o))
  BY <1>0, <1>1, <1>3 DEF Held
<1> QED BY <1>3, <1>4, <1>5, <1>6, <1>7, <1>8 DEF Orderly

LEMMA ClearKeeps == ASSUME Apart, Inv, bad = FALSE, NEW t \in Users, Clear(t) PROVE Inv'
<1>0. Typed /\ Counted /\ Orderly
  BY DEF Inv
<1>1. Busy(t) /\ op[t].drop = <<>> /\ Guarded(t, op[t].dst)
  <2>1. Busy(t)
    BY DEF Clear, Busy, Idle
  <2> QED BY <1>0, <2>1 DEF Clear, Orderly, InOrder
<1>2. PICK d \in Slots, s \in Slots : op[t].dst = d /\ op[t].src = s
  BY <1>0, <1>1, PendingFields
<1>3. d \in Locals \cup alive
  BY <1>0, <1>1, <1>2, GuardedIsAlive
<1>4. /\ own' = [own EXCEPT ![d] = Nobody] /\ op' = [op EXCEPT ![t] = Idle]
      /\ UNCHANGED <<count, alive, made>> /\ inside' = inside /\ bad' = FALSE
  BY <1>2, <1>3 DEF Clear, Apart
<1>5. Typed'
  BY <1>0, <1>2, <1>4 DEF Typed
<1>6. \A x \in Slots \ {d} : own'[x] = own[x]
  BY <1>0, <1>4 DEF Typed
<1>7. /\ Orderly'
      /\ \A x \in Slots, o \in Objs : x = d => ~Held(x, o) /\ (Held(x, o)' <=> own'[x] = o)
      /\ \A x \in Slots, o \in Objs : x # d /\ own'[x] = own[x] => (Held(x, o)' <=> Held(x, o))
  <2>1. \A x \in Slots \ {d, s} : own'[x] = own[x]
    BY <1>6
  <2>2. Ends(t, d, s)
    BY <1>1, <1>2, <1>4, <2>1 DEF Ends
  <2> QED BY <1>0, <2>2, EndKeepsOrder
<1>8. own'[d] = Nobody
  BY <1>0, <1>2, <1>4 DEF Typed
<1>9. \A o \in Objs : Holders(o)' = Holders(o)
  BY <1>0, <1>4, <1>6, <1>7, <1>8 DEF Holders, Apart, Slots, Typed
<1>10. Counted'
  BY <1>0, <1>4, <1>6, <1>8, <1>9 DEF Counted, Typed, Slots
<1> QED BY <1>4, <1>5, <1>7, <1>10 DEF Inv

LEMMA MakeKeeps == ASSUME Apart, Inv, bad = FALSE, NEW t \in Users, Make(t) PROVE Inv'
<1>0. Typed /\ Counted /\ Orderly
  BY DEF Inv
<1>1. Busy(t) /\ op[t].drop = <<>> /\ Guarded(t, op[t].dst)
  <2>1. Busy(t)
    BY DEF Make, Busy, Idle
  <2> QED BY <1>0, <2>1 DEF Make, Orderly, InOrder
<1>2. PICK d \in Slots, s \in Slots : op[t].dst = d /\ op[t].src = s
  BY <1>0, <1>1, PendingFields
<1>3. d \in Locals \cup alive
  BY <1>0, <1>1, <1>2, GuardedIsAlive
<1>4. PICK n \in Objs \ made :
         /\ own' = [own EXCEPT ![d] = n] /\ op' = [op EXCEPT ![t] = Idle]
         /\ count' = [count EXCEPT ![n] = 1]
         /\ alive' = alive \cup {n} /\ made' = made \cup {n}
         /\ inside' = inside /\ bad' = FALSE
  BY <1>2, <1>3 DEF Make, Apart
<1>5. Typed'
  BY <1>0, <1>2, <1>4 DEF Typed
<1>6. (\A x \in Slots \ {d} : own'[x] = own[x]) /\ own'[d] = n
  BY <1>0, <1>2, <1>4 DEF Typed
<1>7. /\ Orderly'
      /\ \A x \in Slots, o \in Objs : x = d => ~Held(x, o) /\ (Held(x, o)' <=> own'[x] = o)
      /\ \A x \in Slots, o \in Objs : x # d /\ own'[x] = own[x] => (Held(x, o)' <=> Held(x, o))
  <2>1. \A x \in Slots \ {d, s} : own'[x] = own[x]
    BY <1>6
  <2>2. Ends(t, d, s)
    BY <1>1, <1>2, <1>4, <2>1 DEF Ends
  <2> QED BY <1>0, <2>2, EndKeepsOrder
<1>8. n \notin alive /\ n # d /\ n \in Slots /\ \A o \in Objs : ~Held(n, o)
  <2>1. n \notin alive /\ n \notin Locals /\ n # d /\ n \in Slots /\ own[n] = Nobody
    BY <1>0, <1>3, <1>4 DEF Typed, Apart, Slots, Counted
  <2>2. ~Target(n)
    <3> SUFFICES ASSUME NEW u \in Users, Busy(u), op[u].dst = n PROVE FALSE
      BY DEF Target
    <3> QED BY <1>0, <2>1, GuardedIsAlive DEF Orderly, InOrder
  <2> QED BY <2>1, <2>2, HeldByOther DEF Apart
<1>9. \A o \in Objs \ {n} : Holders(o)' = Holders(o)
  BY <1>0, <1>4, <1>6, <1>7, <1>8 DEF Holders, Slots, Typed
<1>10. Holders(n)' = {d} /\ Cardinality(Holders(n)') = 1
  <2>1. Holders(n) = {}
    <3>1. count[n] = 0
      BY <1>0, <1>4, <1>8 DEF Counted, Typed
    <3> QED BY <1>0, <1>4, <3>1, HoldersFinite, FS_EmptySet DEF Counted
  <2>2. Holders(n)' = {d}
    BY <1>0, <1>3, <1>4, <1>6, <1>7, <1>8, <2>1 DEF Holders, Slots, Typed
  <2> QED BY <2>2, FS_Singleton
<1>11. Counted'
  <2> SUFFICES ASSUME NEW o \in Objs
               PROVE  /\ count'[o] = Cardinality(Holders(o)') /\ (o \in alive' <=> count'[o] > 0)
                      /\ o \notin alive' => own'[o] = Nobody
    BY DEF Counted
  <2>1. CASE o = n
    BY <1>0, <1>4, <1>10, <2>1, SMTT(30) DEF Typed
  <2>2. CASE o # n
    <3>1. o \notin alive => o # d
      BY <1>3 DEF Apart
    <3> QED BY <1>0, <1>4, <1>6, <1>9, <2>2, <3>1 DEF Counted, Typed, Slots
  <2> QED BY <2>1, <2>2
<1> QED BY <1>4, <1>5, <1>7, <1>11 DEF Inv

LEMMA TakeKeeps == ASSUME Apart, Inv, bad = FALSE, NEW t \in Users, Take(t) PROVE Inv'
<1>0. Typed /\ Counted /\ Orderly
  BY DEF Inv
<1>1. Busy(t) /\ op[t].drop = <<>> /\ InOrder(t)
  <2>1. Busy(t)
    BY DEF Take, Busy, Idle
  <2> QED BY <1>0, <2>1 DEF Take, Orderly
<1>2. PICK d \in Slots, s \in Slots : op[t].dst = d /\ op[t].src = s
  BY <1>0, <1>1, PendingFields
<1> DEFINE n == own[s]
<1>3. d \in Locals \cup alive /\ d # s /\ (inside \/ s \in Locals \cup alive)
  <2>1. d # s
    BY <1>1, <1>2 DEF Take, InOrder
  <2> QED BY <1>0, <1>1, <1>2, <2>1, GuardedIsAlive DEF InOrder
<1>4. /\ bad' = (bad \/ (s \in Objs /\ s \notin alive) \/ (d \in Objs /\ d \notin alive)
                     \/ (n # Nobody /\ n \notin alive))
      /\ count' = IF op[t].do = "copy" /\ n # Nobody THEN [count EXCEPT ![n] = @ + 1] ELSE count
      /\ own' = IF op[t].do = "copy" THEN [own EXCEPT ![d] = n] ELSE [own EXCEPT ![d] = n, ![s] = Nobody]
      /\ op' = [op EXCEPT ![t] = Idle] /\ UNCHANGED <<alive, made>> /\ inside' = inside
  BY <1>2 DEF Take, Incref
<1>5. n \in Objs \cup {Nobody}
  BY <1>0, <1>2 DEF Typed
<1>6. Typed'
  <2>1. count' \in [Objs -> Nat]
    BY <1>0, <1>4, <1>5 DEF Typed
  <2>2. own' \in [Slots -> Objs \cup {Nobody}]
    BY <1>0, <1>2, <1>4, <1>5 DEF Typed
  <2> QED BY <1>0, <1>4, <2>1, <2>2 DEF Typed
<1>7. /\ own'[d] = n /\ own'[s] = IF op[t].do = "copy" THEN n ELSE Nobody
      /\ \A x \in Slots \ {d, s} : own'[x] = own[x]
  BY <1>0, <1>2, <1>3, <1>4 DEF Typed
<1>8. /\ Orderly' /\ ~Target(s)
      /\ \A x \in Slots, o \in Objs : x = d => ~Held(x, o) /\ (Held(x, o)' <=> own'[x] = o)
      /\ \A x \in Slots, o \in Objs : x # d /\ own'[x] = own[x] => (Held(x, o)' <=> Held(x, o))
  <2>1. Ends(t, d, s)
    BY <1>1, <1>2, <1>4, <1>7 DEF Ends
  <2> QED BY <1>0, <1>3, <2>1, EndKeepsOrder
<1>9. \A o \in Objs : Held(s, o) <=> n = o
  BY <1>8, HeldByOther
<1>10. ~inside => ~bad'
  <2> SUFFICES ASSUME ~inside, n # Nobody PROVE n \in alive
    BY <1>3, <1>4 DEF Apart
  <2> QED BY <1>0, <1>3, <1>5, <1>9, HeldIsAlive
<1>11. ASSUME ~bad' PROVE Counted'
  <2>1. s \in Locals \cup alive /\ (n \in Objs => n \in alive)
    BY <1>2, <1>4, <1>5, <1>11 DEF Slots, Apart
  <2> SUFFICES ASSUME NEW o \in Objs
               PROVE  /\ count'[o] = Cardinality(Holders(o)') /\ (o \in alive' <=> count'[o] > 0)
                      /\ o \notin alive' => own'[o] = Nobody
    BY DEF Counted
  <2>2. o \notin alive' => own'[o] = Nobody
    BY <1>0, <1>3, <1>4, <1>7, <2>1 DEF Counted, Apart, Slots
  <2>3. \A x \in Slots \ {d, s} : Held(x, o)' <=> Held(x, o)
    BY <1>7, <1>8
  <2>4. \A x \in Slots : x = d => ~Held(x, o) /\ (Held(x, o)' <=> n = o)
    BY <1>7, <1>8
  <2>5. CASE n # o
    <3>1. \A x \in Slots : x = s => ~Held(x, o)'
      <4>1. s \in Slots /\ ~Target(s)' /\ own'[s] # o
        BY <1>2, <1>7, <1>1, <1>4, <1>8, <2>5 DEF Target, Busy, Apart
      <4> QED BY <4>1 DEF Held, Target
    <3>2. Holders(o)' = Holders(o)
      BY <1>0, <1>4, <1>9, <2>3, <2>4, <2>5, <3>1 DEF Holders, Slots, Typed
    <3> QED BY <1>0, <1>4, <2>2, <2>5, <3>2 DEF Counted, Typed
  <2>6. CASE n = o /\ op[t].do = "copy"
    <3>1. \A x \in Slots : x = s => Held(x, o) /\ Held(x, o)'
      BY <1>3, <1>7, <1>8, <1>9, <2>6
    <3>2. Holders(o)' = Holders(o) \cup {d} /\ d \notin Holders(o)
      BY <1>0, <1>3, <1>4, <2>3, <2>4, <2>6, <3>1 DEF Holders, Slots, Typed
    <3>3. Cardinality(Holders(o)') = Cardinality(Holders(o)) + 1
      BY <1>0, <3>2, HoldersFinite, FS_AddElement
    <3>4. count'[o] = count[o] + 1 /\ count[o] \in Nat /\ o \in alive
      BY <1>0, <1>4, <2>1, <2>6 DEF Typed, Apart
    <3> QED BY <1>0, <1>4, <2>2, <3>3, <3>4 DEF Counted
  <2>7. CASE n = o /\ op[t].do # "copy"
    <3>1. \A x \in Slots : x = s => Held(x, o) /\ ~Held(x, o)'
      <4>1. s \in Slots /\ ~Target(s)' /\ own'[s] # o
        BY <1>2, <1>7, <1>1, <1>4, <1>8, <2>7 DEF Target, Busy, Apart
      <4> QED BY <1>9, <2>7, <4>1 DEF Held, Target
    <3>2. Holders(o)' = (Holders(o) \ {s}) \cup {d} /\ d \notin Holders(o) /\ s \in Holders(o)
      BY <1>0, <1>2, <1>3, <1>4, <2>1, <2>3, <2>4, <2>7, <3>1 DEF Holders, Slots, Typed
    <3>3. Cardinality(Holders(o)') = Cardinality(Holders(o))
      <4>1. IsFiniteSet(Holders(o)) /\ Cardinality(Holders(o)) \in Nat
        BY <1>0, HoldersFinite
      <4>2. IsFiniteSet(Holders(o) \ {s}) /\ Cardinality(Holders(o) \ {s}) = Cardinality(Holders(o)) - 1
        BY <3>2, <4>1, FS_RemoveElement
      <4>3. Cardinality((Holders(o) \ {s}) \cup {d}) = Cardinality(Holders(o) \ {s}) + 1
        BY <3>2, <4>2, FS_AddElement
      <4> QED BY <3>2, <4>1, <4>2, <4>3
    <3> QED BY <1>0, <1>4, <2>2, <2>7, <3>3 DEF Counted
  <2> QED BY <2>5, <2>6, <2>7
<1> QED BY <1>0, <1>4, <1>6, <1>8, <1>10, <1>11 DEF Inv

(* A reference is dropped. With the last one the object goes, and what its *)
(* member held is the next to drop.                                        *)
LEMMA DecrefKeeps == ASSUME Apart, Inv, bad = FALSE, NEW t \in Users, Decref(t) PROVE Inv'
<1>0. Typed /\ Counted /\ Orderly
  BY DEF Inv
<1>1. Busy(t) /\ op[t] \in Pending /\ InOrder(t)
  BY <1>0 DEF Decref, Busy, Typed, Orderly
<1>2. PICK o \in Objs : op[t].drop = <<o>>
  BY <1>1 DEF Pending, Drops, Decref
<1>3. PICK d \in Slots : op[t].dst = d /\ d \in Locals \cup alive
  BY <1>0, <1>1, GuardedIsAlive DEF InOrder, Pending
<1> DEFINE x == own[o]
           last == count[o] = 1
           rest == IF last /\ x # Nobody THEN <<x>> ELSE <<>>
<1>4. Held(d, o) /\ o \in alive /\ count[o] > 0
  <2>1. Held(d, o)
    BY <1>0, <1>1, <1>2, <1>3, HeldByTarget
  <2> QED BY <1>0, <1>3, <2>1, HeldIsAlive
<1>5. \A r \in (Locals \cup alive) \ {d} : Held(r, o) => ~last
  BY <1>0, <1>3, <1>4, HeldIsAlive
<1>6. o \in Slots /\ x \in Objs \cup {Nobody}
  BY <1>0 DEF Typed, Slots
<1>7. /\ bad' = FALSE /\ made' = made /\ inside' = inside
      /\ count' = [count EXCEPT ![o] = @ - 1]
      /\ alive' = IF last THEN alive \ {o} ELSE alive
      /\ own' = IF last THEN [own EXCEPT ![o] = Nobody] ELSE own
      /\ op' = [op EXCEPT ![t].drop = rest]
  <2>1. Head(<<o>>) = o /\ Tail(<<o>>) = <<>> /\ <<>> \o <<>> = <<>>
    OBVIOUS
  <2>2. <<x>> \o <<>> = <<x>>
    OBVIOUS
  <2>3. rest \o Tail(<<o>>) = rest
    BY <2>1, <2>2
  <2> QED BY <1>0, <1>2, <1>4, <2>1, <2>3 DEF Decref, Reach, LastRef, Typed
<1>8. /\ op'[t] = [op[t] EXCEPT !.drop = rest]
      /\ \A u \in Users \ {t} : op'[u] = op[u]
  BY <1>0, <1>7 DEF Typed
<1>9. /\ op'[t] \in Pending /\ op'[t].dst = d /\ op'[t].drop = rest
      /\ op'[t].src = op[t].src /\ op'[t].do = op[t].do
  <2>1. rest \in Drops
    BY <1>6 DEF Drops
  <2> QED BY <1>1, <1>3, <1>8, <2>1 DEF Pending
<1>10. /\ \A u \in Users : (Busy(u)' <=> Busy(u)) /\ op'[u].dst = op[u].dst
       /\ \A u \in Users : Using(u)' = Using(u)
  <2>1. \A u \in Users : (Busy(u)' <=> Busy(u)) /\ op'[u].dst = op[u].dst /\ op'[u].src = op[u].src
    BY <1>1, <1>3, <1>8, <1>9 DEF Busy, Pending, Idle
  <2> QED BY <2>1 DEF Using, Busy
<1>11. \A r : Target(r)' <=> Target(r)
  BY <1>10 DEF Target
<1>12. Typed'
  <2>1. count' \in [Objs -> Nat]
    BY <1>0, <1>4, <1>7 DEF Typed
  <2>2. op' \in [Users -> {Idle} \cup Pending]
    BY <1>0, <1>7, <1>8, <1>9 DEF Typed
  <2> QED BY <1>0, <1>7, <2>1, <2>2 DEF Typed
<1>13. \A r \in Locals : own'[r] = own[r]
  BY <1>0, <1>7 DEF Typed, Apart, Slots
<1>14. Orderly'
  <2> SUFFICES ASSUME NEW u \in Users, Busy(u)' PROVE InOrder(u)'
    BY DEF Orderly
  <2>1. /\ Busy(u) /\ InOrder(u) /\ op'[u].dst = op[u].dst /\ op'[u].src = op[u].src
        /\ op'[u].do = op[u].do
    BY <1>0, <1>8, <1>9, <1>10 DEF Orderly
  <2>2. \A r : Guarded(u, r) => Guarded(u, r)'
    BY <1>11, <1>13 DEF Guarded, Locals
  <2> QED BY <1>7, <1>10, <1>13, <2>1, <2>2 DEF InOrder
<1>15. last => ~Target(o) /\ d # o /\ x # o
  <2>1. last => ~Target(o)
    <3> SUFFICES ASSUME last, NEW u \in Users, Busy(u), op[u].dst = o PROVE FALSE
      BY DEF Target
    <3>1. Guarded(u, o)
      BY <1>0 DEF Orderly, InOrder
    <3>2. PICK i \in {1, 2} : own[<<u, i>>] = o /\ ~Target(<<u, i>>)
      BY <3>1 DEF Guarded, Apart
    <3>3. Held(<<u, i>>, o) /\ <<u, i>> \in Locals /\ <<u, i>> # d
      BY <1>1, <1>3, <3>2, HeldByOther DEF Locals, Target
    <3> QED BY <1>5, <3>3
  <2>2. Target(d)
    BY <1>1, <1>3 DEF Target
  <2>3. last => d # o
    BY <2>1, <2>2
  <2> QED BY <1>4, <1>5, <1>6, <2>1, <2>3, HeldByOther
<1>16. \A r \in Slots, p \in Objs : r # d /\ (last => r # o) => (Held(r, p)' <=> Held(r, p))
  <2> SUFFICES ASSUME NEW r \in Slots, NEW p \in Objs, r # d, last => r # o
               PROVE  Held(r, p)' <=> Held(r, p)
    OBVIOUS
  <2>1. own'[r] = own[r]
    BY <1>0, <1>7 DEF Typed
  <2> QED BY <1>3, <1>8, <1>9, <1>10, <1>11, <2>1 DEF Held
<1>17. \A r \in Slots, p \in Objs :
          r = d => (Held(r, p) <=> p = o) /\ (Held(r, p)' <=> last /\ p = x)
  <2> SUFFICES ASSUME NEW p \in Objs PROVE (Held(d, p) <=> p = o) /\ (Held(d, p)' <=> last /\ p = x)
    OBVIOUS
  <2>1. Held(d, p) <=> p = o
    <3>1. <<o>> = <<p>> <=> p = o
      OBVIOUS
    <3> QED BY <1>0, <1>1, <1>2, <1>3, <3>1, HeldByTarget
  <2>2. \A u \in Users : Busy(u) /\ op[u].dst = d => u = t
    BY <1>0, <1>1, <1>3 DEF Orderly, InOrder, Using, Busy
  <2>3. Held(d, p)' <=> rest = <<p>>
    BY <1>1, <1>3, <1>9, <1>10, <1>11, <2>2 DEF Held, Target
  <2>4. rest = <<p>> <=> last /\ p = x
    BY <1>6 DEF Apart
  <2> QED BY <2>1, <2>3, <2>4
<1>18. Counted'
  <2> SUFFICES ASSUME NEW p \in Objs
               PROVE  /\ count'[p] = Cardinality(Holders(p)') /\ (p \in alive' <=> count'[p] > 0)
                      /\ p \notin alive' => own'[p] = Nobody
    BY DEF Counted
  <2>1. p \notin alive' => own'[p] = Nobody
    BY <1>0, <1>6, <1>7 DEF Counted, Typed, Slots
  <2>a. \A r \in Slots \ {d} : (last => r # o) => (Held(r, p)' <=> Held(r, p))
    BY <1>16
  <2>b. \A r \in Slots : r = d => (Held(r, p) <=> p = o) /\ (Held(r, p)' <=> last /\ p = x)
    BY <1>17
  <2>2. CASE p = o
    <3>1. Holders(p)' = Holders(p) \ {d} /\ d \in Holders(p)
      BY <1>0, <1>3, <1>5, <1>7, <1>15, <2>a, <2>b, <2>2 DEF Holders, Slots, Typed, Apart
    <3>2. Cardinality(Holders(p)') = Cardinality(Holders(p)) - 1
      BY <1>0, <3>1, HoldersFinite, FS_RemoveElement
    <3>3. count'[p] = count[p] - 1 /\ count[p] \in Nat
      BY <1>0, <1>7, <2>2 DEF Typed
    <3> QED BY <1>0, <1>4, <1>7, <2>1, <2>2, <3>2, <3>3 DEF Counted
  <2>3. CASE p # o /\ ~(last /\ p = x)
    <3>1. last => \A r \in Slots : r = o => ~Held(r, p)
      BY <1>6, <1>15, <2>3, HeldByOther
    <3>2. Holders(p)' = Holders(p)
      BY <1>0, <1>3, <1>7, <2>a, <2>b, <2>3, <3>1 DEF Holders, Slots, Typed, Apart
    <3> QED BY <1>0, <1>7, <2>1, <2>3, <3>2 DEF Counted, Typed
  <2>4. CASE p # o /\ last /\ p = x
    <3>1. \A r \in Slots : r = o => Held(r, p)
      BY <1>6, <1>15, <2>4, HeldByOther
    <3>2. Holders(p)' = (Holders(p) \ {o}) \cup {d} /\ o \in Holders(p) /\ d \notin Holders(p)
      BY <1>0, <1>3, <1>4, <1>6, <1>7, <1>15, <2>a, <2>b, <2>4, <3>1 DEF Holders, Slots, Typed, Apart
    <3>3. IsFiniteSet(Holders(p)) /\ Cardinality(Holders(p)) \in Nat
      BY <1>0, HoldersFinite
    <3>4. /\ IsFiniteSet(Holders(p) \ {o})
          /\ Cardinality(Holders(p) \ {o}) = Cardinality(Holders(p)) - 1
      BY <3>2, <3>3, FS_RemoveElement
    <3>5. Cardinality((Holders(p) \ {o}) \cup {d}) = Cardinality(Holders(p) \ {o}) + 1
      BY <3>2, <3>4, FS_AddElement
    <3>6. Cardinality(Holders(p)') = Cardinality(Holders(p))
      BY <3>2, <3>3, <3>4, <3>5
    <3> QED BY <1>0, <1>7, <2>1, <2>4, <3>6 DEF Counted, Typed
  <2> QED BY <2>2, <2>3, <2>4
<1> QED BY <1>7, <1>12, <1>14, <1>18 DEF Inv

LEMMA StepKeeps == ASSUME Apart, Inv, [NextPtr]_ptrVars PROVE Inv'
<1>0. Typed /\ (~bad => Counted /\ Orderly)
  BY DEF Inv
<1>1. CASE UNCHANGED ptrVars
  <2>1. \A x, o : Held(x, o)' <=> Held(x, o)
    BY <1>1 DEF ptrVars, Held, Target, Busy
  <2>2. \A o : Holders(o)' = Holders(o)
    BY <1>1, <2>1 DEF ptrVars, Holders
  <2>3. Counted => Counted'
    BY <1>1, <2>2 DEF ptrVars, Counted
  <2>4. Orderly => Orderly'
    <3>1. \A t : (Busy(t)' <=> Busy(t)) /\ Using(t)' = Using(t) /\ (Target(t)' <=> Target(t))
      BY <1>1 DEF ptrVars, Using, Target, Busy
    <3>2. \A t, s : Guarded(t, s)' <=> Guarded(t, s)
      BY <1>1 DEF ptrVars, Guarded, Target, Busy
    <3>3. \A t \in Users : InOrder(t) => InOrder(t)'
      BY <1>1, <3>1, <3>2 DEF ptrVars, InOrder
    <3> QED BY <3>1, <3>3 DEF Orderly
  <2>5. Typed'
    BY <1>0, <1>1 DEF ptrVars, Typed
  <2> QED BY <1>1, <2>3, <2>4, <2>5 DEF ptrVars, Inv
<1>2. ASSUME NextPtr PROVE Inv'
  <2>0. bad = FALSE
    BY <1>0, <1>2 DEF NextPtr, Typed
  <2>1. \A t \in Users : Names(t) \subseteq Slots
    BY <1>0 DEF Names, Typed, Slots, Locals
  <2>2. ASSUME NEW t \in Users, Assign(t) PROVE Inv'
    <3>1. PICK d \in Names(t), s \in Names(t), how \in {"copy", "move"} :
             d # s /\ Start(t, d, s, how) /\ inside' = (inside \/ own[d] = s)
      BY <2>2 DEF Assign, Different
    <3> QED BY <2>0, <2>1, <3>1, StartKeeps
  <2>3. ASSUME NEW t \in Users, Reset(t) PROVE Inv'
    <3>1. PICK d \in Names(t), how \in {"new", "clear"} : Start(t, d, d, how) /\ UNCHANGED inside
      BY <2>3 DEF Reset
    <3> QED BY <2>0, <2>1, <3>1, StartKeeps
  <2>4. ASSUME NEW t \in Users, Give(t) PROVE Inv'
    <3>1. PICK u \in Users \ {t}, s \in Names(t) :
             own[<<u, 1>>] = Nobody /\ Start(t, <<u, 1>>, s, "copy") /\ UNCHANGED inside
      BY <2>4 DEF Give
    <3>2. <<u, 1>> \in Slots /\ <<u, 1>> \in Locals /\ s \in Slots /\ Nobody # s
      BY <1>0, <2>1, <3>1 DEF Slots, Locals, Names, Typed, Apart
    <3>3. <<u, 1>> # s
      BY <1>0 DEF Names, Locals, Slots, Typed, Apart
    <3> QED BY <2>0, <3>1, <3>2, <3>3, StartKeeps
  <2> QED BY <1>2, <2>0, <2>2, <2>3, <2>4, DecrefKeeps, TakeKeeps, MakeKeeps, ClearKeeps DEF NextPtr
<1> QED BY <1>1, <1>2

-----------------------------------------------------------------------------

\* However threads assign, move, copy and reset their shared_ptrs, no object is
\* used after its last reference has gone, but by p = p->next; and whenever no
\* operation is in progress every count is the number of owners.
THEOREM OwnersStaySound == ASSUME Apart PROVE SpecPtr => []OwnersSound
<1>1. InitPtr => Inv
  <2> SUFFICES ASSUME InitPtr PROVE Inv
    OBVIOUS
  <2>1. Typed
    BY DEF InitPtr, Typed
  <2>2. \A s \in Locals, o \in Objs : ~Held(s, o)
    BY DEF InitPtr, Held, Busy, Slots, Apart
  <2>3. \A o \in Objs : Holders(o) = {}
    BY <2>2 DEF InitPtr, Holders
  <2>4. Counted
    BY <2>3, FS_EmptySet DEF InitPtr, Counted, Slots
  <2>5. Orderly
    BY DEF InitPtr, Orderly, Busy
  <2> QED BY <2>1, <2>4, <2>5 DEF InitPtr, Inv
<1>2. Inv /\ [NextPtr]_ptrVars => Inv'
  BY StepKeeps
<1>3. Inv => OwnersSound
  <2> SUFFICES ASSUME Inv PROVE OwnersSound
    OBVIOUS
  <2>1. NoUseAfterDelete
    BY DEF Inv, NoUseAfterDelete
  <2>2. ASSUME ~bad, \A t \in Users : op[t] = Idle, NEW o \in Objs
        PROVE  /\ count[o] = Cardinality({s \in Locals \cup alive : own[s] = o})
               /\ o \in alive <=> count[o] > 0
    <3>1. Holders(o) = {s \in Locals \cup alive : own[s] = o}
      BY <2>2 DEF Holders, Held, Target, Busy
    <3> QED BY <2>2, <3>1 DEF Inv, Counted
  <2> QED BY <2>1, <2>2 DEF OwnersSound, CountExact
<1> QED BY <1>1, <1>2, <1>3, PTL DEF SpecPtr

-----------------------------------------------------------------------------

(* The ways to own, one thread.                                            *)
Ways    == {"new", "array", "unique", "fused", "nothing"}
Fates   == {"alive", "gone", "wrong", "leaked"}
BlockSet   == [how : Ways, del : {"delete", "delete[]", "deleter", "destructor"}, count : Nat, life : Fates]
Pointer == [own : Nat, at : Nat]
Ref(o, k) == IF o = k THEN 1 ELSE 0

(* What became of a block, c of whose references there are.                *)
Fate(b, c) ==
    /\ b.count = c
    /\ b.del = Deleter(b.how)
    /\ b.life = "alive" <=> c > 0
    /\ b.life = "wrong" => b.how = "array"
    /\ b.life = "gone" => b.how # "array"
    /\ b.life = "leaked" => b.how # "fused"

Reaches(p, n) == p \in Pointer /\ p.own <= n /\ p.at <= n
Made(s) ==
    /\ s = [ptr |-> s.ptr, blocks |-> s.blocks]
    /\ s.blocks \in Seq(BlockSet)
    /\ s.ptr = [i \in {1, 2} |-> s.ptr[i]]
    /\ \A i \in {1, 2} : Reaches(s.ptr[i], Len(s.blocks))

(* The references that are counted are those to a, b and h: what the two   *)
(* pointers own when no call is in progress, and what a call has in hand.  *)
Counts(s, a, b, h) ==
    \A k \in 1 .. Len(s.blocks) : Fate(s.blocks[k], Ref(a, k) + Ref(b, k) + Ref(h, k))
Owed(s, a, b, h) == Made(s) /\ {a, b, h} \subseteq 0 .. Len(s.blocks) /\ Counts(s, a, b, h)
Settled(s) == Owed(s, s.ptr[1].own, s.ptr[2].own, 0)

LEMMA OwedAnyOrder ==
    ASSUME NEW s, NEW a, NEW b, NEW h, Owed(s, a, b, h)
    PROVE  Owed(s, b, a, h) /\ Owed(s, a, h, b) /\ Owed(s, h, b, a)
<1>1. \A k : /\ Ref(a, k) + Ref(b, k) + Ref(h, k) = Ref(b, k) + Ref(a, k) + Ref(h, k)
             /\ Ref(a, k) + Ref(b, k) + Ref(h, k) = Ref(a, k) + Ref(h, k) + Ref(b, k)
             /\ Ref(a, k) + Ref(b, k) + Ref(h, k) = Ref(h, k) + Ref(b, k) + Ref(a, k)
  BY DEF Ref
<1>2. Counts(s, b, a, h) /\ Counts(s, a, h, b) /\ Counts(s, h, b, a)
  BY <1>1 DEF Owed, Counts
<1> QED BY <1>2 DEF Owed

(* A pointer is set: the blocks are what they were.                        *)
LEMMA PointOwed ==
    ASSUME NEW s, NEW a, NEW b, NEW h, Owed(s, a, b, h), NEW i \in {1, 2}, NEW p, Reaches(p, Len(s.blocks))
    PROVE  /\ Owed(Point(s, i, p), a, b, h)
           /\ Point(s, i, p).blocks = s.blocks
           /\ \A j \in {1, 2} : Point(s, i, p).ptr[j] = IF j = i THEN p ELSE s.ptr[j]
<1> DEFINE e == Point(s, i, p)
<1>0. Made(s) /\ {a, b, h} \subseteq 0 .. Len(s.blocks) /\ Counts(s, a, b, h)
  BY DEF Owed
<1>1. e.blocks = s.blocks /\ e = [ptr |-> e.ptr, blocks |-> e.blocks] /\ e.ptr = [s.ptr EXCEPT ![i] = p]
  BY <1>0, SMTT(30) DEF Made, Point
<1> HIDE DEF e
<1>2. e.ptr = [j \in {1, 2} |-> e.ptr[j]] /\ \A j \in {1, 2} : e.ptr[j] = IF j = i THEN p ELSE s.ptr[j]
  BY <1>0, <1>1 DEF Made
<1>3. \A j \in {1, 2} : Reaches(e.ptr[j], Len(e.blocks))
  BY <1>0, <1>1, <1>2 DEF Made
<1>4. Made(e)
  BY <1>0, <1>1, <1>2, <1>3 DEF Made
<1>5. Counts(e, a, b, h)
  BY <1>0, <1>1 DEF Counts
<1> QED BY <1>0, <1>1, <1>2, <1>4, <1>5 DEF Owed, e

(* The block k becomes b.                                                  *)
With(s, k, b) == [s EXCEPT !.blocks = [@ EXCEPT ![k] = b]]
LEMMA WithIs ==
    ASSUME NEW s, Made(s), NEW k \in 1 .. Len(s.blocks), NEW b \in BlockSet
    PROVE  /\ Made(With(s, k, b)) /\ With(s, k, b).ptr = s.ptr
           /\ Len(With(s, k, b).blocks) = Len(s.blocks)
           /\ \A m \in 1 .. Len(s.blocks) : With(s, k, b).blocks[m] = IF m = k THEN b ELSE s.blocks[m]
<1> DEFINE e == With(s, k, b)
<1>1. e.ptr = s.ptr /\ e = [ptr |-> e.ptr, blocks |-> e.blocks]
  BY DEF Made, With
<1>2. e.blocks = [s.blocks EXCEPT ![k] = b]
  BY DEF Made, With
<1> HIDE DEF e
<1>3. e.blocks \in Seq(BlockSet) /\ Len(e.blocks) = Len(s.blocks)
      /\ \A m \in 1 .. Len(s.blocks) : e.blocks[m] = IF m = k THEN b ELSE s.blocks[m]
  BY <1>2, ExceptSeq DEF Made
<1>4. Made(e)
  BY <1>1, <1>3 DEF Made
<1> QED BY <1>1, <1>3, <1>4 DEF e

LEMMA IncrefOwed ==
    ASSUME NEW s, NEW a, NEW b, Owed(s, a, b, 0),
           NEW k \in 0 .. Len(s.blocks), k # 0 => s.blocks[k].life = "alive"
    PROVE  /\ Owed(IncrefBlock(s, k), a, b, k) /\ IncrefBlock(s, k).ptr = s.ptr
           /\ Len(IncrefBlock(s, k).blocks) = Len(s.blocks)
<1>1. CASE k = 0
  BY <1>1 DEF IncrefBlock, None
<1>2. CASE k # 0
  <2> DEFINE u == s.blocks[k]
             n == [u EXCEPT !.count = @ + 1]
             e == With(s, k, n)
  <2>1. k \in 1 .. Len(s.blocks) /\ u \in BlockSet /\ Made(s)
    BY <1>2 DEF Owed, Made
  <2>2. IncrefBlock(s, k) = e
    BY <1>2 DEF IncrefBlock, None, With
  <2>3. n \in BlockSet /\ n.how = u.how /\ n.del = u.del /\ n.life = u.life /\ n.count = u.count + 1
    <3> HIDE DEF u
    <3> QED BY <2>1 DEF BlockSet
  <2> HIDE DEF n, e
  <2>4. /\ Made(e) /\ e.ptr = s.ptr /\ Len(e.blocks) = Len(s.blocks)
        /\ \A m \in 1 .. Len(s.blocks) : e.blocks[m] = IF m = k THEN n ELSE s.blocks[m]
    BY <2>1, <2>3, WithIs DEF e
  <2>5. ASSUME NEW m \in 1 .. Len(s.blocks)
        PROVE  Fate(e.blocks[m], Ref(a, m) + Ref(b, m) + Ref(k, m))
    <3> DEFINE c == Ref(a, m) + Ref(b, m)
    <3>1. Fate(s.blocks[m], c + Ref(0, m)) /\ Ref(0, m) = 0 /\ c \in Nat
      BY DEF Owed, Counts, Ref
    <3>2. Fate(s.blocks[m], c)
      BY <3>1
    <3> HIDE DEF c
    <3>3. CASE m = k
      <4>1. Ref(k, m) = 1 /\ e.blocks[m] = n /\ Fate(u, c) /\ u.life = "alive"
        BY <1>2, <2>4, <3>2, <3>3 DEF Ref
      <4>2. Fate(n, c + 1)
        BY <2>3, <3>1, <4>1 DEF Fate
      <4> QED BY <4>1, <4>2 DEF c
    <3>4. CASE m # k
      <4>1. Ref(k, m) = 0 /\ e.blocks[m] = s.blocks[m] /\ c + 0 = c
        BY <2>4, <3>1, <3>4 DEF Ref
      <4> QED BY <3>2, <4>1 DEF c
    <3> QED BY <3>3, <3>4
  <2>6. Owed(e, a, b, k)
    BY <2>4, <2>5 DEF Owed, Counts
  <2> QED BY <2>2, <2>4, <2>6
<1> QED BY <1>1, <1>2

LEMMA DecrefOwed ==
    ASSUME NEW s, NEW a, NEW b, NEW k, Owed(s, a, b, k)
    PROVE  /\ Owed(DecrefBlock(s, k), a, b, 0) /\ DecrefBlock(s, k).ptr = s.ptr
           /\ Len(DecrefBlock(s, k).blocks) = Len(s.blocks)
<1>1. CASE k = 0
  BY <1>1 DEF DecrefBlock, None
<1>2. CASE k # 0
  <2> DEFINE c == Ref(a, k) + Ref(b, k)
             u == s.blocks[k]
             l == IF u.del = Right[u.how] THEN "gone" ELSE "wrong"
             n == IF u.count > 1 THEN [u EXCEPT !.count = @ - 1] ELSE [u EXCEPT !.count = 0, !.life = l]
             e == With(s, k, n)
  <2>1. k \in 1 .. Len(s.blocks) /\ Made(s)
    BY <1>2 DEF Owed
  <2>2. u \in BlockSet
    BY <2>1 DEF Made
  <2>3. DecrefBlock(s, k) = e
    BY <1>2 DEF DecrefBlock, None, With
  <2>4. Fate(u, c + 1) /\ c \in Nat
    <3>1. Ref(k, k) = 1 /\ c \in Nat
      BY DEF Ref
    <3> QED BY <2>1, <3>1 DEF Owed, Counts
  <2>5. u.count = c + 1 /\ u.life = "alive" /\ u.del = Deleter(u.how) /\ u.how \in Ways
    <3> HIDE DEF c, u
    <3> QED BY <2>2, <2>4 DEF Fate, BlockSet
  <2>6. l \in {"gone", "wrong"} /\ (l = "wrong" <=> u.how = "array")
    <3> HIDE DEF u
    <3> QED BY <2>5 DEF Deleter, Right, Ways
  <2> HIDE DEF l
  <2>7. /\ n \in BlockSet /\ n.how = u.how /\ n.del = u.del /\ n.count = c
        /\ n.life = IF c > 0 THEN u.life ELSE l
    <3> HIDE DEF c, u
    <3>1. CASE c > 0
      <4>1. n = [u EXCEPT !.count = c]
        BY <2>4, <2>5, <3>1
      <4> HIDE DEF n
      <4> QED BY <2>2, <2>4, <3>1, <4>1 DEF BlockSet
    <3>2. CASE c = 0
      <4>1. n = [u EXCEPT !.count = 0, !.life = l]
        BY <2>5, <3>2
      <4> HIDE DEF n
      <4>2. n.how = u.how /\ n.del = u.del /\ n.count = 0 /\ n.life = l
        BY <2>2, <4>1 DEF BlockSet
      <4>3. n \in BlockSet
        BY <2>2, <2>6, <4>1 DEF BlockSet, Fates
      <4> QED BY <3>2, <4>2, <4>3
    <3> QED BY <2>4, <3>1, <3>2
  <2> HIDE DEF n, e
  <2>8. Fate(n, c)
    <3> HIDE DEF c, u
    <3> QED BY <2>4, <2>5, <2>6, <2>7 DEF Fate
  <2>9. /\ Made(e) /\ e.ptr = s.ptr /\ Len(e.blocks) = Len(s.blocks)
        /\ \A m \in 1 .. Len(s.blocks) : e.blocks[m] = IF m = k THEN n ELSE s.blocks[m]
    BY <2>1, <2>7, WithIs DEF e
  <2>10. ASSUME NEW m \in 1 .. Len(s.blocks)
         PROVE  Fate(e.blocks[m], Ref(a, m) + Ref(b, m) + Ref(0, m))
    <3>1. Ref(0, m) = 0 /\ \A x \in Nat : x + 0 = x
      BY DEF Ref
    <3>2. CASE m = k
      BY <2>4, <2>8, <2>9, <3>1, <3>2
    <3>3. CASE m # k
      <4>1. Ref(k, m) = 0 /\ e.blocks[m] = s.blocks[m]
        BY <2>9, <3>3 DEF Ref
      <4> QED BY <3>1, <4>1 DEF Owed, Counts
    <3> QED BY <3>2, <3>3
  <2>11. Owed(e, a, b, 0)
    BY <2>9, <2>10 DEF Owed, Counts
  <2> QED BY <2>3, <2>9, <2>11
<1> QED BY <1>1, <1>2

(* A new block has no other references than the one of its pointer; when  *)
(* there is no memory, it is lost and has none.                            *)
LEMMA AppendOwed ==
    ASSUME NEW s, NEW b, Owed(s, 0, b, 0), NEW n \in BlockSet,
           NEW a \in {0, Len(s.blocks) + 1}, Fate(n, IF a = 0 THEN 0 ELSE 1)
    PROVE  /\ Owed([s EXCEPT !.blocks = Append(@, n)], a, b, 0)
           /\ Len([s EXCEPT !.blocks = Append(@, n)].blocks) = Len(s.blocks) + 1
           /\ [s EXCEPT !.blocks = Append(@, n)].ptr = s.ptr
<1> DEFINE e == [s EXCEPT !.blocks = Append(@, n)]
           l == Len(s.blocks)
<1>0. Made(s) /\ {0, b} \subseteq 0 .. l /\ Counts(s, 0, b, 0) /\ s.blocks \in Seq(BlockSet) /\ l \in Nat
  BY LenProperties DEF Owed, Made
<1>a. s = [ptr |-> s.ptr, blocks |-> s.blocks]
  BY <1>0 DEF Made
<1>b. e = [ptr |-> s.ptr, blocks |-> Append(s.blocks, n)]
  BY <1>a, SMTT(30)
<1> HIDE DEF e
<1>1. e.ptr = s.ptr /\ e = [ptr |-> e.ptr, blocks |-> e.blocks] /\ e.blocks = Append(s.blocks, n)
  BY <1>b
<1>2. e.blocks \in Seq(BlockSet) /\ Len(e.blocks) = l + 1 /\ e.blocks[l + 1] = n
      /\ \A m \in 1 .. l : e.blocks[m] = s.blocks[m]
  BY <1>0, <1>1, AppendProperties
<1>3. \A i \in {1, 2} : Reaches(s.ptr[i], l)
  BY <1>0 DEF Made
<1>4. \A i \in {1, 2} : Reaches(e.ptr[i], Len(e.blocks))
  BY <1>0, <1>1, <1>2, <1>3, SMTT(30) DEF Reaches, Pointer
<1>5. Made(e)
  <2>1. s.ptr = [i \in {1, 2} |-> s.ptr[i]]
    BY <1>0 DEF Made
  <2> QED BY <1>1, <1>2, <1>4, <2>1 DEF Made
<1> HIDE DEF l
<1>6. ASSUME NEW m \in 1 .. Len(e.blocks)
      PROVE  Fate(e.blocks[m], Ref(a, m) + Ref(b, m) + Ref(0, m))
  <2>1. Ref(0, m) = 0 /\ Ref(b, m) \in Nat
    BY DEF Ref
  <2>2. CASE m = l + 1
    <3>1. Ref(b, m) = 0 /\ Ref(a, m) = IF a = 0 THEN 0 ELSE 1
      BY <1>0, <2>2 DEF Ref, l
    <3>2. Ref(a, m) + Ref(b, m) + Ref(0, m) = IF a = 0 THEN 0 ELSE 1
      BY <2>1, <3>1
    <3> QED BY <1>2, <2>2, <3>2
  <2>3. CASE m # l + 1
    <3>1. m \in 1 .. l /\ Ref(a, m) = 0
      BY <1>0, <1>2, <2>3 DEF Ref, l
    <3>2. Fate(s.blocks[m], Ref(0, m) + Ref(b, m) + Ref(0, m))
      BY <1>0, <3>1 DEF Counts, l
    <3> QED BY <1>2, <2>1, <3>1, <3>2
  <2> QED BY <2>2, <2>3
<1>7. Owed(e, a, b, 0)
  BY <1>0, <1>2, <1>5, <1>6 DEF Owed, Counts, l
<1> QED BY <1>1, <1>2, <1>7 DEF e, l

-----------------------------------------------------------------------------

(* What a call finds and leaves, told by its own pointer and the other.    *)
LEMMA SettledIs ==
    ASSUME NEW s, NEW i \in {1, 2}
    PROVE  Settled(s) <=> Owed(s, s.ptr[i].own, s.ptr[3 - i].own, 0)
<1>1. (i = 1 /\ 3 - i = 2) \/ (i = 2 /\ 3 - i = 1)
  <2>1. 3 - 1 = 2 /\ 3 - 2 = 1
    OBVIOUS
  <2> QED BY <2>1
<1> QED BY <1>1, OwedAnyOrder DEF Settled

LEMMA SetPointer ==
    ASSUME NEW s, NEW i \in {1, 2}, NEW p, Reaches(p, Len(s.blocks)), Owed(s, p.own, s.ptr[3 - i].own, 0)
    PROVE  /\ Settled(Point(s, i, p)) /\ Point(s, i, p).blocks = s.blocks
           /\ Point(s, i, p).ptr[i] = p /\ Point(s, i, p).ptr[3 - i] = s.ptr[3 - i]
<1>1. 3 - i \in {1, 2} /\ 3 - i # i
  OBVIOUS
<1>2. /\ Owed(Point(s, i, p), p.own, s.ptr[3 - i].own, 0)
      /\ Point(s, i, p).blocks = s.blocks
      /\ \A j \in {1, 2} : Point(s, i, p).ptr[j] = IF j = i THEN p ELSE s.ptr[j]
  BY PointOwed
<1> QED BY <1>1, <1>2, SettledIs

LEMMA LetGo ==
    ASSUME NEW s, Settled(s), NEW i \in {1, 2}
    PROVE  LET r == DecrefBlock(s, s.ptr[i].own)
           IN  /\ Owed(r, 0, s.ptr[3 - i].own, 0) /\ r.ptr = s.ptr /\ Len(r.blocks) = Len(s.blocks)
               /\ \A j \in {1, 2} : Reaches(s.ptr[j], Len(s.blocks))
<1>1. Owed(s, s.ptr[i].own, s.ptr[3 - i].own, 0)
  BY SettledIs
<1>2. Owed(s, 0, s.ptr[3 - i].own, s.ptr[i].own)
  BY <1>1, OwedAnyOrder
<1>3. \A j \in {1, 2} : Reaches(s.ptr[j], Len(s.blocks))
  BY <1>1 DEF Owed, Made
<1> QED BY <1>2, <1>3, DecrefOwed

LEMMA NullReaches == ASSUME NEW n \in Nat PROVE Reaches(Null, n) /\ Null.own = 0
BY DEF Reaches, Pointer, Null, None

LEMMA ResetSettles ==
    ASSUME NEW s, Settled(s), NEW i \in {1, 2}
    PROVE  LET r == ResetPtr(s, i)
           IN  /\ Settled(r) /\ Owed(r, 0, s.ptr[3 - i].own, 0) /\ Len(r.blocks) = Len(s.blocks)
               /\ r.ptr[i] = Null /\ r.ptr[3 - i] = s.ptr[3 - i]
               /\ Reaches(s.ptr[3 - i], Len(r.blocks)) /\ Reaches(s.ptr[i], Len(r.blocks))
<1> DEFINE d == DecrefBlock(s, s.ptr[i].own)
           r == Point(d, i, Null)
<1>0. 3 - i \in {1, 2}
  OBVIOUS
<1>1. /\ Owed(d, 0, s.ptr[3 - i].own, 0) /\ d.ptr = s.ptr /\ Len(d.blocks) = Len(s.blocks)
      /\ \A j \in {1, 2} : Reaches(s.ptr[j], Len(s.blocks))
  BY LetGo
<1> HIDE DEF d
<1>2. Len(d.blocks) \in Nat
  BY <1>1, LenProperties DEF Owed, Made
<1>3. Reaches(Null, Len(d.blocks)) /\ Null.own = 0
  BY <1>2, NullReaches
<1>4. /\ Settled(r) /\ r.blocks = d.blocks /\ r.ptr[i] = Null /\ r.ptr[3 - i] = d.ptr[3 - i]
  BY <1>1, <1>3, SetPointer
<1>5. Owed(r, 0, s.ptr[3 - i].own, 0)
  BY <1>1, <1>3, <1>4, SettledIs
<1> QED BY <1>0, <1>1, <1>4, <1>5 DEF ResetPtr, d

LEMMA NewBlock ==
    ASSUME NEW how \in Ways
    PROVE  /\ Block(how, 1, "alive") \in BlockSet /\ Fate(Block(how, 1, "alive"), 1)
           /\ Block(how, 0, "leaked") \in BlockSet
           /\ how # "fused" => Fate(Block(how, 0, "leaked"), 0)
<1>1. Deleter(how) \in {"delete", "delete[]", "deleter", "destructor"}
  BY DEF Deleter, Right, Ways
<1> QED BY <1>1 DEF Block, BlockSet, Fates, Fate

(* A pointer that owns nothing becomes the first owner of a new object.    *)
LEMMA OwnedSettles ==
    ASSUME NEW s, NEW i \in {1, 2}, Owed(s, 0, s.ptr[3 - i].own, 0),
           NEW how \in Ways, NEW at \in 0 .. Len(s.blocks) + 1
    PROVE  Settled(Owned(s, i, how, at))
<1> DEFINE n == Block(how, 1, "alive")
           a == Len(s.blocks) + 1
           e == [s EXCEPT !.blocks = Append(@, n)]
           p == [own |-> a, at |-> at]
<1>1. a \in Nat /\ a # 0 /\ Len(s.blocks) \in Nat
  BY LenProperties DEF Owed, Made
<1>2. Owned(s, i, how, at) = Point(e, i, p)
  BY DEF Owned, Next1
<1>3. n \in BlockSet /\ Fate(n, IF a = 0 THEN 0 ELSE 1)
  BY <1>1, NewBlock
<1> HIDE DEF n
<1>4. Owed(e, a, s.ptr[3 - i].own, 0) /\ Len(e.blocks) = a /\ e.ptr = s.ptr
  BY <1>1, <1>3, AppendOwed
<1>5. Reaches(p, a) /\ p.own = a
  BY <1>1 DEF Reaches, Pointer
<1> HIDE DEF e, p
<1> QED BY <1>2, <1>4, <1>5, SetPointer

(* The object is made, but there is no memory for its control block.       *)
LEMMA LostSettles ==
    ASSUME NEW s, NEW i \in {1, 2}, Owed(s, 0, s.ptr[3 - i].own, 0), s.ptr[i].own = 0,
           NEW how \in Ways \ {"fused"}
    PROVE  /\ Settled(Lost(s, how)) /\ Lost(s, how).ptr = s.ptr
           /\ Owed(Lost(s, how), 0, s.ptr[3 - i].own, 0)
           /\ Len(Lost(s, how).blocks) = Len(s.blocks) + 1
<1>1. Block(how, 0, "leaked") \in BlockSet /\ Fate(Block(how, 0, "leaked"), IF 0 = 0 THEN 0 ELSE 1)
  BY NewBlock
<1> DEFINE e == Lost(s, how)
<1>2. Owed(e, 0, s.ptr[3 - i].own, 0) /\ Len(e.blocks) = Len(s.blocks) + 1 /\ e.ptr = s.ptr
  BY <1>1, AppendOwed DEF Lost
<1> HIDE DEF e
<1>3. Settled(e)
  BY <1>2, SettledIs
<1> QED BY <1>2, <1>3 DEF e

(* An owner that a pointer has is alive.                                   *)
LEMMA OwnersLive ==
    ASSUME NEW s, NEW a, NEW b, NEW h, Owed(s, a, b, h)
    PROVE  b \in 0 .. Len(s.blocks) /\ (b # 0 => b \in 1 .. Len(s.blocks) /\ s.blocks[b].life = "alive")
<1> SUFFICES ASSUME b # 0 PROVE s.blocks[b].life = "alive" /\ b \in 1 .. Len(s.blocks)
  BY DEF Owed
<1>1. b \in 1 .. Len(s.blocks)
  BY DEF Owed
<1>2. Fate(s.blocks[b], Ref(a, b) + Ref(b, b) + Ref(h, b)) /\ Ref(a, b) + Ref(b, b) + Ref(h, b) > 0
  BY <1>1 DEF Owed, Counts, Ref
<1> QED BY <1>1, <1>2 DEF Fate

(* The owner of the other pointer gets one more.                           *)
LEMMA ShareSettles ==
    ASSUME NEW s, NEW i \in {1, 2}, NEW o, Owed(s, 0, o, 0), o = s.ptr[3 - i].own,
           NEW at \in 0 .. Len(s.blocks)
    PROVE  Settled(Point(IncrefBlock(s, o), i, [own |-> o, at |-> at]))
<1> DEFINE c == IncrefBlock(s, o)
           p == [own |-> o, at |-> at]
<1>1. Owed(c, 0, o, o) /\ c.ptr = s.ptr /\ Len(c.blocks) = Len(s.blocks)
  BY OwnersLive, IncrefOwed
<1>2. Owed(c, o, s.ptr[3 - i].own, 0) /\ o \in 0 .. Len(s.blocks) /\ Len(s.blocks) \in Nat
  <2> HIDE DEF c
  <2>1. Owed(c, o, o, 0)
    BY <1>1, OwedAnyOrder
  <2>2. o \in 0 .. Len(s.blocks)
    BY OwnersLive
  <2>3. Len(s.blocks) \in Nat
    BY LenProperties DEF Owed, Made
  <2> QED BY <2>1, <2>2, <2>3
<1>3. Reaches(p, Len(s.blocks)) /\ p.own = o
  BY <1>2 DEF Reaches, Pointer
<1> HIDE DEF c, p
<1> QED BY <1>1, <1>2, <1>3, SetPointer DEF c, p

(* The owner of the other pointer passes to this one.                      *)
LEMMA PassSettles ==
    ASSUME NEW s, NEW i \in {1, 2}, NEW j, j = 3 - i, NEW p, Owed(s, 0, p.own, 0),
           Reaches(p, Len(s.blocks))
    PROVE  Settled(Point(Point(s, i, p), j, Null))
<1> DEFINE c == Point(s, i, p)
           n == Null
<1>0. j \in {1, 2} /\ i = 3 - j /\ i # j
  OBVIOUS
<1>1. Owed(c, 0, p.own, 0) /\ c.blocks = s.blocks /\ c.ptr[i] = p
  BY PointOwed
<1>2. Reaches(n, Len(s.blocks)) /\ n.own = 0
  BY NullReaches, LenProperties DEF Owed, Made
<1> HIDE DEF c, n
<1> QED BY <1>0, <1>1, <1>2, SetPointer DEF c, n

-----------------------------------------------------------------------------

(* The calls. What reset leaves of the pointer i is where most begin.      *)
LEMMA MakingSettles ==
    ASSUME NEW s, Settled(s), NEW i \in {1, 2}, NEW oom \in BOOLEAN
    PROVE  /\ \A how \in {"new", "array"} : /\ Settled(FromRaw(s, i, how, oom))
                                           /\ Settled(ResetRaw(s, i, how, oom))
           /\ \A null \in BOOLEAN : Settled(FromUnique(s, i, null, oom))
           /\ Settled(MakeShared(s, i))
<1> DEFINE r == ResetPtr(s, i)
           o == r.ptr[3 - i].own
<1>1. /\ Settled(r) /\ Owed(r, 0, s.ptr[3 - i].own, 0) /\ Len(r.blocks) = Len(s.blocks)
      /\ r.ptr[i] = Null /\ r.ptr[3 - i] = s.ptr[3 - i]
  BY ResetSettles
<1> HIDE DEF r
<1>2. Owed(r, 0, o, 0) /\ r.ptr[i].own = 0 /\ Len(r.blocks) \in Nat /\ Next1(r) = Len(r.blocks) + 1
      /\ Next1(s) = Len(r.blocks) + 1
  BY <1>1, LenProperties DEF Owed, Made, Null, None, Next1
<1>3. \A how \in Ways, at \in {0, Len(r.blocks) + 1} : Settled(Owned(r, i, how, at))
  BY <1>2, OwnedSettles
<1>4. \A how \in Ways \ {"fused"} :
         /\ Settled(Lost(r, how)) /\ Owed(Lost(r, how), 0, o, 0)
         /\ Lost(r, how).ptr = r.ptr /\ Len(Lost(r, how).blocks) = Len(r.blocks) + 1
  BY <1>2, LostSettles
<1>5. ASSUME NEW how \in Ways \ {"fused"}
      PROVE  Settled(Point(Lost(r, how), i, [own |-> 0, at |-> Len(r.blocks) + 1]))
  <2> DEFINE e == Lost(r, how)
             p == [own |-> 0, at |-> Len(r.blocks) + 1]
  <2>1. Owed(e, 0, e.ptr[3 - i].own, 0) /\ Len(e.blocks) = Len(r.blocks) + 1
    BY <1>4
  <2>2. Reaches(p, Len(e.blocks)) /\ p.own = 0
    BY <1>2, <2>1 DEF Reaches, Pointer
  <2> HIDE DEF e, p
  <2> QED BY <2>1, <2>2, SetPointer DEF e, p
<1>6. ASSUME NEW how \in {"new", "array"}
      PROVE  Settled(FromRaw(s, i, how, oom)) /\ Settled(ResetRaw(s, i, how, oom))
  <2>1. how \in Ways \ {"fused"}
    BY DEF Ways
  <2> QED BY <1>2, <1>3, <1>4, <1>5, <2>1 DEF FromRaw, ResetRaw, None, r
<1>7. ASSUME NEW null \in BOOLEAN PROVE Settled(FromUnique(s, i, null, oom))
  <2>1. (IF null THEN "nothing" ELSE "unique") \in Ways \ {"fused"}
    BY DEF Ways
  <2> QED BY <1>2, <1>3, <1>4, <2>1 DEF FromUnique, None, r
<1>8. Settled(MakeShared(s, i))
  BY <1>2, <1>3 DEF MakeShared, Ways, r
<1> QED BY <1>6, <1>7, <1>8

LEMMA CopyingSettles ==
    ASSUME NEW s, Settled(s), NEW i \in {1, 2}, NEW j, j = 3 - i, NEW at \in 0 .. Len(s.blocks)
    PROVE  /\ Settled(CopyCtor(s, i, j, at)) /\ Settled(MoveCtor(s, i, j, at))
           /\ Settled(CopyAssign(s, i, j)) /\ Settled(MoveAssign(s, i, j))
<1> DEFINE r == ResetPtr(s, i)
           d == DecrefBlock(s, s.ptr[i].own)
           q == s.ptr[j]
           p == [own |-> q.own, at |-> at]
<1>1. /\ Owed(r, 0, q.own, 0) /\ Len(r.blocks) = Len(s.blocks) /\ r.ptr[j] = q
      /\ Reaches(q, Len(r.blocks))
  BY ResetSettles
<1>2. Owed(d, 0, q.own, 0) /\ d.ptr = s.ptr /\ Len(d.blocks) = Len(s.blocks)
  BY LetGo
<1> HIDE DEF r, d
<1>3. /\ q = [own |-> q.own, at |-> q.at] /\ q.at \in 0 .. Len(s.blocks)
      /\ Reaches(p, Len(s.blocks)) /\ p.own = q.own
  <2> HIDE DEF q
  <2> QED BY <1>1, LenProperties DEF Reaches, Pointer, Owed, Made
<1>4. i # j
  OBVIOUS
<1>5. Settled(CopyCtor(s, i, j, at))
  BY <1>1, ShareSettles DEF CopyCtor, r
<1>6. Settled(MoveCtor(s, i, j, at))
  <2>1. Settled(Point(Point(r, i, p), j, Null))
    <3> HIDE DEF p
    <3> QED BY <1>1, <1>3, PassSettles
  <2> QED BY <2>1 DEF MoveCtor, r
<1>7. Settled(CopyAssign(s, i, j))
  <2>1. Settled(Point(IncrefBlock(d, q.own), i, [own |-> q.own, at |-> q.at]))
    BY <1>2, <1>3, ShareSettles
  <2> QED BY <1>3, <1>4, <2>1 DEF CopyAssign, d
<1>8. Settled(MoveAssign(s, i, j))
  <2>1. Settled(Point(Point(d, i, q), j, Null))
    BY <1>1, <1>2, PassSettles
  <2> QED BY <1>4, <2>1 DEF MoveAssign, d
<1> QED BY <1>5, <1>6, <1>7, <1>8

LEMMA SwapSettles == ASSUME NEW s, Settled(s) PROVE Settled(Swap(s))
<1> DEFINE e == Swap(s)
<1>1. Made(s) /\ Owed(s, s.ptr[2].own, s.ptr[1].own, 0)
  BY OwedAnyOrder DEF Settled, Owed
<1>2. e.blocks = s.blocks /\ e = [ptr |-> e.ptr, blocks |-> e.blocks] /\ e.ptr = <<s.ptr[2], s.ptr[1]>>
  BY <1>1, SMTT(30) DEF Made, Swap
<1> HIDE DEF e
<1>3. e.ptr[1] = s.ptr[2] /\ e.ptr[2] = s.ptr[1] /\ e.ptr = [i \in {1, 2} |-> e.ptr[i]]
  BY <1>2
<1>4. \A i \in {1, 2} : Reaches(e.ptr[i], Len(e.blocks))
  BY <1>1, <1>2, <1>3 DEF Made
<1>5. Made(e)
  BY <1>1, <1>2, <1>3, <1>4 DEF Made
<1>6. Counts(e, e.ptr[1].own, e.ptr[2].own, 0)
  BY <1>1, <1>2, <1>3 DEF Owed, Counts
<1> QED BY <1>1, <1>2, <1>3, <1>5, <1>6 DEF Settled, Owed, e

(* The object that j points at has an owner, which gets another.           *)
LEMMA FromThisSettles ==
    ASSUME NEW s, Settled(s), NEW i \in {1, 2}, NEW j \in {1, 2},
           s.ptr[j].at # 0, s.blocks[s.ptr[j].at].life = "alive"
    PROVE  Settled(SharedFromThis(s, i, j))
<1> DEFINE k == s.ptr[j].at
           c == IncrefBlock(s, k)
           d == DecrefBlock(c, s.ptr[i].own)
           e == Point(d, i, Null)
           p == [own |-> k, at |-> k]
           o == s.ptr[3 - i].own
<1>0. 3 - i \in {1, 2} /\ 3 - i # i
  OBVIOUS
<1>1. Owed(s, s.ptr[i].own, o, 0) /\ Made(s) /\ Len(s.blocks) \in Nat
  BY SettledIs, LenProperties DEF Owed, Made
<1>2. k \in 0 .. Len(s.blocks)
  <2>1. Reaches(s.ptr[j], Len(s.blocks))
    BY <1>1 DEF Made
  <2> QED BY <1>1, <2>1 DEF Reaches, Pointer
<1>3. Owed(c, s.ptr[i].own, o, k) /\ c.ptr = s.ptr /\ Len(c.blocks) = Len(s.blocks)
  BY <1>1, <1>2, IncrefOwed
<1> HIDE DEF c, k
<1>4. Owed(d, k, o, 0) /\ d.ptr = s.ptr /\ Len(d.blocks) = Len(s.blocks)
  BY <1>3, OwedAnyOrder, DecrefOwed
<1> HIDE DEF d
<1>5. Reaches(Null, Len(d.blocks)) /\ Reaches(p, Len(d.blocks)) /\ p.own = k
  BY <1>1, <1>2, <1>4, NullReaches DEF Reaches, Pointer
<1>6. Owed(e, k, o, 0) /\ e.blocks = d.blocks /\ e.ptr[3 - i] = s.ptr[3 - i]
  BY <1>0, <1>4, <1>5, PointOwed
<1> HIDE DEF e, p
<1>7. Settled(Point(e, i, p))
  BY <1>5, <1>6, SetPointer
<1>8. SharedFromThis(s, i, j) = Point(e, i, p)
  BY <1>3 DEF SharedFromThis, ResetPtr, c, d, e, p, k
<1> QED BY <1>7, <1>8

LEMMA CallSettles == ASSUME Settled(owners), NextOwners PROVE Settled(owners')
<1>1. PICK i \in 1 .. 2 :
         LET j == 3 - i IN
         \/ \E how \in {"new", "array"}, oom \in BOOLEAN :
               owners' = FromRaw(owners, i, how, oom) \/ owners' = ResetRaw(owners, i, how, oom)
         \/ \E null, oom \in BOOLEAN : owners' = FromUnique(owners, i, null, oom)
         \/ owners' = MakeShared(owners, i)
         \/ owners' = ResetPtr(owners, i)
         \/ \E at \in Targets(j) :
               owners' = CopyCtor(owners, i, j, at) \/ owners' = MoveCtor(owners, i, j, at)
         \/ \E ok \in BOOLEAN : owners' = DynamicCast(owners, i, j, ok)
         \/ \E k \in 1 .. 2 : owners' = CopyAssign(owners, i, k) \/ owners' = MoveAssign(owners, i, k)
         \/ owners' = Swap(owners)
         \/ \E k \in 1 .. 2 : Alive(owners.ptr[k].at) /\ owners' = SharedFromThis(owners, i, k)
  BY DEF NextOwners
<1> DEFINE j == 3 - i
<1>2. i \in {1, 2} /\ j \in {1, 2} /\ j # i /\ \A k \in 1 .. 2 : k = i \/ k = j
  OBVIOUS
<1>3. Made(owners) /\ Len(owners.blocks) \in Nat
  BY LenProperties DEF Settled, Owed, Made
<1>4. \A k \in {1, 2} : owners.ptr[k].at \in 0 .. Len(owners.blocks)
  BY <1>3 DEF Made, Reaches, Pointer
<1>5. \A at \in Targets(j) : at \in 0 .. Len(owners.blocks)
  BY <1>2, <1>3, <1>4 DEF Targets, None
<1>6. CASE owners' = ResetPtr(owners, i)
  BY <1>2, <1>6, ResetSettles
<1>7. ASSUME NEW at \in Targets(j),
             owners' = CopyCtor(owners, i, j, at) \/ owners' = MoveCtor(owners, i, j, at)
      PROVE  Settled(owners')
  BY <1>2, <1>5, <1>7, CopyingSettles
<1>8. ASSUME NEW ok \in BOOLEAN, owners' = DynamicCast(owners, i, j, ok) PROVE Settled(owners')
  BY <1>2, <1>4, <1>8, CopyingSettles, ResetSettles DEF DynamicCast
<1>9. ASSUME NEW k \in 1 .. 2, owners' = CopyAssign(owners, i, k) \/ owners' = MoveAssign(owners, i, k)
      PROVE  Settled(owners')
  <2>1. CASE k = i
    BY <1>9, <2>1 DEF CopyAssign, MoveAssign
  <2>2. CASE k = j
    BY <1>2, <1>4, <1>9, <2>2, CopyingSettles
  <2> QED BY <1>2, <2>1, <2>2
<1>10. ASSUME NEW k \in 1 .. 2, Alive(owners.ptr[k].at), owners' = SharedFromThis(owners, i, k)
       PROVE  Settled(owners')
  BY <1>2, <1>10, FromThisSettles DEF Alive, None
<1>11. CASE owners' = Swap(owners)
  BY <1>11, SwapSettles
<1> QED BY <1>1, <1>2, <1>6, <1>7, <1>8, <1>9, <1>10, <1>11, MakingSettles

LEMMA PairCount ==
    ASSUME NEW S \in SUBSET {1, 2}
    PROVE  Cardinality(S) = (IF 1 \in S THEN 1 ELSE 0) + (IF 2 \in S THEN 1 ELSE 0)
<1>1. Cardinality({1}) = 1 /\ Cardinality({2}) = 1 /\ IsFiniteSet({1})
  BY FS_Singleton
<1>2. Cardinality({1} \cup {2}) = 2
  BY <1>1, FS_AddElement
<1>3. CASE S = {}
  BY <1>3, FS_EmptySet
<1>4. CASE S = {1}
  BY <1>1, <1>4
<1>5. CASE S = {2}
  BY <1>1, <1>5
<1>6. CASE S = {1} \cup {2}
  BY <1>2, <1>6
<1> QED BY <1>3, <1>4, <1>5, <1>6

LEMMA SettledIsSound == Settled(owners) => SharingSound
<1> SUFFICES ASSUME Settled(owners) PROVE SharingSound
  OBVIOUS
<1> DEFINE owner(i) == owners.ptr[i].own
<1>1. /\ Made(owners) /\ owner(1) \in 0 .. Len(owners.blocks) /\ owner(2) \in 0 .. Len(owners.blocks)
      /\ Counts(owners, owner(1), owner(2), 0) /\ DOMAIN owners.blocks = 1 .. Len(owners.blocks)
  BY LenProperties DEF Settled, Owed, Made
<1>2. ASSUME NEW k \in 1 .. Len(owners.blocks)
      PROVE  /\ Fate(owners.blocks[k], Cardinality({i \in 1 .. 2 : owner(i) = k}))
             /\ Cardinality({i \in 1 .. 2 : owner(i) = k}) = Ref(owner(1), k) + Ref(owner(2), k)
  <2> DEFINE S == {i \in 1 .. 2 : owner(i) = k}
  <2>1. S \in SUBSET {1, 2} /\ (1 \in S <=> owner(1) = k) /\ (2 \in S <=> owner(2) = k)
    OBVIOUS
  <2> HIDE DEF S
  <2>2. Cardinality(S) = Ref(owner(1), k) + Ref(owner(2), k)
    BY <2>1, PairCount DEF Ref
  <2>3. Ref(owner(1), k) + Ref(owner(2), k) + Ref(0, k) = Ref(owner(1), k) + Ref(owner(2), k)
    BY DEF Ref
  <2>4. Fate(owners.blocks[k], Ref(owner(1), k) + Ref(owner(2), k))
    BY <1>1, <2>3 DEF Counts
  <2> QED BY <2>2, <2>4 DEF S
<1>3. ASSUME NEW i \in 1 .. 2
      PROVE  owner(i) # 0 => owner(i) \in 1 .. Len(owners.blocks) /\ owners.blocks[owner(i)].life = "alive"
  <2>1. Owed(owners, owner(3 - i), owner(i), 0)
    BY SettledIs, OwedAnyOrder
  <2> QED BY <2>1, OwnersLive
<1>4. ASSUME NEW i \in 1 .. 2
      PROVE  /\ owner(i) # 0 => owners.blocks[owner(i)].count = Cardinality({k \in 1 .. 2 : owner(k) = owner(i)})
             /\ owner(i) # 0 => owners.blocks[owner(i)].count = Ref(owner(1), owner(i)) + Ref(owner(2), owner(i))
  BY <1>2, <1>3 DEF Fate
<1>5. \A k \in DOMAIN owners.blocks :
        LET b == owners.blocks[k]
        IN  /\ b.count = Cardinality({i \in 1 .. 2 : owners.ptr[i].own = k})
            /\ b.life = "alive" <=> b.count > 0
            /\ b.life = "wrong" => b.how = "array"
            /\ b.life = "gone"  => b.how # "array"
            /\ b.life = "leaked" => b.how # "fused"
  BY <1>1, <1>2 DEF Fate
<1>6. ASSUME NEW i \in 1 .. 2
      PROVE  /\ owner(i) # 0 => Alive(owner(i))
             /\ IsUnique(owners, i) <=> ~\E k \in 1 .. 2 : k # i /\ owner(i) = owner(k) /\ owner(i) # 0
             /\ UseCount(owners, i) = Cardinality({k \in 1 .. 2 : owner(i) = owner(k) /\ owner(i) # 0})
  <2>1. CASE owner(i) = 0
    <3>1. {k \in 1 .. 2 : owner(i) = owner(k) /\ owner(i) # 0} = {}
      BY <2>1
    <3> QED BY <2>1, <3>1, FS_EmptySet DEF IsUnique, UseCount, None
  <2>2. CASE owner(i) # 0
    <3>1. {k \in 1 .. 2 : owner(i) = owner(k) /\ owner(i) # 0} = {k \in 1 .. 2 : owner(k) = owner(i)}
      BY <2>2
    <3>2. UseCount(owners, i) = Cardinality({k \in 1 .. 2 : owner(i) = owner(k) /\ owner(i) # 0})
      BY <1>4, <2>2, <3>1 DEF UseCount, None
    <3>3. Alive(owner(i))
      BY <1>3, <2>2 DEF Alive, None
    <3>4. owners.blocks[owner(i)].count = 1 <=> ~\E k \in 1 .. 2 : k # i /\ owner(i) = owner(k)
      <4>1. \E j \in 1 .. 2 : j # i /\ \A k \in 1 .. 2 : k = i \/ k = j
        <5>1. CASE i = 1
          <6> WITNESS 2 \in 1 .. 2
          <6> QED BY <5>1
        <5>2. CASE i = 2
          <6> WITNESS 1 \in 1 .. 2
          <6> QED BY <5>2
        <5> QED BY <5>1, <5>2
      <4>2. PICK j \in 1 .. 2 : j # i /\ \A k \in 1 .. 2 : k = i \/ k = j
        BY <4>1
      <4>3. Ref(owner(1), owner(i)) + Ref(owner(2), owner(i)) = 1 + Ref(owner(j), owner(i))
        BY <4>2 DEF Ref
      <4> QED BY <1>4, <2>2, <4>2, <4>3 DEF Ref
    <3> QED BY <2>2, <3>2, <3>3, <3>4 DEF IsUnique, UseCount, None
  <2> QED BY <2>1, <2>2
<1>7. \A i \in 1 .. 2 :
        /\ owners.ptr[i].own # None => Alive(owners.ptr[i].own)
        /\ IsUnique(owners, i)
           <=> ~\E k \in 1 .. 2 : k # i /\ Equal(owners, i, k) /\ owners.ptr[i].own # None
        /\ UseCount(owners, i)
           = Cardinality({k \in 1 .. 2 : Equal(owners, i, k) /\ owners.ptr[i].own # None})
  BY <1>6, Zenon DEF Equal, None
<1> HIDE DEF owner
<1> QED BY <1>5, <1>7, Zenon DEF SharingSound

\* Whatever the calls that make, copy, move, cast, alias, exchange and drop shared_ptrs, each
\* control block counts the pointers that own it, its object lives exactly as long as there are
\* any, and only arrays are destroyed in the wrong way.
THEOREM BlocksStaySound == SpecOwners => []SharingSound
<1>1. InitOwners => Settled(owners)
  <2> SUFFICES ASSUME InitOwners PROVE Settled(owners)
    OBVIOUS
  <2>1. owners = [ptr |-> <<Null, Null>>, blocks |-> <<>>] /\ Len(<<>>) = 0
    BY DEF InitOwners
  <2>2. owners.ptr[1] = Null /\ owners.ptr[2] = Null /\ owners.blocks = <<>>
    BY <2>1
  <2>3. Reaches(Null, 0) /\ Null.own = 0
    BY NullReaches
  <2>4. Made(owners)
    <3>1. owners.blocks \in Seq(BlockSet)
      BY <2>2
    <3>2. \A i \in {1, 2} : Reaches(owners.ptr[i], Len(owners.blocks))
      BY <2>1, <2>2, <2>3
    <3>3. owners.ptr = [i \in {1, 2} |-> owners.ptr[i]]
      BY <2>1
    <3>4. owners = [ptr |-> owners.ptr, blocks |-> owners.blocks]
      BY <2>1
    <3> QED BY <3>1, <3>2, <3>3, <3>4 DEF Made
  <2>5. Counts(owners, 0, 0, 0)
    BY <2>1, <2>2 DEF Counts
  <2> QED BY <2>1, <2>2, <2>3, <2>4, <2>5 DEF Settled, Owed
<1>2. Settled(owners) /\ [NextOwners]_owners => Settled(owners')
  <2>1. CASE UNCHANGED owners
    BY <2>1
  <2> QED BY <2>1, CallSettles
<1>3. Settled(owners) => SharingSound
  BY SettledIsSound
<1>4. Settled(owners)' <=> Settled(owners')
  BY DEF Settled, Owed, Made, Counts
<1> QED BY <1>1, <1>2, <1>3, <1>4, PTL DEF SpecOwners

-----------------------------------------------------------------------------

(* Objects that hold an object: what is in place or in the heap.           *)
Tags    == {"small", "big", "none"}
Fields  == {"kind", "tag", "inv", "cell", "heap", "want", "first", "lost", "torn", "known", "forgot"}
Shaped(s) ==
    /\ DOMAIN s = Fields
    /\ s.tag \in [1 .. 3 -> Tags] /\ s.inv \in [1 .. 3 -> Tags]
    /\ s.cell = [i \in 1 .. 3 |-> s.cell[i]] /\ s.heap = [p \in 1 .. MaxHeap |-> s.heap[p]]
    /\ s.want = [i \in 1 .. 2 |-> s.want[i]]

LEMMA ThingIs ==
    ASSUME NEW x \in Objects
    PROVE  /\ x = <<x[1], x[2]>> /\ x[1] \in {"small", "big"} /\ x[2] \in Numbers
           /\ x # <<>> /\ \A p : x # <<p>>
<1>1. x = <<x[1], x[2]>> /\ x[1] \in {"small", "big"} /\ x[2] \in Numbers
  BY DEF Objects, Types
<1>2. \A a, b, p : <<a, b>> # <<>> /\ <<a, b>> # <<p>> /\ <<p>> # <<>>
  OBVIOUS
<1> QED BY <1>1, <1>2

-----------------------------------------------------------------------------

(* What a step of a call changes of a state, field by field.               *)
Kept(s, e) ==
    /\ e.kind = s.kind /\ e.want = s.want /\ e.first = s.first /\ e.known = s.known /\ e.forgot = s.forgot
Builds(s, e, i, x) ==
    /\ Shaped(e) /\ Kept(s, e) /\ e.tag = s.tag /\ e.inv = s.inv /\ e.heap = s.heap /\ e.torn = s.torn
    /\ \A k \in 1 .. 3 : e.cell[k] = IF k = i THEN x ELSE s.cell[k]
    /\ e.lost = IF s.cell[i] = <<>> THEN s.lost ELSE s.lost \cup {s.cell[i]}
Unbuilds(s, e, i) ==
    /\ Shaped(e) /\ Kept(s, e) /\ e.tag = s.tag /\ e.inv = s.inv /\ e.heap = s.heap /\ ~e.torn /\ e.lost = s.lost
    /\ \A k \in 1 .. 3 : e.cell[k] = IF k = i THEN <<>> ELSE s.cell[k]
Retags(s, e, i, t) ==
    /\ Shaped(e) /\ Kept(s, e) /\ e.cell = s.cell /\ e.inv = s.inv /\ e.heap = s.heap
    /\ e.torn = s.torn /\ e.lost = s.lost
    /\ \A k \in 1 .. 3 : e.tag[k] = IF k = i THEN t ELSE s.tag[k]
Reinvokes(s, e, i, t) ==
    /\ Shaped(e) /\ Kept(s, e) /\ e.cell = s.cell /\ e.tag = s.tag /\ e.heap = s.heap
    /\ e.torn = s.torn /\ e.lost = s.lost
    /\ \A k \in 1 .. 3 : e.inv[k] = IF k = i THEN t ELSE s.inv[k]
Allots(s, e, p, x) ==
    /\ Shaped(e) /\ Kept(s, e) /\ e.cell = s.cell /\ e.tag = s.tag /\ e.inv = s.inv
    /\ e.torn = s.torn /\ e.lost = s.lost
    /\ \A q \in 1 .. MaxHeap : e.heap[q] = IF q = p THEN x ELSE s.heap[q]

LEMMA ConstructIs ==
    ASSUME NEW s, Shaped(s), NEW i \in 1 .. 3, NEW x
    PROVE  Builds(s, Construct(s, i, x), i, x)
<1> DEFINE l == IF s.cell[i] = <<>> THEN s.lost ELSE s.lost \cup {s.cell[i]}
           e == [s EXCEPT !.cell[i] = x, !.lost = l]
<1>1. Construct(s, i, x) = e
  BY DEF Construct, Raw, Shaped
<1> HIDE DEF l
<1>2. DOMAIN s = Fields /\ DOMAIN e = Fields
  BY DEF Shaped
<1>3. Kept(s, e)
  BY <1>2 DEF Kept, Fields
<1>4. e.tag = s.tag /\ e.inv = s.inv /\ e.heap = s.heap /\ e.torn = s.torn /\ e.lost = l
  BY <1>2 DEF Fields
<1>5. e.cell = [s.cell EXCEPT ![i] = x]
  BY <1>2 DEF Fields
<1> HIDE DEF e
<1>6. /\ \A k \in 1 .. 3 : e.cell[k] = IF k = i THEN x ELSE s.cell[k]
      /\ e.cell = [k \in 1 .. 3 |-> e.cell[k]]
  BY <1>5 DEF Shaped
<1>7. Shaped(e)
  BY <1>2, <1>3, <1>4, <1>6 DEF Shaped, Kept
<1> QED BY <1>1, <1>3, <1>4, <1>6, <1>7 DEF l, Builds

LEMMA DestroyIs ==
    ASSUME NEW s, Shaped(s), ~s.torn, NEW i \in 1 .. 3, NEW t, s.cell[i] # <<>>, s.cell[i][1] = t
    PROVE  Unbuilds(s, Destroy(s, i, t), i)
<1> DEFINE e == Destroy(s, i, t)
<1>2. DOMAIN s = Fields /\ DOMAIN e = Fields
  BY DEF Shaped, Destroy
<1>3. Kept(s, e)
  BY <1>2 DEF Kept, Fields, Destroy
<1>4. e.tag = s.tag /\ e.inv = s.inv /\ e.heap = s.heap /\ e.lost = s.lost
  BY <1>2 DEF Fields, Destroy
<1>5. e.cell = [s.cell EXCEPT ![i] = <<>>]
  BY <1>2 DEF Fields, Destroy, Raw
<1>6. ~e.torn
  BY <1>2 DEF Fields, Destroy, Raw
<1> HIDE DEF e
<1>7. /\ \A k \in 1 .. 3 : e.cell[k] = IF k = i THEN <<>> ELSE s.cell[k]
      /\ e.cell = [k \in 1 .. 3 |-> e.cell[k]]
  BY <1>5 DEF Shaped
<1>8. Shaped(e)
  BY <1>2, <1>3, <1>4, <1>7 DEF Shaped, Kept
<1> QED BY <1>3, <1>4, <1>6, <1>7, <1>8 DEF e, Unbuilds

LEMMA TagIs ==
    ASSUME NEW s, Shaped(s), NEW i \in 1 .. 3, NEW t \in Tags
    PROVE  Retags(s, [s EXCEPT !.tag[i] = t], i, t)
<1> DEFINE e == [s EXCEPT !.tag[i] = t]
<1>2. DOMAIN s = Fields /\ DOMAIN e = Fields
  BY DEF Shaped
<1>3. Kept(s, e)
  BY <1>2 DEF Kept, Fields
<1>4. /\ e.cell = s.cell /\ e.inv = s.inv /\ e.heap = s.heap /\ e.torn = s.torn /\ e.lost = s.lost
      /\ e.tag = [s.tag EXCEPT ![i] = t]
  BY <1>2 DEF Fields
<1> HIDE DEF e
<1>5. e.tag \in [1 .. 3 -> Tags] /\ \A k \in 1 .. 3 : e.tag[k] = IF k = i THEN t ELSE s.tag[k]
  BY <1>4 DEF Shaped
<1>6. Shaped(e)
  BY <1>2, <1>3, <1>4, <1>5 DEF Shaped, Kept
<1> QED BY <1>3, <1>4, <1>5, <1>6 DEF e, Retags

LEMMA InvIs ==
    ASSUME NEW s, Shaped(s), NEW i \in 1 .. 3, NEW t \in Tags
    PROVE  Reinvokes(s, [s EXCEPT !.inv[i] = t], i, t)
<1> DEFINE e == [s EXCEPT !.inv[i] = t]
<1>2. DOMAIN s = Fields /\ DOMAIN e = Fields
  BY DEF Shaped
<1>3. Kept(s, e)
  BY <1>2 DEF Kept, Fields
<1>4. /\ e.cell = s.cell /\ e.tag = s.tag /\ e.heap = s.heap /\ e.torn = s.torn /\ e.lost = s.lost
      /\ e.inv = [s.inv EXCEPT ![i] = t]
  BY <1>2 DEF Fields
<1> HIDE DEF e
<1>5. e.inv \in [1 .. 3 -> Tags] /\ \A k \in 1 .. 3 : e.inv[k] = IF k = i THEN t ELSE s.inv[k]
  BY <1>4 DEF Shaped
<1>6. Shaped(e)
  BY <1>2, <1>3, <1>4, <1>5 DEF Shaped, Kept
<1> QED BY <1>3, <1>4, <1>5, <1>6 DEF e, Reinvokes

LEMMA HeapIs ==
    ASSUME NEW s, Shaped(s), NEW p \in 1 .. MaxHeap, NEW x
    PROVE  Allots(s, [s EXCEPT !.heap[p] = x], p, x)
<1> DEFINE e == [s EXCEPT !.heap[p] = x]
<1>2. DOMAIN s = Fields /\ DOMAIN e = Fields
  BY DEF Shaped
<1>3. Kept(s, e)
  BY <1>2 DEF Kept, Fields
<1>4. /\ e.cell = s.cell /\ e.tag = s.tag /\ e.inv = s.inv /\ e.torn = s.torn /\ e.lost = s.lost
      /\ e.heap = [s.heap EXCEPT ![p] = x]
  BY <1>2 DEF Fields
<1> HIDE DEF e
<1>5. /\ e.heap = [q \in 1 .. MaxHeap |-> e.heap[q]]
      /\ \A q \in 1 .. MaxHeap : e.heap[q] = IF q = p THEN x ELSE s.heap[q]
  BY <1>4 DEF Shaped
<1>6. Shaped(e)
  BY <1>2, <1>3, <1>4, <1>5 DEF Shaped, Kept
<1> QED BY <1>3, <1>4, <1>5, <1>6 DEF e, Allots

-----------------------------------------------------------------------------

(* any and function. What a holder holds, wherever it is kept.             *)
Value(s, i) == IF Has(s, i) THEN Stored(s, i) ELSE <<>>

InHeap(s, i, p) == s.cell[i] = <<p>> /\ s.heap[p] \in Objects /\ s.heap[p][1] = "big"
Fits(s, i) ==
    /\ s.tag[i] = "none"  => s.cell[i] = <<>>
    /\ s.tag[i] = "small" => s.cell[i] \in Objects /\ s.cell[i][1] = "small"
    /\ s.tag[i] = "big"   => \E p \in 1 .. MaxHeap : InHeap(s, i, p)
(* Every holder has what its tag says, no two share a place of the heap,   *)
(* and what is in the heap somebody holds.                                 *)
Whole(s) ==
    /\ Shaped(s) /\ ~s.torn /\ s.lost = {}
    /\ \A i \in 1 .. 3 : Fits(s, i)
    /\ \A i, k \in 1 .. 3 : i # k /\ s.tag[i] = "big" /\ s.tag[k] = "big" => s.cell[i] # s.cell[k]
    /\ \A p \in 1 .. MaxHeap : s.heap[p] # <<>> => \E i \in 1 .. 3 : s.tag[i] = "big" /\ s.cell[i] = <<p>>
Holds(s, e, i, x) ==
    /\ Whole(e) /\ Kept(s, e) /\ e.inv = s.inv
    /\ \A k \in 1 .. 3 : Value(e, k) = IF k = i THEN x ELSE Value(s, k)

LEMMA ValueIs ==
    ASSUME NEW s, Whole(s), NEW i \in 1 .. 3
    PROVE  /\ s.tag[i] = "none" => Value(s, i) = <<>>
           /\ s.tag[i] # "none" => Value(s, i) \in Objects /\ Value(s, i)[1] = s.tag[i] /\ Value(s, i) = Stored(s, i)
           /\ s.tag[i] \in Tags /\ (Has(s, i) <=> s.tag[i] # "none") /\ (Has(s, i) <=> Value(s, i) # <<>>)
<1>1. s.tag[i] \in Tags /\ Fits(s, i) /\ (Has(s, i) <=> s.tag[i] # "none")
  BY DEF Whole, Shaped, Has, NoType
<1>2. CASE s.tag[i] = "none"
  BY <1>1, <1>2 DEF Value
<1>3. CASE s.tag[i] = "small"
  <2>1. Stored(s, i) = s.cell[i] /\ s.cell[i] \in Objects /\ s.cell[i][1] = "small"
    BY <1>1, <1>3 DEF Fits, Stored
  <2> QED BY <1>1, <1>3, <2>1, ThingIs DEF Value
<1>4. CASE s.tag[i] = "big"
  <2>1. PICK p \in 1 .. MaxHeap : InHeap(s, i, p)
    BY <1>1, <1>4 DEF Fits
  <2>2. s.cell[i][1] = p
    BY <2>1 DEF InHeap
  <2>3. Stored(s, i) = s.heap[p] /\ s.heap[p] \in Objects /\ s.heap[p][1] = "big"
    BY <1>4, <2>1, <2>2 DEF InHeap, Stored
  <2> QED BY <1>1, <1>4, <2>3, ThingIs DEF Value
<1> QED BY <1>1, <1>2, <1>3, <1>4 DEF Tags

(* A holder is left alone by what touches neither it nor its place.        *)
LEMMA Untouched ==
    ASSUME NEW s, NEW e, Whole(s), NEW k \in 1 .. 3, e.tag[k] = s.tag[k], e.cell[k] = s.cell[k],
           \A q \in 1 .. MaxHeap : s.tag[k] = "big" /\ s.cell[k] = <<q>> => e.heap[q] = s.heap[q]
    PROVE  Fits(e, k) /\ Value(e, k) = Value(s, k)
<1>1. Fits(s, k) /\ s.tag[k] \in Tags
  BY DEF Whole, Shaped
<1>2. CASE s.tag[k] # "big"
  BY <1>1, <1>2 DEF Fits, Value, Has, NoType, Stored, Tags
<1>3. CASE s.tag[k] = "big"
  <2>1. PICK p \in 1 .. MaxHeap : InHeap(s, k, p)
    BY <1>1, <1>3 DEF Fits
  <2>2. InHeap(e, k, p) /\ s.cell[k][1] = p /\ e.cell[k][1] = p /\ e.heap[p] = s.heap[p]
    BY <1>3, <2>1 DEF InHeap
  <2>3. Fits(e, k)
    BY <1>3, <2>2 DEF Fits
  <2> QED BY <1>3, <2>2, <2>3 DEF Value, Has, NoType, Stored
<1> QED BY <1>2, <1>3

LEMMA GiveBackIs ==
    ASSUME NEW s, Shaped(s), ~s.torn, NEW i \in 1 .. 3, s.tag[i] = "big", NEW p \in 1 .. MaxHeap, InHeap(s, i, p)
    PROVE  LET e == ManageDestroy(s, i)
           IN  /\ Shaped(e) /\ Kept(s, e) /\ e.tag = s.tag /\ e.inv = s.inv /\ ~e.torn /\ e.lost = s.lost
               /\ \A k \in 1 .. 3 : e.cell[k] = IF k = i THEN <<>> ELSE s.cell[k]
               /\ \A q \in 1 .. MaxHeap : e.heap[q] = IF q = p THEN <<>> ELSE s.heap[q]
<1> DEFINE e == ManageDestroy(s, i)
<1>0. s.cell[i][1] = p /\ s.heap[p] # <<>>
  BY ThingIs DEF InHeap
<1>1. e = [s EXCEPT !.cell[i] = Raw, !.heap[p] = Raw, !.torn = @ \/ s.heap[p] = Raw]
  BY <1>0 DEF ManageDestroy
<1> HIDE DEF e
<1>2. DOMAIN s = Fields /\ DOMAIN e = Fields
  BY <1>1 DEF Shaped
<1>3. Kept(s, e)
  BY <1>1, <1>2 DEF Kept, Fields
<1>4. e.tag = s.tag /\ e.inv = s.inv /\ e.lost = s.lost
  BY <1>1, <1>2 DEF Fields
<1>5. e.cell = [s.cell EXCEPT ![i] = <<>>] /\ e.heap = [s.heap EXCEPT ![p] = <<>>]
  BY <1>1, <1>2 DEF Fields, Raw
<1>6. ~e.torn
  BY <1>0, <1>1, <1>2 DEF Fields, Raw
<1>7. /\ \A k \in 1 .. 3 : e.cell[k] = IF k = i THEN <<>> ELSE s.cell[k]
      /\ e.cell = [k \in 1 .. 3 |-> e.cell[k]]
  BY <1>5 DEF Shaped
<1>8. /\ e.heap = [q \in 1 .. MaxHeap |-> e.heap[q]]
      /\ \A q \in 1 .. MaxHeap : e.heap[q] = IF q = p THEN <<>> ELSE s.heap[q]
  BY <1>5 DEF Shaped
<1>9. Shaped(e)
  BY <1>2, <1>3, <1>4, <1>7, <1>8 DEF Shaped, Kept
<1> QED BY <1>3, <1>4, <1>6, <1>7, <1>8, <1>9 DEF e

LEMMA ResetIs ==
    ASSUME NEW s, Whole(s), NEW i \in 1 .. 3
    PROVE  Holds(s, AnyReset(s, i), i, <<>>)
<1> DEFINE d == ManageDestroy(s, i)
           e == [d EXCEPT !.tag[i] = "none"]
<1>0. Shaped(s) /\ ~s.torn /\ s.lost = {} /\ Fits(s, i) /\ s.tag[i] \in Tags
  BY DEF Whole, Shaped
<1>1. CASE s.tag[i] = "none"
  <2>1. AnyReset(s, i) = s /\ Value(s, i) = <<>>
    BY <1>1, ValueIs DEF AnyReset
  <2> QED BY <2>1 DEF Holds, Kept
<1>2. ASSUME s.tag[i] # "none",
             /\ Shaped(d) /\ Kept(s, d) /\ d.tag = s.tag /\ d.inv = s.inv /\ ~d.torn /\ d.lost = s.lost
             /\ \A k \in 1 .. 3 : d.cell[k] = IF k = i THEN <<>> ELSE s.cell[k],
             \A q \in 1 .. MaxHeap : d.heap[q] = IF s.tag[i] = "big" /\ s.cell[i] = <<q>> THEN <<>> ELSE s.heap[q]
      PROVE  Holds(s, AnyReset(s, i), i, <<>>)
  <2>1. AnyReset(s, i) = e
    BY <1>2, ValueIs DEF AnyReset, NoType
  <2>0. Retags(d, e, i, "none")
    BY <1>2, TagIs DEF Tags
  <2> HIDE DEF d, e
  <2>2. /\ Shaped(e) /\ Kept(d, e) /\ e.cell = d.cell /\ e.inv = d.inv /\ e.heap = d.heap
        /\ e.torn = d.torn /\ e.lost = d.lost
        /\ \A k \in 1 .. 3 : e.tag[k] = IF k = i THEN "none" ELSE d.tag[k]
    BY <2>0 DEF Retags
  <2>3. Kept(s, e)
    BY <1>2, <2>2 DEF Kept
  <2>4. Fits(e, i) /\ Value(e, i) = <<>>
    BY <1>2, <2>2 DEF Fits, Value, Has, NoType
  <2>5. ASSUME NEW k \in 1 .. 3, k # i PROVE Fits(e, k) /\ Value(e, k) = Value(s, k)
    <3>1. e.tag[k] = s.tag[k] /\ e.cell[k] = s.cell[k]
      BY <1>2, <2>2, <2>5
    <3>2. \A q \in 1 .. MaxHeap : s.tag[k] = "big" /\ s.cell[k] = <<q>> => e.heap[q] = s.heap[q]
      BY <1>2, <2>2, <2>5 DEF Whole
    <3> QED BY <3>1, <3>2, Untouched
  <2>6. \A h, k \in 1 .. 3 : h # k /\ e.tag[h] = "big" /\ e.tag[k] = "big" => e.cell[h] # e.cell[k]
    BY <1>2, <2>2 DEF Whole
  <2>7. ASSUME NEW q \in 1 .. MaxHeap, e.heap[q] # <<>>
        PROVE  \E k \in 1 .. 3 : e.tag[k] = "big" /\ e.cell[k] = <<q>>
    <3>1. s.heap[q] # <<>> /\ ~(s.tag[i] = "big" /\ s.cell[i] = <<q>>)
      BY <1>2, <2>2, <2>7
    <3>2. PICK k \in 1 .. 3 : s.tag[k] = "big" /\ s.cell[k] = <<q>>
      BY <3>1 DEF Whole
    <3> QED BY <1>2, <2>2, <3>1, <3>2
  <2>8. Whole(e)
    BY <1>0, <1>2, <2>2, <2>4, <2>5, <2>6, <2>7 DEF Whole
  <2> QED BY <1>2, <2>1, <2>2, <2>3, <2>4, <2>5, <2>8 DEF Holds
<1>3. CASE s.tag[i] = "small"
  <2>1. d = Destroy(s, i, "small")
    BY <1>3 DEF ManageDestroy
  <2>2. s.cell[i] # <<>> /\ s.cell[i][1] = "small"
    BY <1>0, <1>3, ThingIs DEF Fits
  <2>3. /\ Shaped(d) /\ Kept(s, d) /\ d.tag = s.tag /\ d.inv = s.inv /\ d.heap = s.heap /\ ~d.torn /\ d.lost = s.lost
        /\ \A k \in 1 .. 3 : d.cell[k] = IF k = i THEN <<>> ELSE s.cell[k]
    BY <1>0, <2>1, <2>2, DestroyIs DEF Unbuilds
  <2> HIDE DEF d
  <2> QED BY <1>2, <1>3, <2>3
<1>4. CASE s.tag[i] = "big"
  <2>1. PICK p \in 1 .. MaxHeap : InHeap(s, i, p)
    BY <1>0, <1>4 DEF Fits
  <2>2. /\ Shaped(d) /\ Kept(s, d) /\ d.tag = s.tag /\ d.inv = s.inv /\ ~d.torn /\ d.lost = s.lost
        /\ \A k \in 1 .. 3 : d.cell[k] = IF k = i THEN <<>> ELSE s.cell[k]
        /\ \A q \in 1 .. MaxHeap : d.heap[q] = IF q = p THEN <<>> ELSE s.heap[q]
    BY <1>0, <1>4, <2>1, GiveBackIs
  <2>3. \A q : s.cell[i] = <<q>> <=> q = p
    BY <2>1 DEF InHeap
  <2> HIDE DEF d
  <2> QED BY <1>2, <1>4, <2>2, <2>3
<1> QED BY <1>0, <1>1, <1>3, <1>4 DEF Tags

(* Two holders cannot fill three places.                                   *)
LEMMA PlaceIsFree ==
    ASSUME NEW s, Whole(s), NEW i \in 1 .. 3, s.tag[i] = "none"
    PROVE  Place(s) \in 1 .. MaxHeap /\ s.heap[Place(s)] = <<>>
<1>1. 1 \in 1 .. MaxHeap /\ 2 \in 1 .. MaxHeap /\ 3 \in 1 .. MaxHeap
  BY ValuesAssumption
<1>2. PICK j \in 1 .. 3, k \in 1 .. 3 : \A h \in 1 .. 3 : h = i \/ h = j \/ h = k
  <2>1. CASE i = 1
    <3> WITNESS 2 \in 1 .. 3, 3 \in 1 .. 3
    <3> QED BY <2>1
  <2>2. CASE i = 2
    <3> WITNESS 1 \in 1 .. 3, 3 \in 1 .. 3
    <3> QED BY <2>2
  <2>3. CASE i = 3
    <3> WITNESS 1 \in 1 .. 3, 2 \in 1 .. 3
    <3> QED BY <2>3
  <2> QED BY <2>1, <2>2, <2>3
<1>3. \A p \in 1 .. MaxHeap : s.heap[p] # <<>> => s.cell[j] = <<p>> \/ s.cell[k] = <<p>>
  <2> SUFFICES ASSUME NEW p \in 1 .. MaxHeap, s.heap[p] # <<>> PROVE s.cell[j] = <<p>> \/ s.cell[k] = <<p>>
    OBVIOUS
  <2>1. PICK h \in 1 .. 3 : s.tag[h] = "big" /\ s.cell[h] = <<p>>
    BY DEF Whole
  <2>2. h # i
    BY <2>1
  <2> QED BY <1>2, <2>1, <2>2
<1>4. s.heap[1] = <<>> \/ s.heap[2] = <<>> \/ s.heap[3] = <<>>
  <2>1. <<1>> # <<2>> /\ <<1>> # <<3>> /\ <<2>> # <<3>>
    OBVIOUS
  <2> QED BY <1>1, <1>3, <2>1
<1>5. \E p \in 1 .. MaxHeap : s.heap[p] = <<>> /\ \A q \in 1 .. p - 1 : s.heap[q] # <<>>
  <2>1. CASE s.heap[1] = <<>>
    <3>1. \A q \in 1 .. 1 - 1 : FALSE
      OBVIOUS
    <3> QED BY <1>1, <2>1, <3>1
  <2>2. CASE s.heap[1] # <<>> /\ s.heap[2] = <<>>
    <3>1. \A q \in 1 .. 2 - 1 : q = 1
      OBVIOUS
    <3> QED BY <1>1, <2>2, <3>1
  <2>3. CASE s.heap[1] # <<>> /\ s.heap[2] # <<>> /\ s.heap[3] = <<>>
    <3>1. \A q \in 1 .. 3 - 1 : q = 1 \/ q = 2
      OBVIOUS
    <3> QED BY <1>1, <2>3, <3>1
  <2> QED BY <1>4, <2>1, <2>2, <2>3
<1> QED BY <1>5 DEF Place, Raw

LEMMA CreateIs ==
    ASSUME NEW s, Whole(s), NEW i \in 1 .. 3, s.tag[i] = "none", NEW x \in Objects
    PROVE  Holds(s, Create(s, i, x), i, x) /\ Create(s, i, x).tag[i] = x[1]
<1> DEFINE p == Place(s)
           h == [s EXCEPT !.heap[p] = x]
           r == IF x[1] = "small" THEN Construct(s, i, x) ELSE Construct(h, i, <<p>>)
           e == [r EXCEPT !.tag[i] = x[1]]
           y == IF x[1] = "small" THEN x ELSE <<p>>
<1>0. Create(s, i, x) = e
  BY DEF Create
<1>1. Shaped(s) /\ ~s.torn /\ s.lost = {} /\ s.cell[i] = <<>>
  BY DEF Whole, Fits
<1>2. p \in 1 .. MaxHeap /\ s.heap[p] = <<>>
  BY PlaceIsFree
<1>3. x[1] \in {"small", "big"} /\ x # <<>> /\ x[1] \in Tags
  BY ThingIs DEF Tags
<1> HIDE DEF p
<1>4. Allots(s, h, p, x)
  BY <1>1, <1>2, HeapIs
<1> HIDE DEF h
<1>5. /\ Shaped(r) /\ Kept(s, r) /\ r.tag = s.tag /\ r.inv = s.inv /\ ~r.torn /\ r.lost = {}
      /\ \A k \in 1 .. 3 : r.cell[k] = IF k = i THEN y ELSE s.cell[k]
      /\ \A q \in 1 .. MaxHeap : r.heap[q] = IF x[1] = "big" /\ q = p THEN x ELSE s.heap[q]
  <2>1. CASE x[1] = "small"
    <3>1. r = Construct(s, i, x)
      BY <2>1
    <3> HIDE DEF r, y
    <3>2. Builds(s, r, i, x) /\ y = x
      BY <1>1, <2>1, <3>1, ConstructIs DEF y
    <3> QED BY <1>1, <2>1, <3>2 DEF Builds
  <2>2. CASE x[1] = "big"
    <3>1. r = Construct(h, i, <<p>>)
      BY <2>2
    <3> HIDE DEF r, y
    <3>2. Builds(h, r, i, <<p>>) /\ y = <<p>>
      BY <1>4, <2>2, <3>1, ConstructIs DEF y, Allots
    <3>3. Kept(s, r)
      BY <1>4, <3>2 DEF Kept, Builds, Allots
    <3> QED BY <1>1, <1>4, <2>2, <3>2, <3>3 DEF Builds, Allots
  <2> QED BY <1>3, <2>1, <2>2
<1> HIDE DEF r
<1>60. Retags(r, e, i, x[1])
  BY <1>3, <1>5, TagIs
<1> HIDE DEF e
<1>6. /\ Shaped(e) /\ Kept(r, e) /\ e.cell = r.cell /\ e.inv = r.inv /\ e.heap = r.heap
      /\ e.torn = r.torn /\ e.lost = r.lost
      /\ \A k \in 1 .. 3 : e.tag[k] = IF k = i THEN x[1] ELSE r.tag[k]
  BY <1>60 DEF Retags
<1>7. Kept(s, e)
  BY <1>5, <1>6 DEF Kept
<1>8. Fits(e, i) /\ Value(e, i) = x
  <2>1. CASE x[1] = "small"
    BY <1>5, <1>6, <2>1 DEF Fits, Value, Has, NoType, Stored
  <2>2. CASE x[1] = "big"
    <3>1. e.tag[i] = "big" /\ e.cell[i] = <<p>> /\ e.heap[p] = x /\ e.cell[i][1] = p
      BY <1>2, <1>5, <1>6, <2>2
    <3> QED BY <1>2, <2>2, <3>1 DEF Fits, InHeap, Value, Has, NoType, Stored
  <2> QED BY <1>3, <2>1, <2>2
<1>9. ASSUME NEW k \in 1 .. 3, k # i PROVE Fits(e, k) /\ Value(e, k) = Value(s, k)
  <2>1. e.tag[k] = s.tag[k] /\ e.cell[k] = s.cell[k]
    BY <1>5, <1>6, <1>9
  <2>2. \A q \in 1 .. MaxHeap : s.tag[k] = "big" /\ s.cell[k] = <<q>> => e.heap[q] = s.heap[q]
    <3> SUFFICES ASSUME NEW q \in 1 .. MaxHeap, s.tag[k] = "big", s.cell[k] = <<q>> PROVE q # p
      BY <1>5, <1>6
    <3>1. PICK z \in 1 .. MaxHeap : InHeap(s, k, z)
      BY DEF Whole, Fits
    <3>2. s.heap[q] # <<>>
      BY <3>1, ThingIs DEF InHeap
    <3> QED BY <1>2, <3>2
  <2> QED BY <2>1, <2>2, Untouched
<1>10. ASSUME NEW k \in 1 .. 3, k # i, s.tag[k] = "big" PROVE s.cell[k] # <<p>>
  <2>1. PICK z \in 1 .. MaxHeap : InHeap(s, k, z)
    BY <1>10 DEF Whole, Fits
  <2>2. s.heap[z] # <<>>
    BY <2>1, ThingIs DEF InHeap
  <2> QED BY <1>2, <2>1, <2>2 DEF InHeap
<1>11. \A j, k \in 1 .. 3 : j # k /\ e.tag[j] = "big" /\ e.tag[k] = "big" => e.cell[j] # e.cell[k]
  BY <1>5, <1>6, <1>10 DEF Whole
<1>12. ASSUME NEW q \in 1 .. MaxHeap, e.heap[q] # <<>>
       PROVE  \E k \in 1 .. 3 : e.tag[k] = "big" /\ e.cell[k] = <<q>>
  <2>1. CASE x[1] = "big" /\ q = p
    BY <1>5, <1>6, <2>1
  <2>2. CASE ~(x[1] = "big" /\ q = p)
    <3>1. s.heap[q] # <<>>
      BY <1>5, <1>6, <1>12, <2>2
    <3>2. PICK k \in 1 .. 3 : s.tag[k] = "big" /\ s.cell[k] = <<q>>
      BY <3>1 DEF Whole
    <3>3. k # i
      BY <3>2
    <3> QED BY <1>5, <1>6, <3>2, <3>3
  <2> QED BY <2>1, <2>2
<1>13. Whole(e)
  BY <1>5, <1>6, <1>8, <1>9, <1>11, <1>12 DEF Whole
<1>14. Holds(s, e, i, x)
  BY <1>5, <1>6, <1>7, <1>8, <1>9, <1>13 DEF Holds
<1> QED BY <1>0, <1>6, <1>14

(* What i holds passes to j, which holds nothing.                          *)
Passes(s, e, i, j) ==
    /\ Whole(e) /\ Kept(s, e) /\ e.inv = s.inv
    /\ \A k \in 1 .. 3 : Value(e, k) = IF k = j THEN Value(s, i) ELSE IF k = i THEN <<>> ELSE Value(s, k)

LEMMA PassedIs ==
    ASSUME NEW s, Whole(s), NEW i \in 1 .. 3, NEW j \in 1 .. 3, i # j, s.tag[j] = "none"
    PROVE  Passes(s, Passed(s, i, j), i, j)
<1> DEFINE r == Construct(s, j, s.cell[i])
           e == Passed(s, i, j)
<1>1. Shaped(s) /\ ~s.torn /\ s.lost = {} /\ s.cell[j] = <<>> /\ s.tag[i] \in Tags
  BY DEF Whole, Fits, Shaped
<1>20. Builds(s, r, j, s.cell[i])
  BY <1>1, ConstructIs
<1>3. e = [r EXCEPT !.cell[i] = <<>>, !.tag[j] = s.tag[i], !.tag[i] = "none"]
  BY DEF Passed, Raw, NoType
<1> HIDE DEF r, e
<1>2. /\ Shaped(r) /\ Kept(s, r) /\ r.tag = s.tag /\ r.inv = s.inv /\ r.heap = s.heap /\ ~r.torn /\ r.lost = {}
      /\ \A k \in 1 .. 3 : r.cell[k] = IF k = j THEN s.cell[i] ELSE s.cell[k]
  BY <1>1, <1>20 DEF Builds
<1>4. DOMAIN r = Fields /\ DOMAIN e = Fields
  BY <1>2, <1>3 DEF Shaped
<1>5. Kept(r, e)
  BY <1>3, <1>4 DEF Kept, Fields
<1>6. /\ e.inv = r.inv /\ e.heap = r.heap /\ e.torn = r.torn /\ e.lost = r.lost
      /\ e.cell = [r.cell EXCEPT ![i] = <<>>]
  BY <1>3, <1>4 DEF Fields
<1>7. e.tag = [[r.tag EXCEPT ![j] = s.tag[i]] EXCEPT ![i] = "none"]
  BY <1>3, <1>4 DEF Fields
<1>8. /\ e.tag \in [1 .. 3 -> Tags]
      /\ \A k \in 1 .. 3 : e.tag[k] = IF k = i THEN "none" ELSE IF k = j THEN s.tag[i] ELSE s.tag[k]
  BY <1>1, <1>2, <1>7 DEF Shaped, Tags
<1>9. /\ e.cell = [k \in 1 .. 3 |-> e.cell[k]]
      /\ \A k \in 1 .. 3 : e.cell[k] = IF k = i THEN <<>> ELSE IF k = j THEN s.cell[i] ELSE s.cell[k]
  BY <1>2, <1>6 DEF Shaped
<1>10. Shaped(e) /\ Kept(s, e) /\ e.inv = s.inv /\ e.heap = s.heap /\ ~e.torn /\ e.lost = {}
  <2>1. Kept(s, e)
    BY <1>2, <1>5 DEF Kept
  <2>2. Shaped(e)
    BY <1>2, <1>4, <1>5, <1>6, <1>8, <1>9 DEF Shaped, Kept
  <2> QED BY <1>1, <1>2, <1>6, <2>1, <2>2
<1>11. Fits(e, i) /\ Value(e, i) = <<>>
  BY <1>8, <1>9 DEF Fits, Value, Has, NoType
<1>12. Fits(e, j) /\ Value(e, j) = Value(s, i)
  <2>1. e.tag[j] = s.tag[i] /\ e.cell[j] = s.cell[i] /\ Fits(s, i)
    BY <1>8, <1>9 DEF Whole
  <2> QED BY <1>10, <2>1 DEF Fits, InHeap, Value, Has, NoType, Stored
<1>13. ASSUME NEW k \in 1 .. 3, k # i, k # j PROVE Fits(e, k) /\ Value(e, k) = Value(s, k)
  <2>1. e.tag[k] = s.tag[k] /\ e.cell[k] = s.cell[k]
    BY <1>8, <1>9, <1>13
  <2> QED BY <1>10, <2>1, Untouched
<1>14. \A h, k \in 1 .. 3 : h # k /\ e.tag[h] = "big" /\ e.tag[k] = "big" => e.cell[h] # e.cell[k]
  BY <1>8, <1>9 DEF Whole
<1>15. ASSUME NEW q \in 1 .. MaxHeap, e.heap[q] # <<>>
       PROVE  \E k \in 1 .. 3 : e.tag[k] = "big" /\ e.cell[k] = <<q>>
  <2>1. PICK k \in 1 .. 3 : s.tag[k] = "big" /\ s.cell[k] = <<q>>
    BY <1>10, <1>15 DEF Whole
  <2>2. k # j
    BY <2>1
  <2>3. CASE k = i
    <3>1. e.tag[j] = "big" /\ e.cell[j] = <<q>>
      BY <1>8, <1>9, <2>1, <2>3
    <3> QED BY <3>1
  <2>4. CASE k # i
    BY <1>8, <1>9, <2>1, <2>2, <2>4
  <2> QED BY <2>3, <2>4
<1>16. Whole(e)
  BY <1>10, <1>11, <1>12, <1>13, <1>14, <1>15 DEF Whole
<1> QED BY <1>10, <1>11, <1>12, <1>13, <1>16 DEF Passes, e

-----------------------------------------------------------------------------

(* The calls of any, told by the values of the holders.                    *)
LEMMA TagOf ==
    ASSUME NEW s, Whole(s), NEW i \in 1 .. 3
    PROVE  /\ s.tag[i] = IF Value(s, i) = <<>> THEN "none" ELSE Value(s, i)[1]
           /\ s.tag[i] = "none" <=> Value(s, i) = <<>>
           /\ Value(s, i) # <<>> => Value(s, i) \in Objects /\ Value(s, i) = Stored(s, i)
BY ValueIs, ThingIs

LEMMA AnyFromIs ==
    ASSUME NEW s, Whole(s), NEW i \in 1 .. 3, NEW x \in Objects
    PROVE  Holds(s, AnyFrom(s, i, x), i, x)
<1> DEFINE r == AnyReset(s, i)
           e == Create(r, i, x)
<1>1. Holds(s, r, i, <<>>)
  BY ResetIs
<1> HIDE DEF r
<1>2. Whole(r) /\ r.tag[i] = "none"
  BY <1>1, TagOf DEF Holds
<1>3. Holds(r, e, i, x)
  BY <1>2, CreateIs
<1> HIDE DEF e
<1>4. Holds(s, e, i, x)
  BY <1>1, <1>3 DEF Holds, Kept
<1> QED BY <1>4 DEF AnyFrom, e, r

LEMMA AnyCopyIs ==
    ASSUME NEW s, Whole(s), NEW i \in 1 .. 3, NEW j \in 1 .. 3, i # j
    PROVE  Holds(s, AnyCopyCtor(s, i, j), i, Value(s, j))
<1> DEFINE r == AnyReset(s, i)
           e == Create(r, i, Stored(r, j))
           c == AnyCopyCtor(s, i, j)
<1>1. Holds(s, r, i, <<>>)
  BY ResetIs
<1>2. Has(s, j) <=> Value(s, j) # <<>>
  BY ValueIs
<1>3. CASE Value(s, j) = <<>>
  <2>1. c = r
    BY <1>2, <1>3 DEF AnyCopyCtor
  <2> QED BY <1>1, <1>3, <2>1
<1>4. CASE Value(s, j) # <<>>
  <2>1. c = e
    BY <1>2, <1>4 DEF AnyCopyCtor, ManageCopy
  <2> HIDE DEF r
  <2>2. Whole(r) /\ r.tag[i] = "none" /\ Value(r, j) = Value(s, j)
    BY <1>1, TagOf DEF Holds
  <2>3. Stored(r, j) = Value(s, j) /\ Value(s, j) \in Objects
    BY <1>4, <2>2, TagOf
  <2>4. Holds(r, e, i, Value(s, j))
    BY <2>2, <2>3, CreateIs
  <2> HIDE DEF e, c
  <2>5. Holds(s, e, i, Value(s, j))
    BY <1>1, <2>4 DEF Holds, Kept
  <2> QED BY <2>1, <2>5 DEF c
<1> QED BY <1>3, <1>4

LEMMA AnyMoveIs ==
    ASSUME NEW s, Whole(s), NEW i \in 1 .. 3, NEW j \in 1 .. 3, i # j
    PROVE  Passes(s, AnyMoveCtor(s, i, j), j, i) /\ Passes(s, AnyMoveAssign(s, i, j), j, i)
<1> DEFINE r == AnyReset(s, i)
           e == Passed(r, j, i)
           m == IF Value(s, j) = <<>> THEN r ELSE e
<1>1. Holds(s, r, i, <<>>)
  BY ResetIs
<1>2. AnyMoveCtor(s, i, j) = m /\ AnyMoveAssign(s, i, j) = m
  BY ValueIs DEF AnyMoveCtor, AnyMoveAssign, ManageSwap
<1> HIDE DEF r
<1>3. Whole(r) /\ r.tag[i] = "none"
  BY <1>1, TagOf DEF Holds
<1>4. Passes(r, e, j, i)
  BY <1>3, PassedIs
<1> HIDE DEF e
<1>5. CASE Value(s, j) = <<>>
  BY <1>1, <1>2, <1>5 DEF Holds, Passes
<1>6. CASE Value(s, j) # <<>>
  <2>1. Passes(s, e, j, i)
    BY <1>1, <1>4 DEF Holds, Passes, Kept
  <2> QED BY <1>2, <1>6, <2>1
<1> QED BY <1>5, <1>6

(* By way of the temporary, which is empty between calls.                  *)
LEMMA ByTemporary ==
    ASSUME NEW s, Whole(s), Value(s, 3) = <<>>, NEW i \in 1 .. 2, NEW c, NEW x, Holds(s, c, 3, x)
    PROVE  Holds(s, AnyReset(AnyMoveAssign(c, i, 3), 3), i, x)
<1> DEFINE m == AnyMoveAssign(c, i, 3)
           e == AnyReset(m, 3)
<1>0. i \in 1 .. 3 /\ 3 \in 1 .. 3 /\ i # 3
  OBVIOUS
<1>1. Whole(c)
  BY DEF Holds
<1>2. Passes(c, m, 3, i)
  BY <1>0, <1>1, AnyMoveIs
<1> HIDE DEF m
<1>3. Whole(m)
  BY <1>2 DEF Passes
<1>4. Holds(m, e, 3, <<>>)
  BY <1>0, <1>3, ResetIs
<1> HIDE DEF e
<1>5. Kept(s, e) /\ e.inv = s.inv /\ Whole(e)
  BY <1>2, <1>4 DEF Holds, Passes, Kept
<1>6. ASSUME NEW k \in 1 .. 3 PROVE Value(e, k) = IF k = i THEN x ELSE Value(s, k)
  <2>1. Value(e, k) = IF k = 3 THEN <<>> ELSE Value(m, k)
    BY <1>4 DEF Holds
  <2>2. Value(m, k) = IF k = i THEN Value(c, 3) ELSE IF k = 3 THEN <<>> ELSE Value(c, k)
    BY <1>2 DEF Passes
  <2>3. Value(c, 3) = x /\ (k # 3 => Value(c, k) = Value(s, k))
    BY <1>0 DEF Holds
  <2> QED BY <1>0, <2>1, <2>2, <2>3
<1> QED BY <1>5, <1>6 DEF Holds, e, m

LEMMA AnyAssignIs ==
    ASSUME NEW s, Whole(s), Value(s, 3) = <<>>, NEW i \in 1 .. 2
    PROVE  /\ \A j \in 1 .. 2 : Holds(s, AnyCopyAssign(s, i, j), i, Value(s, j))
           /\ \A x \in Objects : Holds(s, AnyAssign(s, i, x), i, x)
<1>0. 3 \in 1 .. 3 /\ s.tag[3] = "none" /\ \A j \in 1 .. 2 : j \in 1 .. 3 /\ j # 3
  BY TagOf
<1>1. \A j \in 1 .. 2 : Holds(s, AnyCopyCtor(s, 3, j), 3, Value(s, j))
  BY <1>0, AnyCopyIs
<1>2. \A x \in Objects : Holds(s, Create(s, 3, x), 3, x)
  BY <1>0, CreateIs
<1> QED BY <1>1, <1>2, ByTemporary DEF AnyCopyAssign, AnyAssign, Temp

Exchanges(s, e, i, j) ==
    /\ Whole(e) /\ Kept(s, e)
    /\ \A k \in 1 .. 3 : Value(e, k) = IF k = i THEN Value(s, j) ELSE IF k = j THEN Value(s, i) ELSE Value(s, k)

LEMMA AnySwapIs ==
    ASSUME NEW s, Whole(s), Value(s, 3) = <<>>, NEW i \in 1 .. 2, NEW j \in 1 .. 2
    PROVE  Exchanges(s, AnySwap(s, i, j), i, j) /\ AnySwap(s, i, j).inv = s.inv
<1> DEFINE e == AnySwap(s, i, j)
<1>0. i \in 1 .. 3 /\ j \in 1 .. 3 /\ 3 \in 1 .. 3 /\ i # 3 /\ j # 3
  OBVIOUS
<1>1. (Has(s, i) <=> Value(s, i) # <<>>) /\ (Has(s, j) <=> Value(s, j) # <<>>)
      /\ (s.tag[i] = "none" <=> Value(s, i) = <<>>) /\ (s.tag[j] = "none" <=> Value(s, j) = <<>>) /\ s.tag[3] = "none"
  BY <1>0, ValueIs, TagOf
<1>2. CASE i = j \/ (Value(s, i) = <<>> /\ Value(s, j) = <<>>)
  <2>1. e = s
    BY <1>1, <1>2 DEF AnySwap
  <2> HIDE DEF e
  <2> QED BY <1>2, <2>1 DEF Exchanges, Kept, e
<1>3. CASE i # j /\ Value(s, i) # <<>> /\ Value(s, j) = <<>>
  <2>1. e = Passed(s, i, j)
    BY <1>1, <1>3 DEF AnySwap, ManageSwap
  <2>2. Passes(s, e, i, j)
    BY <1>0, <1>1, <1>3, <2>1, PassedIs
  <2> HIDE DEF e
  <2> QED BY <1>3, <2>2 DEF Exchanges, Passes, e
<1>4. CASE i # j /\ Value(s, i) = <<>> /\ Value(s, j) # <<>>
  <2>1. e = Passed(s, j, i)
    BY <1>1, <1>4 DEF AnySwap, ManageSwap
  <2>2. Passes(s, e, j, i)
    BY <1>0, <1>1, <1>4, <2>1, PassedIs
  <2> HIDE DEF e
  <2> QED BY <1>4, <2>2 DEF Exchanges, Passes, e
<1>5. CASE i # j /\ Value(s, i) # <<>> /\ Value(s, j) # <<>>
  <2> DEFINE b == Passed(s, j, 3)
             c == Passed(b, i, j)
             d == Passed(c, 3, i)
  <2>1. e = d
    BY <1>1, <1>5 DEF AnySwap, ManageSwap, Temp
  <2>2. Passes(s, b, j, 3)
    BY <1>0, <1>1, PassedIs
  <2> HIDE DEF b
  <2>3. Whole(b) /\ b.tag[j] = "none"
    BY <1>0, <2>2, TagOf DEF Passes
  <2>4. Passes(b, c, i, j)
    BY <1>0, <1>5, <2>3, PassedIs
  <2> HIDE DEF c
  <2>5. Whole(c) /\ c.tag[i] = "none"
    BY <1>0, <1>5, <2>4, TagOf DEF Passes
  <2>6. Passes(c, d, 3, i)
    BY <1>0, <2>5, PassedIs
  <2> HIDE DEF d
  <2>7. Whole(d) /\ Kept(s, d) /\ d.inv = s.inv
    BY <2>2, <2>4, <2>6 DEF Passes, Kept
  <2>8. ASSUME NEW k \in 1 .. 3
        PROVE  Value(d, k) = IF k = i THEN Value(s, j) ELSE IF k = j THEN Value(s, i) ELSE Value(s, k)
    <3>1. Value(d, k) = IF k = i THEN Value(c, 3) ELSE IF k = 3 THEN <<>> ELSE Value(c, k)
      BY <2>6 DEF Passes
    <3>2. \A h \in 1 .. 3 : Value(c, h) = IF h = j THEN Value(b, i) ELSE IF h = i THEN <<>> ELSE Value(b, h)
      BY <2>4 DEF Passes
    <3>3. \A h \in 1 .. 3 : Value(b, h) = IF h = 3 THEN Value(s, j) ELSE IF h = j THEN <<>> ELSE Value(s, h)
      BY <2>2 DEF Passes
    <3> QED BY <1>0, <1>5, <3>1, <3>2, <3>3
  <2> HIDE DEF e
  <2> QED BY <2>1, <2>7, <2>8 DEF Exchanges, e
<1> QED BY <1>2, <1>3, <1>4, <1>5

-----------------------------------------------------------------------------

(* The calls of function: the invoker is the one of what is held.          *)
Fitted(s) == Whole(s) /\ \A k \in 1 .. 3 : s.inv[k] = s.tag[k]
Gets(s, e, i, x) == Fitted(e) /\ Kept(s, e) /\ \A k \in 1 .. 3 : Value(e, k) = IF k = i THEN x ELSE Value(s, k)
Takes(s, e, j, i) ==
    /\ Fitted(e) /\ Kept(s, e)
    /\ \A k \in 1 .. 3 : Value(e, k) = IF k = i THEN Value(s, j) ELSE IF k = j THEN <<>> ELSE Value(s, k)

(* The invoker does not matter for what is held.                           *)
LEMMA ReinvokedIs ==
    ASSUME NEW s, NEW e, Whole(s), NEW i \in 1 .. 3, NEW t, Reinvokes(s, e, i, t)
    PROVE  Whole(e) /\ Kept(s, e) /\ e.tag = s.tag /\ \A k \in 1 .. 3 : Value(e, k) = Value(s, k)
<1>1. /\ Shaped(e) /\ Kept(s, e) /\ e.cell = s.cell /\ e.tag = s.tag /\ e.heap = s.heap
      /\ e.torn = s.torn /\ e.lost = s.lost
  BY DEF Reinvokes
<1>2. \A k \in 1 .. 3 : Fits(e, k) /\ Value(e, k) = Value(s, k)
  BY <1>1, Untouched
<1>3. Whole(e)
  BY <1>1, <1>2 DEF Whole
<1> QED BY <1>1, <1>2, <1>3

LEMMA Refitted ==
    ASSUME NEW s, Fitted(s), NEW i \in 1 .. 3, NEW x, NEW c, Holds(s, c, i, x), NEW t, t = c.tag[i],
           NEW e, Reinvokes(c, e, i, t)
    PROVE  Gets(s, e, i, x)
<1>1. Whole(s) /\ Whole(c) /\ Kept(s, c) /\ c.inv = s.inv
  BY DEF Fitted, Holds
<1>2. Whole(e) /\ Kept(c, e) /\ e.tag = c.tag /\ \A k \in 1 .. 3 : Value(e, k) = Value(c, k)
  BY <1>1, ReinvokedIs
<1>3. ASSUME NEW k \in 1 .. 3, k # i PROVE c.tag[k] = s.tag[k]
  <2>1. Value(c, k) = Value(s, k)
    BY <1>3 DEF Holds
  <2> QED BY <1>1, <2>1, TagOf
<1>4. \A k \in 1 .. 3 : e.inv[k] = e.tag[k]
  BY <1>1, <1>2, <1>3 DEF Reinvokes, Fitted
<1>5. Fitted(e) /\ Kept(s, e)
  BY <1>1, <1>2, <1>4 DEF Fitted, Kept
<1> QED BY <1>2, <1>5 DEF Gets, Holds

LEMMA FnEndedIs ==
    ASSUME NEW s, Fitted(s), NEW i \in 1 .. 3
    PROVE  Gets(s, FnEnded(s, i), i, <<>>)
<1> DEFINE c == AnyReset(s, i)
           e == [c EXCEPT !.inv[i] = "none"]
<1>1. Holds(s, c, i, <<>>)
  BY ResetIs DEF Fitted
<1> HIDE DEF c
<1>2. Whole(c) /\ c.tag[i] = "none" /\ Shaped(c)
  BY <1>1, TagOf DEF Holds, Whole
<1>3. Reinvokes(c, e, i, "none")
  BY <1>2, InvIs DEF Tags
<1> HIDE DEF e
<1>4. Gets(s, e, i, <<>>)
  BY <1>1, <1>2, <1>3, Refitted
<1> QED BY <1>4 DEF FnEnded, NoType, c, e

LEMMA FnCreatedIs ==
    ASSUME NEW s, Fitted(s), NEW i \in 1 .. 3, Value(s, i) = <<>>, NEW x \in Objects
    PROVE  Gets(s, FnCreated(s, i, x), i, x)
<1> DEFINE c == Create(s, i, x)
           e == [c EXCEPT !.inv[i] = x[1]]
<1>1. Whole(s) /\ s.tag[i] = "none"
  BY TagOf DEF Fitted
<1>2. Holds(s, c, i, x) /\ c.tag[i] = x[1]
  BY <1>1, CreateIs
<1> HIDE DEF c
<1>3. Shaped(c) /\ x[1] \in Tags
  BY <1>2, ThingIs DEF Holds, Whole, Tags
<1>4. Reinvokes(c, e, i, x[1])
  BY <1>3, InvIs
<1> HIDE DEF e
<1>5. Gets(s, e, i, x)
  BY <1>2, <1>4, Refitted
<1> QED BY <1>5 DEF FnCreated, c, e

LEMMA FnFromIs ==
    ASSUME NEW s, Fitted(s), NEW i \in 1 .. 3, NEW x \in Objects \cup {<<>>}
    PROVE  Gets(s, FnFrom(s, i, x), i, x)
<1> DEFINE c == FnEnded(s, i)
           e == FnCreated(c, i, x)
<1>1. Gets(s, c, i, <<>>)
  BY FnEndedIs
<1> HIDE DEF c
<1>2. CASE x = <<>>
  BY <1>1, <1>2 DEF FnFrom, Raw, c
<1>3. CASE x # <<>>
  <2>1. Fitted(c) /\ Value(c, i) = <<>> /\ x \in Objects
    BY <1>1, <1>3 DEF Gets
  <2>2. Gets(c, e, i, x)
    BY <2>1, FnCreatedIs
  <2> HIDE DEF e
  <2>3. Gets(s, e, i, x)
    BY <1>1, <2>2 DEF Gets, Kept
  <2> QED BY <1>3, <2>3 DEF FnFrom, Raw, c, e
<1> QED BY <1>2, <1>3

LEMMA FnCopyIs ==
    ASSUME NEW s, Fitted(s), NEW i \in 1 .. 3, NEW j \in 1 .. 3, i # j
    PROVE  Gets(s, FnCopyCtor(s, i, j), i, Value(s, j))
<1> DEFINE r == FnEnded(s, i)
           c == Create(r, i, Stored(r, j))
           t == s.inv[j]
           e == [c EXCEPT !.inv[i] = t]
           f == FnCopyCtor(s, i, j)
<1>1. Gets(s, r, i, <<>>)
  BY FnEndedIs
<1>2. /\ Has(s, j) <=> Value(s, j) # <<>>
      /\ s.inv[j] = IF Value(s, j) = <<>> THEN "none" ELSE Value(s, j)[1]
      /\ Value(s, j) # <<>> => Value(s, j) \in Objects
  BY ValueIs, TagOf DEF Fitted
<1>3. CASE Value(s, j) = <<>>
  <2>1. f = r
    BY <1>2, <1>3 DEF FnCopyCtor
  <2> QED BY <1>1, <1>3, <2>1
<1>4. CASE Value(s, j) # <<>>
  <2>1. f = e
    BY <1>2, <1>4 DEF FnCopyCtor, ManageCopy
  <2> HIDE DEF r, f
  <2>2. Fitted(r) /\ Whole(r) /\ r.tag[i] = "none" /\ Value(r, j) = Value(s, j)
    BY <1>1, TagOf DEF Gets, Fitted
  <2>3. Stored(r, j) = Value(s, j) /\ Value(s, j) \in Objects
    BY <1>4, <2>2, TagOf
  <2>4. Holds(r, c, i, Value(s, j)) /\ c.tag[i] = Value(s, j)[1]
    BY <2>2, <2>3, CreateIs
  <2>5. t = c.tag[i] /\ t \in Tags
    BY <1>2, <1>4, <2>4, ThingIs DEF Tags
  <2> HIDE DEF c, t
  <2>6. Reinvokes(c, e, i, t)
    BY <2>4, <2>5, InvIs DEF Holds, Whole
  <2> HIDE DEF e
  <2>7. Gets(r, e, i, Value(s, j))
    BY <2>2, <2>4, <2>5, <2>6, Refitted
  <2>8. Gets(s, e, i, Value(s, j))
    BY <1>1, <2>7 DEF Gets, Kept
  <2> QED BY <2>1, <2>8 DEF f
<1> QED BY <1>3, <1>4

LEMMA FnMoveIs ==
    ASSUME NEW s, Fitted(s), NEW i \in 1 .. 3, NEW j \in 1 .. 3, i # j
    PROVE  Takes(s, FnMoveCtor(s, i, j), j, i)
<1> DEFINE r == FnEnded(s, i)
           c == Passed(r, j, i)
           t == s.inv[j]
           d == [c EXCEPT !.inv[i] = t]
           e == [d EXCEPT !.inv[j] = "none"]
           f == FnMoveCtor(s, i, j)
<1>1. Gets(s, r, i, <<>>)
  BY FnEndedIs
<1>2. (Has(s, j) <=> Value(s, j) # <<>>) /\ t = (IF Value(s, j) = <<>> THEN "none" ELSE Value(s, j)[1]) /\ t \in Tags
  BY ValueIs, TagOf DEF Fitted
<1>3. CASE Value(s, j) = <<>>
  <2>1. f = r
    BY <1>2, <1>3 DEF FnMoveCtor
  <2> HIDE DEF f, r
  <2> QED BY <1>1, <1>3, <2>1 DEF Gets, Takes, f
<1>4. CASE Value(s, j) # <<>>
  <2>1. f = [c EXCEPT !.inv[i] = t, !.inv[j] = "none"]
    BY <1>2, <1>4 DEF FnMoveCtor, NoType
  <2> HIDE DEF r, f, t
  <2>2. Fitted(r) /\ Whole(r) /\ r.tag[i] = "none"
    BY <1>1, TagOf DEF Gets, Fitted
  <2>3. Passes(r, c, j, i)
    BY <2>2, PassedIs
  <2> HIDE DEF c
  <2>4. f = e
    BY <2>1
  <2>5. Whole(c) /\ Kept(s, c) /\ Shaped(c) /\ c.inv = r.inv
        /\ \A k \in 1 .. 3 : Value(c, k) = IF k = i THEN Value(s, j) ELSE IF k = j THEN <<>> ELSE Value(s, k)
    BY <1>1, <2>3 DEF Gets, Passes, Kept, Whole
  <2>6. Reinvokes(c, d, i, t)
    BY <1>2, <2>5, InvIs
  <2> HIDE DEF d
  <2>7. Whole(d) /\ Kept(c, d) /\ d.tag = c.tag /\ \A k \in 1 .. 3 : Value(d, k) = Value(c, k)
    BY <2>5, <2>6, ReinvokedIs
  <2>8. Reinvokes(d, e, j, "none")
    BY <2>7, InvIs DEF Whole, Tags
  <2> HIDE DEF e
  <2>9. Whole(e) /\ Kept(d, e) /\ e.tag = d.tag /\ \A k \in 1 .. 3 : Value(e, k) = Value(d, k)
    BY <2>7, <2>8, ReinvokedIs
  <2>10. ASSUME NEW k \in 1 .. 3 PROVE e.inv[k] = e.tag[k]
    <3>1. e.tag[k] = IF Value(e, k) = <<>> THEN "none" ELSE Value(e, k)[1]
      BY <2>9, TagOf
    <3>2. r.inv[k] = IF Value(r, k) = <<>> THEN "none" ELSE Value(r, k)[1]
      BY <2>2, TagOf DEF Fitted
    <3>3. e.inv[k] = IF k = j THEN "none" ELSE IF k = i THEN t ELSE r.inv[k]
      BY <2>5, <2>6, <2>8 DEF Reinvokes
    <3>4. Value(e, k) = Value(c, k) /\ (k # i => Value(r, k) = Value(s, k))
      BY <1>1, <2>7, <2>9 DEF Gets
    <3> QED BY <1>2, <2>5, <3>1, <3>2, <3>3, <3>4
  <2>11. Fitted(e) /\ Kept(s, e)
    BY <2>5, <2>7, <2>9, <2>10 DEF Fitted, Kept
  <2>12. Takes(s, e, j, i)
    BY <2>5, <2>7, <2>9, <2>11 DEF Takes
  <2> QED BY <2>4, <2>12 DEF f
<1> QED BY <1>3, <1>4

LEMMA FnSwapIs ==
    ASSUME NEW s, Fitted(s), NEW i \in 1 .. 3, NEW j \in 1 .. 3
    PROVE  Exchanges(s, FnSwap(s, i, j), i, j) /\ Fitted(FnSwap(s, i, j))
<1> DEFINE e == FnSwap(s, i, j)
           other(k) == IF k = i THEN j ELSE IF k = j THEN i ELSE k
<1>1. Shaped(s) /\ ~s.torn /\ s.lost = {} /\ Whole(s)
  BY DEF Fitted, Whole
<1>2. DOMAIN s = Fields /\ DOMAIN e = Fields
  BY <1>1 DEF Shaped, FnSwap
<1>3. Kept(s, e)
  BY <1>2 DEF Kept, Fields, FnSwap
<1>4. e.heap = s.heap /\ e.torn = s.torn /\ e.lost = s.lost
  BY <1>2 DEF Fields, FnSwap
<1>5. e.cell = [[s.cell EXCEPT ![i] = s.cell[j]] EXCEPT ![j] = s.cell[i]]
  BY <1>2 DEF Fields, FnSwap
<1>6. e.tag = [[s.tag EXCEPT ![i] = s.tag[j]] EXCEPT ![j] = s.tag[i]]
  BY <1>2 DEF Fields, FnSwap
<1>7. e.inv = [[s.inv EXCEPT ![i] = s.inv[j]] EXCEPT ![j] = s.inv[i]]
  BY <1>2 DEF Fields, FnSwap
<1> HIDE DEF e
<1>8. e.cell = [k \in 1 .. 3 |-> e.cell[k]] /\ \A k \in 1 .. 3 : e.cell[k] = s.cell[other(k)]
  BY <1>1, <1>5 DEF Shaped
<1>9. e.tag \in [1 .. 3 -> Tags] /\ \A k \in 1 .. 3 : e.tag[k] = s.tag[other(k)]
  BY <1>1, <1>6 DEF Shaped
<1>10. e.inv \in [1 .. 3 -> Tags] /\ \A k \in 1 .. 3 : e.inv[k] = s.inv[other(k)]
  BY <1>1, <1>7 DEF Shaped
<1>11. Shaped(e)
  BY <1>1, <1>2, <1>3, <1>4, <1>8, <1>9, <1>10 DEF Shaped, Kept
<1>12. \A k \in 1 .. 3 : other(k) \in 1 .. 3 /\ other(other(k)) = k
  OBVIOUS
<1>13. ASSUME NEW k \in 1 .. 3 PROVE Fits(e, k) /\ Value(e, k) = Value(s, other(k))
  <2> DEFINE h == other(k)
  <2>1. e.tag[k] = s.tag[h] /\ e.cell[k] = s.cell[h] /\ Fits(s, h)
    BY <1>1, <1>8, <1>9, <1>12 DEF Whole
  <2> HIDE DEF h
  <2>2. Fits(e, k) /\ Value(e, k) = Value(s, h)
    BY <1>4, <2>1 DEF Fits, InHeap, Value, Has, NoType, Stored
  <2> QED BY <2>2 DEF h
<1>14. ASSUME NEW g \in 1 .. 3, NEW k \in 1 .. 3, g # k, e.tag[g] = "big", e.tag[k] = "big" PROVE e.cell[g] # e.cell[k]
  <2>1. other(g) # other(k)
    BY <1>12, <1>14
  <2> HIDE DEF other
  <2> QED BY <1>1, <1>8, <1>9, <1>12, <1>14, <2>1 DEF Whole
<1>15. ASSUME NEW q \in 1 .. MaxHeap, e.heap[q] # <<>>
       PROVE  \E k \in 1 .. 3 : e.tag[k] = "big" /\ e.cell[k] = <<q>>
  <2>1. PICK k \in 1 .. 3 : s.tag[k] = "big" /\ s.cell[k] = <<q>>
    BY <1>1, <1>4, <1>15 DEF Whole
  <2> HIDE DEF other
  <2>2. other(k) \in 1 .. 3 /\ e.tag[other(k)] = "big" /\ e.cell[other(k)] = <<q>>
    BY <1>8, <1>9, <1>12, <2>1
  <2> QED BY <2>2
<1>16. Whole(e)
  BY <1>1, <1>4, <1>11, <1>13, <1>14, <1>15 DEF Whole
<1>17. \A k \in 1 .. 3 : e.inv[k] = e.tag[k]
  BY <1>9, <1>10, <1>12 DEF Fitted
<1> QED BY <1>3, <1>13, <1>16, <1>17 DEF Exchanges, Fitted, e

(* By way of the temporary, which takes away what was held.                *)
LEMMA FnAssignIs ==
    ASSUME NEW s, Fitted(s), Value(s, 3) = <<>>, NEW i \in 1 .. 2
    PROVE  /\ \A x \in Objects : Gets(s, FnAssign(s, i, x), i, x)
           /\ \A j \in 1 .. 2 : Gets(s, FnCopyAssign(s, i, j), i, Value(s, j))
           /\ \A j \in 1 .. 2 : IF i = j THEN Gets(s, FnMoveAssign(s, i, j), i, Value(s, j))
                               ELSE Takes(s, FnMoveAssign(s, i, j), j, i)
<1>0. 3 \in 1 .. 3 /\ i \in 1 .. 3 /\ i # 3 /\ \A j \in 1 .. 2 : j \in 1 .. 3 /\ j # 3
  OBVIOUS
<1>1. ASSUME NEW c, Fitted(c), Kept(s, c)
      PROVE  LET e == FnEnded(FnSwap(c, 3, i), 3)
             IN  /\ Fitted(e) /\ Kept(s, e)
                 /\ \A k \in 1 .. 3 : Value(e, k) = IF k = 3 THEN <<>> ELSE IF k = i THEN Value(c, 3) ELSE Value(c, k)
  <2> DEFINE m == FnSwap(c, 3, i)
             e == FnEnded(m, 3)
  <2>1. Exchanges(c, m, 3, i) /\ Fitted(m)
    BY <1>0, <1>1, FnSwapIs
  <2> HIDE DEF m
  <2>2. Gets(m, e, 3, <<>>)
    BY <1>0, <2>1, FnEndedIs
  <2> HIDE DEF e
  <2>3. Fitted(e) /\ Kept(s, e)
    BY <1>1, <2>1, <2>2 DEF Gets, Exchanges, Kept
  <2>4. \A k \in 1 .. 3 : Value(e, k) = IF k = 3 THEN <<>> ELSE IF k = i THEN Value(c, 3) ELSE Value(c, k)
    BY <1>0, <2>1, <2>2 DEF Gets, Exchanges
  <2> QED BY <2>3, <2>4 DEF e, m
<1>2. ASSUME NEW c, NEW x, Gets(s, c, 3, x) PROVE Gets(s, FnEnded(FnSwap(c, 3, i), 3), i, x)
  <2> DEFINE e == FnEnded(FnSwap(c, 3, i), 3)
  <2>1. Fitted(c) /\ Kept(s, c) /\ \A k \in 1 .. 3 : Value(c, k) = IF k = 3 THEN x ELSE Value(s, k)
    BY <1>2 DEF Gets
  <2>2. /\ Fitted(e) /\ Kept(s, e)
        /\ \A k \in 1 .. 3 : Value(e, k) = IF k = 3 THEN <<>> ELSE IF k = i THEN Value(c, 3) ELSE Value(c, k)
    BY <1>1, <2>1
  <2> HIDE DEF e
  <2>3. \A k \in 1 .. 3 : Value(e, k) = IF k = i THEN x ELSE Value(s, k)
    BY <1>0, <2>1, <2>2
  <2> QED BY <2>2, <2>3 DEF Gets, e
<1>3. \A x \in Objects : Gets(s, FnAssign(s, i, x), i, x)
  BY <1>0, <1>2, FnCreatedIs DEF FnAssign, Temp
<1>4. \A j \in 1 .. 2 : Gets(s, FnCopyAssign(s, i, j), i, Value(s, j))
  BY <1>0, <1>2, FnCopyIs DEF FnCopyAssign, Temp
<1>5. ASSUME NEW j \in 1 .. 2
      PROVE  IF i = j THEN Gets(s, FnMoveAssign(s, i, j), i, Value(s, j))
             ELSE Takes(s, FnMoveAssign(s, i, j), j, i)
  <2> DEFINE c == FnMoveCtor(s, 3, j)
             e == FnEnded(FnSwap(c, 3, i), 3)
  <2>1. Takes(s, c, j, 3)
    BY <1>0, FnMoveIs
  <2> HIDE DEF c
  <2>2. /\ Fitted(e) /\ Kept(s, e)
        /\ \A k \in 1 .. 3 : Value(e, k) = IF k = 3 THEN <<>> ELSE IF k = i THEN Value(c, 3) ELSE Value(c, k)
    BY <1>1, <2>1 DEF Takes
  <2>3. FnMoveAssign(s, i, j) = e
    BY DEF FnMoveAssign, Temp, c
  <2> HIDE DEF e
  <2>4. \A k \in 1 .. 3 : Value(c, k) = IF k = 3 THEN Value(s, j) ELSE IF k = j THEN <<>> ELSE Value(s, k)
    BY <2>1 DEF Takes
  <2>5. CASE i = j
    BY <1>0, <2>2, <2>3, <2>4, <2>5 DEF Gets
  <2>6. CASE i # j
    BY <1>0, <2>2, <2>3, <2>4, <2>6 DEF Takes
  <2> QED BY <2>5, <2>6
<1> QED BY <1>0, <1>3, <1>4, <1>5

-----------------------------------------------------------------------------

(* optional. What an optional has, and where it may have built something   *)
(* that it does not know of: f are such objects.                           *)
Got(s, i) == IF s.tag[i] = "none" THEN <<>> ELSE s.cell[i]
Unseen(f) == {<<>>, Default} \cup f
OptWell(s, f) ==
    /\ Shaped(s) /\ ~s.torn /\ s.lost \subseteq {Default} \cup f
    /\ \A i \in 1 .. 3 :
           /\ s.tag[i] = "none" => s.cell[i] \in Unseen(f)
           /\ s.tag[i] # "none" => s.tag[i] = "small" /\ s.cell[i] \in Smalls
OptGets(s, e, i, x, f) ==
    OptWell(e, f) /\ Kept(s, e) /\ \A k \in 1 .. 3 : Got(e, k) = IF k = i THEN x ELSE Got(s, k)

LEMMA SmallIs ==
    ASSUME NEW x \in Smalls
    PROVE  x \in Objects /\ x # <<>> /\ x[1] = "small" /\ x[2] \in Numbers
BY ThingIs DEF Smalls, Objects, Types

LEMMA HasIs ==
    ASSUME NEW s, NEW f, OptWell(s, f), NEW i \in 1 .. 3
    PROVE  /\ Has(s, i) <=> Got(s, i) # <<>>
           /\ s.tag[i] = "none" <=> Got(s, i) = <<>>
           /\ Got(s, i) # <<>> => Got(s, i) = s.cell[i] /\ s.tag[i] = "small" /\ Got(s, i) \in Smalls
BY SmallIs DEF OptWell, Got, Has, NoType

(* Built where nothing is that somebody knows of: it is not noticed.       *)
LEMMA UnseenIs ==
    ASSUME NEW s, NEW f, OptWell(s, f), NEW i \in 1 .. 3, s.tag[i] = "none", NEW x \in Unseen(f)
    PROVE  OptGets(s, Construct(s, i, x), i, <<>>, f)
<1> DEFINE e == Construct(s, i, x)
<1>1. Shaped(s) /\ s.cell[i] \in Unseen(f)
  BY DEF OptWell
<1>2. Builds(s, e, i, x)
  BY <1>1, ConstructIs
<1> HIDE DEF e
<1>3. e.lost \subseteq {Default} \cup f
  BY <1>1, <1>2 DEF Builds, Unseen, OptWell
<1>4. OptWell(e, f)
  BY <1>2, <1>3 DEF Builds, OptWell
<1>5. \A k \in 1 .. 3 : Got(e, k) = IF k = i THEN <<>> ELSE Got(s, k)
  BY <1>2 DEF Builds, Got
<1> QED BY <1>2, <1>4, <1>5 DEF OptGets, Builds, e

LEMMA OptResetIs ==
    ASSUME NEW s, NEW f, OptWell(s, f), NEW i \in 1 .. 3
    PROVE  OptGets(s, OptReset(s, i), i, <<>>, f)
<1> DEFINE d == Destroy(s, i, "small")
           e == [d EXCEPT !.tag[i] = "none"]
<1>1. CASE Got(s, i) = <<>>
  BY <1>1, HasIs DEF OptReset, OptGets, Kept
<1>2. CASE Got(s, i) # <<>>
  <2>1. OptReset(s, i) = e
    BY <1>2, HasIs DEF OptReset, NoType
  <2>2. s.cell[i] # <<>> /\ s.cell[i][1] = "small" /\ Shaped(s) /\ ~s.torn
    BY <1>2, HasIs, SmallIs DEF OptWell
  <2>3. Unbuilds(s, d, i)
    BY <2>2, DestroyIs
  <2> HIDE DEF d
  <2>4. Retags(d, e, i, "none")
    BY <2>3, TagIs DEF Unbuilds, Tags
  <2> HIDE DEF e
  <2>5. /\ Shaped(e) /\ Kept(s, e) /\ ~e.torn /\ e.lost = s.lost
        /\ \A k \in 1 .. 3 :
               /\ e.tag[k] = IF k = i THEN "none" ELSE s.tag[k]
               /\ e.cell[k] = IF k = i THEN <<>> ELSE s.cell[k]
    BY <2>3, <2>4 DEF Unbuilds, Retags, Kept
  <2>6. OptWell(e, f)
    BY <2>5 DEF OptWell, Unseen
  <2>7. \A k \in 1 .. 3 : Got(e, k) = IF k = i THEN <<>> ELSE Got(s, k)
    BY <2>5 DEF Got
  <2> QED BY <2>1, <2>5, <2>6, <2>7 DEF OptGets
<1> QED BY <1>1, <1>2

LEMMA OptFlaggedIs ==
    ASSUME NEW s, NEW f, OptWell(s, f), NEW i \in 1 .. 3, s.tag[i] = "none", NEW x \in Smalls
    PROVE  OptGets(s, OptFlagged(s, i, x), i, x, f)
<1> DEFINE c == Construct(s, i, x)
           e == [c EXCEPT !.tag[i] = "small"]
<1>1. Shaped(s) /\ s.cell[i] \in Unseen(f)
  BY DEF OptWell
<1>2. Builds(s, c, i, x)
  BY <1>1, ConstructIs
<1> HIDE DEF c
<1>3. c.lost \subseteq {Default} \cup f
  BY <1>1, <1>2 DEF Builds, Unseen, OptWell
<1>4. Retags(c, e, i, "small")
  BY <1>2, TagIs DEF Builds, Tags
<1> HIDE DEF e
<1>5. /\ Shaped(e) /\ Kept(s, e) /\ ~e.torn /\ e.lost = c.lost
      /\ \A k \in 1 .. 3 :
             /\ e.tag[k] = IF k = i THEN "small" ELSE s.tag[k]
             /\ e.cell[k] = IF k = i THEN x ELSE s.cell[k]
  BY <1>2, <1>4 DEF Builds, Retags, Kept, OptWell
<1>6. OptWell(e, f)
  BY <1>3, <1>5 DEF OptWell
<1>7. \A k \in 1 .. 3 : Got(e, k) = IF k = i THEN x ELSE Got(s, k)
  BY <1>5 DEF Got
<1> QED BY <1>5, <1>6, <1>7 DEF OptGets, OptFlagged, c, e

(* The object of an optional is assigned to.                               *)
LEMMA OptCellIs ==
    ASSUME NEW s, NEW f, OptWell(s, f), NEW i \in 1 .. 3, s.tag[i] # "none", NEW x \in Smalls
    PROVE  OptGets(s, [s EXCEPT !.cell[i] = x], i, x, f)
<1> DEFINE e == [s EXCEPT !.cell[i] = x]
<1>1. Shaped(s)
  BY DEF OptWell
<1>2. DOMAIN s = Fields /\ DOMAIN e = Fields
  BY <1>1 DEF Shaped
<1>3. Kept(s, e)
  BY <1>2 DEF Kept, Fields
<1>4. /\ e.tag = s.tag /\ e.inv = s.inv /\ e.heap = s.heap /\ e.torn = s.torn /\ e.lost = s.lost
      /\ e.cell = [s.cell EXCEPT ![i] = x]
  BY <1>2 DEF Fields
<1> HIDE DEF e
<1>5. /\ e.cell = [k \in 1 .. 3 |-> e.cell[k]]
      /\ \A k \in 1 .. 3 : e.cell[k] = IF k = i THEN x ELSE s.cell[k]
  BY <1>1, <1>4 DEF Shaped
<1>6. Shaped(e)
  BY <1>1, <1>2, <1>3, <1>4, <1>5 DEF Shaped, Kept
<1>7. OptWell(e, f)
  BY <1>4, <1>5, <1>6 DEF OptWell
<1>8. \A k \in 1 .. 3 : Got(e, k) = IF k = i THEN x ELSE Got(s, k)
  BY <1>4, <1>5 DEF Got
<1> QED BY <1>3, <1>7, <1>8 DEF OptGets, e

-----------------------------------------------------------------------------

LEMMA OptMakingIs ==
    ASSUME NEW s, NEW f, OptWell(s, f), NEW i \in 1 .. 3
    PROVE  /\ OptGets(s, OptNone(s, i), i, <<>>, f)
           /\ \A x \in f : OptGets(s, OptFromValue(s, i, x), i, <<>>, f)
           /\ \A x \in Smalls :
                  /\ OptGets(s, OptInPlace(s, i, x), i, x, f)
                  /\ OptGets(s, OptEmplace(s, i, x), i, x, f)
<1> DEFINE r == OptReset(s, i)
           d == OptEnded(s, i)
<1>1. OptGets(s, r, i, <<>>, f)
  BY OptResetIs
<1>2. d = Construct(r, i, <<>>)
  BY DEF OptEnded, Construct, Raw
<1> HIDE DEF r, d
<1>3. OptWell(r, f) /\ r.tag[i] = "none"
  BY <1>1, HasIs DEF OptGets
<1>4. OptGets(r, d, i, <<>>, f)
  BY <1>2, <1>3, UnseenIs DEF Unseen
<1>5. OptWell(d, f) /\ d.tag[i] = "none" /\ OptGets(s, d, i, <<>>, f)
  <2>1. OptWell(d, f) /\ d.tag[i] = "none"
    BY <1>4, HasIs DEF OptGets
  <2> QED BY <1>1, <1>4, <2>1 DEF OptGets, Kept
<1>6. ASSUME NEW x \in {Default} \cup f PROVE OptGets(s, Construct(d, i, x), i, <<>>, f)
  <2> DEFINE e == Construct(d, i, x)
  <2>1. OptGets(d, e, i, <<>>, f)
    BY <1>5, UnseenIs DEF Unseen
  <2> HIDE DEF e
  <2>2. OptGets(s, e, i, <<>>, f)
    BY <1>5, <2>1 DEF OptGets, Kept
  <2> QED BY <2>2 DEF e
<1>7. ASSUME NEW x \in Smalls, NEW c, OptGets(s, c, i, <<>>, f) PROVE OptGets(s, OptFlagged(c, i, x), i, x, f)
  <2> DEFINE e == OptFlagged(c, i, x)
  <2>1. OptWell(c, f) /\ c.tag[i] = "none"
    BY <1>7, HasIs DEF OptGets
  <2>2. OptGets(c, e, i, x, f)
    BY <2>1, OptFlaggedIs
  <2> HIDE DEF e
  <2>3. OptGets(s, e, i, x, f)
    BY <1>7, <2>2 DEF OptGets, Kept
  <2> QED BY <2>3 DEF e
<1>8. OptGets(s, OptNone(s, i), i, <<>>, f)
  BY <1>6 DEF OptNone, d
<1>9. \A x \in f : OptGets(s, OptFromValue(s, i, x), i, <<>>, f)
  BY <1>6 DEF OptFromValue, d
<1>10. \A x \in Smalls : OptGets(s, OptInPlace(s, i, x), i, x, f)
  BY <1>5, <1>7 DEF OptInPlace, d
<1>11. \A x \in Smalls : OptGets(s, OptEmplace(s, i, x), i, x, f)
  BY <1>1, <1>7 DEF OptEmplace, r
<1> QED BY <1>8, <1>9, <1>10, <1>11

LEMMA OptMore ==
    ASSUME NEW s, NEW f, OptWell(s, f), NEW x
    PROVE  OptWell(s, f \cup {x})
BY DEF OptWell, Unseen

LEMMA OptThen ==
    ASSUME NEW s, NEW c, NEW e, NEW f, NEW i, NEW x, NEW y, OptGets(s, c, i, x, f), OptGets(c, e, i, y, f)
    PROVE  OptGets(s, e, i, y, f)
BY DEF OptGets, Kept

OptTakes(s, e, j, i, f) ==
    /\ OptWell(e, f) /\ Kept(s, e)
    /\ \A k \in 1 .. 3 : Got(e, k) = IF k = i THEN Got(s, j) ELSE IF k = j THEN <<>> ELSE Got(s, k)

LEMMA OptCopyIs ==
    ASSUME NEW s, NEW f, OptWell(s, f), NEW i \in 1 .. 3, NEW j \in 1 .. 3, i # j
    PROVE  OptGets(s, OptCopyCtor(s, i, j), i, Got(s, j), f)
<1> DEFINE n == OptNone(s, i)
           e == OptFlagged(n, i, s.cell[j])
<1>1. OptGets(s, n, i, <<>>, f)
  BY OptMakingIs
<1> HIDE DEF n
<1>2. CASE Got(s, j) = <<>>
  <2>1. OptCopyCtor(s, i, j) = n
    BY <1>2, HasIs DEF OptCopyCtor, n
  <2> QED BY <1>1, <1>2, <2>1
<1>3. CASE Got(s, j) # <<>>
  <2>1. OptCopyCtor(s, i, j) = e
    BY <1>3, HasIs DEF OptCopyCtor, n
  <2>2. s.cell[j] = Got(s, j) /\ Got(s, j) \in Smalls
    BY <1>3, HasIs
  <2>3. OptWell(n, f) /\ n.tag[i] = "none"
    BY <1>1, HasIs DEF OptGets
  <2>4. OptGets(n, e, i, Got(s, j), f)
    BY <2>2, <2>3, OptFlaggedIs
  <2> HIDE DEF e
  <2> QED BY <1>1, <2>1, <2>4, OptThen
<1> QED BY <1>2, <1>3

LEMMA OptMoveIs ==
    ASSUME NEW s, NEW f, OptWell(s, f), NEW i \in 1 .. 3, NEW j \in 1 .. 3, i # j
    PROVE  OptTakes(s, OptMoveCtor(s, i, j), j, i, f)
<1> DEFINE c == OptCopyCtor(s, i, j)
           e == OptReset(c, j)
<1>1. OptGets(s, c, i, Got(s, j), f)
  BY OptCopyIs
<1>2. CASE Got(s, j) = <<>>
  <2>1. OptMoveCtor(s, i, j) = c
    BY <1>2, HasIs DEF OptMoveCtor, OptCopyCtor
  <2> HIDE DEF c
  <2> QED BY <1>1, <1>2, <2>1 DEF OptGets, OptTakes
<1>3. CASE Got(s, j) # <<>>
  <2>1. OptMoveCtor(s, i, j) = e
    BY <1>3, HasIs DEF OptMoveCtor
  <2> HIDE DEF c
  <2>2. OptGets(c, e, j, <<>>, f)
    BY <1>1, OptResetIs DEF OptGets
  <2> HIDE DEF e
  <2>3. OptWell(e, f) /\ Kept(s, e)
    BY <1>1, <2>2 DEF OptGets, Kept
  <2>4. \A k \in 1 .. 3 : Got(e, k) = IF k = i THEN Got(s, j) ELSE IF k = j THEN <<>> ELSE Got(s, k)
    BY <1>1, <2>2 DEF OptGets
  <2> QED BY <2>1, <2>3, <2>4 DEF OptTakes
<1> QED BY <1>2, <1>3

LEMMA OptAssignIs ==
    ASSUME NEW s, NEW f, OptWell(s, f), NEW i \in 1 .. 3
    PROVE  /\ \A x \in Smalls : s.tag[i] # "none" => OptGets(s, OptAssignValue(s, i, x), i, x, f)
           /\ \A x \in f : s.tag[i] = "none" => OptGets(s, OptAssignValue(s, i, x), i, <<>>, f)
<1>1. ASSUME NEW x \in Smalls, s.tag[i] # "none" PROVE OptGets(s, OptAssignValue(s, i, x), i, x, f)
  BY <1>1, OptCellIs DEF OptAssignValue, Has, NoType
<1>2. ASSUME NEW x \in f, s.tag[i] = "none" PROVE OptGets(s, OptAssignValue(s, i, x), i, <<>>, f)
  BY <1>2, UnseenIs DEF OptAssignValue, Has, NoType, Unseen
<1> QED BY <1>1, <1>2

LEMMA OptCopyAssignIs ==
    ASSUME NEW s, NEW f, OptWell(s, f), NEW i \in 1 .. 3, NEW j \in 1 .. 3
    PROVE  OptGets(s, OptCopyAssign(s, i, j), i, Got(s, j), f)
<1> DEFINE e == OptCopyAssign(s, i, j)
<1>1. CASE i = j
  BY <1>1 DEF OptCopyAssign, OptGets, Kept
<1>2. CASE i # j /\ Got(s, j) = <<>>
  <2>1. e = OptReset(s, i)
    BY <1>2, HasIs DEF OptCopyAssign
  <2> QED BY <1>2, <2>1, OptResetIs
<1>3. CASE i # j /\ Got(s, j) # <<>> /\ Got(s, i) # <<>>
  <2>1. e = [s EXCEPT !.cell[i] = s.cell[j]]
    BY <1>3, HasIs DEF OptCopyAssign
  <2>2. s.cell[j] = Got(s, j) /\ Got(s, j) \in Smalls /\ s.tag[i] # "none"
    BY <1>3, HasIs
  <2> HIDE DEF e
  <2> QED BY <2>1, <2>2, OptCellIs DEF e
<1>4. CASE i # j /\ Got(s, j) # <<>> /\ Got(s, i) = <<>>
  <2>1. e = OptFlagged(s, i, s.cell[j])
    BY <1>4, HasIs DEF OptCopyAssign
  <2>2. s.cell[j] = Got(s, j) /\ Got(s, j) \in Smalls /\ s.tag[i] = "none"
    BY <1>4, HasIs
  <2> HIDE DEF e
  <2> QED BY <2>1, <2>2, OptFlaggedIs DEF e
<1> QED BY <1>1, <1>2, <1>3, <1>4

LEMMA OptMoveAssignIs ==
    ASSUME NEW s, NEW f, OptWell(s, f), NEW i \in 1 .. 3, NEW j \in 1 .. 3
    PROVE  IF i = j THEN OptGets(s, OptMoveAssign(s, i, j), i, Got(s, j), f)
           ELSE OptTakes(s, OptMoveAssign(s, i, j), j, i, f)
<1> DEFINE c == OptCopyAssign(s, i, j)
           e == OptReset(c, j)
<1>1. OptGets(s, c, i, Got(s, j), f)
  BY OptCopyAssignIs
<1> HIDE DEF c
<1>2. CASE i = j
  <2>1. OptMoveAssign(s, i, j) = c
    BY <1>2 DEF OptMoveAssign, c
  <2> QED BY <1>1, <1>2, <2>1
<1>3. CASE i # j /\ Got(s, j) = <<>>
  <2>1. OptMoveAssign(s, i, j) = c
    BY <1>3, HasIs DEF OptMoveAssign, c
  <2> QED BY <1>1, <1>3, <2>1 DEF OptGets, OptTakes
<1>4. CASE i # j /\ Got(s, j) # <<>>
  <2>1. OptMoveAssign(s, i, j) = e
    BY <1>4, HasIs DEF OptMoveAssign, c
  <2>2. OptGets(c, e, j, <<>>, f)
    BY <1>1, OptResetIs DEF OptGets
  <2> HIDE DEF e
  <2>3. OptWell(e, f) /\ Kept(s, e)
    BY <1>1, <2>2 DEF OptGets, Kept
  <2>4. \A k \in 1 .. 3 : Got(e, k) = IF k = i THEN Got(s, j) ELSE IF k = j THEN <<>> ELSE Got(s, k)
    BY <1>1, <1>4, <2>2 DEF OptGets
  <2> QED BY <1>4, <2>1, <2>3, <2>4 DEF OptTakes
<1> QED BY <1>2, <1>3, <1>4

(* A value on its way through a temporary that does not notice it: the one *)
(* it is assigned to is reset.                                             *)
LEMMA OptScalarIs ==
    ASSUME NEW s, NEW f, OptWell(s, f), NEW i \in 1 .. 2, NEW x \in f
    PROVE  LET e == OptAssignScalar(s, i, x)
           IN  /\ OptWell(e, f) /\ Kept(s, e)
               /\ \A k \in 1 .. 2 : Got(e, k) = IF k = i THEN <<>> ELSE Got(s, k)
<1> DEFINE c == OptFromValue(s, 3, x)
           d == OptMoveAssign(c, i, 3)
           r == OptReset(d, 3)
           e == Construct(r, 3, <<>>)
<1>1. i \in 1 .. 3 /\ 3 \in 1 .. 3 /\ i # 3 /\ OptAssignScalar(s, i, x) = e
  BY DEF OptAssignScalar, OptEnded, Construct, Temp, Raw
<1>2. OptGets(s, c, 3, <<>>, f)
  BY <1>1, OptMakingIs
<1> HIDE DEF c
<1>3. OptTakes(c, d, 3, i, f)
  BY <1>1, <1>2, OptMoveAssignIs DEF OptGets
<1> HIDE DEF d
<1>4. OptGets(d, r, 3, <<>>, f)
  BY <1>1, <1>3, OptResetIs DEF OptTakes
<1> HIDE DEF r
<1>5. OptWell(r, f) /\ r.tag[3] = "none"
  BY <1>1, <1>4, HasIs DEF OptGets
<1>6. OptGets(r, e, 3, <<>>, f)
  BY <1>1, <1>5, UnseenIs DEF Unseen
<1> HIDE DEF e
<1>7. Kept(s, e)
  BY <1>2, <1>3, <1>4, <1>6 DEF OptGets, OptTakes, Kept
<1>8. \A k \in 1 .. 2 : k \in 1 .. 3 /\ k # 3
  OBVIOUS
<1>9. \A k \in 1 .. 2 : Got(e, k) = IF k = i THEN <<>> ELSE Got(s, k)
  BY <1>1, <1>2, <1>3, <1>4, <1>6, <1>8 DEF OptGets, OptTakes
<1> QED BY <1>1, <1>6, <1>7, <1>9 DEF OptGets

OptExchanges(s, e, f) ==
    /\ OptWell(e, f) /\ Kept(s, e)
    /\ Got(e, 1) = Got(s, 2) /\ Got(e, 2) = Got(s, 1) /\ Got(e, 3) = Got(s, 3)

(* A value that one of two has is emplaced in the other, then taken away.  *)
LEMMA OptPassIs ==
    ASSUME NEW s, NEW f, OptWell(s, f), NEW i \in 1 .. 2, NEW j \in 1 .. 2, i # j,
           Got(s, i) # <<>>, Got(s, j) = <<>>
    PROVE  OptExchanges(s, OptReset(OptEmplace(s, j, s.cell[i]), i), f)
<1> DEFINE c == OptEmplace(s, j, s.cell[i])
           e == OptReset(c, i)
<1>0. i \in 1 .. 3 /\ j \in 1 .. 3 /\ 1 \in 1 .. 3 /\ 2 \in 1 .. 3 /\ 3 \in 1 .. 3
  OBVIOUS
<1>1. s.cell[i] = Got(s, i) /\ Got(s, i) \in Smalls
  BY <1>0, HasIs
<1>2. OptGets(s, c, j, Got(s, i), f)
  BY <1>0, <1>1, OptMakingIs
<1> HIDE DEF c
<1>3. OptGets(c, e, i, <<>>, f)
  BY <1>0, <1>2, OptResetIs DEF OptGets
<1> HIDE DEF e
<1>4. OptWell(e, f) /\ Kept(s, e)
  BY <1>2, <1>3 DEF OptGets, Kept
<1>5. \A k \in 1 .. 3 : Got(e, k) = IF k = i THEN <<>> ELSE IF k = j THEN Got(s, i) ELSE Got(s, k)
  BY <1>2, <1>3 DEF OptGets
<1>6. Got(e, i) = <<>> /\ Got(e, j) = Got(s, i) /\ Got(e, 3) = Got(s, 3)
  BY <1>0, <1>5
<1>7. (i = 1 /\ j = 2) \/ (i = 2 /\ j = 1)
  OBVIOUS
<1> QED BY <1>4, <1>6, <1>7 DEF OptExchanges, e, c

LEMMA OptSwapIs ==
    ASSUME NEW s, NEW f, OptWell(s, f)
    PROVE  OptExchanges(s, OptSwap(s), f)
<1> DEFINE a == s.cell[1]
           b == s.cell[2]
           c == [s EXCEPT !.cell[1] = b]
           e == [c EXCEPT !.cell[2] = a]
<1>0. 1 \in 1 .. 3 /\ 2 \in 1 .. 3 /\ 3 \in 1 .. 3 /\ 1 \in 1 .. 2 /\ 2 \in 1 .. 2
  OBVIOUS
<1>1. CASE Got(s, 1) # <<>> /\ Got(s, 2) # <<>>
  <2>1. OptSwap(s) = e
    BY <1>0, <1>1, HasIs DEF OptSwap
  <2>2. a = Got(s, 1) /\ b = Got(s, 2) /\ a \in Smalls /\ b \in Smalls /\ s.tag[1] # "none" /\ s.tag[2] # "none"
    BY <1>0, <1>1, HasIs
  <2> HIDE DEF a, b
  <2>3. OptGets(s, c, 1, b, f)
    BY <1>0, <2>2, OptCellIs
  <2>4. c.tag = s.tag
    BY DEF OptWell, Shaped, Fields
  <2> HIDE DEF c
  <2>5. OptGets(c, e, 2, a, f)
    BY <1>0, <2>2, <2>3, <2>4, OptCellIs DEF OptGets
  <2> HIDE DEF e
  <2>6. Got(e, 1) = b /\ Got(e, 2) = a /\ Got(e, 3) = Got(s, 3)
    BY <1>0, <2>3, <2>5 DEF OptGets
  <2> QED BY <2>1, <2>2, <2>3, <2>5, <2>6 DEF OptGets, OptExchanges, Kept
<1>2. CASE Got(s, 1) = <<>> /\ Got(s, 2) = <<>>
  <2>1. OptSwap(s) = s
    BY <1>0, <1>2, HasIs DEF OptSwap
  <2> QED BY <1>2, <2>1 DEF OptExchanges, Kept
<1>3. CASE Got(s, 1) # <<>> /\ Got(s, 2) = <<>>
  <2>1. OptSwap(s) = OptReset(OptEmplace(s, 2, a), 1)
    BY <1>0, <1>3, HasIs DEF OptSwap
  <2> QED BY <1>0, <1>3, <2>1, OptPassIs
<1>4. CASE Got(s, 1) = <<>> /\ Got(s, 2) # <<>>
  <2>1. OptSwap(s) = OptReset(OptEmplace(s, 1, b), 2)
    BY <1>0, <1>4, HasIs DEF OptSwap
  <2> QED BY <1>0, <1>4, <2>1, OptPassIs
<1> QED BY <1>1, <1>2, <1>3, <1>4

-----------------------------------------------------------------------------

(* What was asked for is noted beside the holders.                         *)
Same(c, e) ==
    /\ Shaped(e) /\ e.kind = c.kind /\ e.tag = c.tag /\ e.inv = c.inv /\ e.cell = c.cell /\ e.heap = c.heap
    /\ e.first = c.first /\ e.lost = c.lost /\ e.torn = c.torn /\ e.known = c.known

LEMMA SameIs ==
    ASSUME NEW c, NEW e, Same(c, e)
    PROVE  /\ Whole(c) => Whole(e)
           /\ Fitted(c) => Fitted(e)
           /\ \A f : OptWell(c, f) => OptWell(e, f)
           /\ \A k : Value(e, k) = Value(c, k) /\ Got(e, k) = Got(c, k)
<1>1. \A k : Fits(c, k) <=> Fits(e, k)
  BY DEF Same, Fits, InHeap
<1>2. Whole(c) => Whole(e)
  BY <1>1 DEF Same, Whole
<1>3. Fitted(c) => Fitted(e)
  BY <1>2 DEF Same, Fitted
<1>4. \A f : OptWell(c, f) => OptWell(e, f)
  BY DEF Same, OptWell
<1>5. \A k : Value(e, k) = Value(c, k) /\ Got(e, k) = Got(c, k)
  BY DEF Same, Value, Got, Has, Stored
<1> QED BY <1>2, <1>3, <1>4, <1>5


LEMMA WantIs ==
    ASSUME NEW c, Shaped(c), NEW w, w = [k \in 1 .. 2 |-> w[k]]
    PROVE  LET e == [c EXCEPT !.want = w]
           IN  Same(c, e) /\ e.want = w /\ e.forgot = c.forgot
<1> DEFINE e == [c EXCEPT !.want = w]
<1>1. DOMAIN c = Fields /\ DOMAIN e = Fields
  BY DEF Shaped
<1>2. e.want = w /\ e.forgot = c.forgot
  BY <1>1 DEF Fields
<1>3. /\ e.kind = c.kind /\ e.tag = c.tag /\ e.inv = c.inv /\ e.cell = c.cell /\ e.heap = c.heap
      /\ e.first = c.first /\ e.lost = c.lost /\ e.torn = c.torn /\ e.known = c.known
  BY <1>1 DEF Fields
<1> HIDE DEF e
<1>4. Shaped(e)
  BY <1>1, <1>2, <1>3 DEF Shaped
<1> QED BY <1>2, <1>3, <1>4 DEF Same, e

Wants(c, e, i, x, j, y) ==
    /\ Same(c, e) /\ e.forgot = c.forgot
    /\ \A k \in 1 .. 2 : e.want[k] = IF k = j THEN y ELSE IF k = i THEN x ELSE c.want[k]

LEMMA WantsAre ==
    ASSUME NEW c, Shaped(c), NEW i \in 1 .. 2, NEW j \in 1 .. 2, NEW x, NEW y
    PROVE  /\ Wants(c, Given(c, i, x), i, x, i, x)
           /\ Wants(c, [c EXCEPT !.want[i] = x, !.want[j] = y], i, x, j, y)
           /\ Wants(c, [c EXCEPT !.want = <<x, y>>], 1, x, 2, y)
<1> DEFINE v == [c.want EXCEPT ![i] = x]
           w == [v EXCEPT ![j] = y]
           u == <<x, y>>
<1>1. c.want = [k \in 1 .. 2 |-> c.want[k]] /\ DOMAIN c = Fields
  BY DEF Shaped
<1>2. v = [k \in 1 .. 2 |-> v[k]] /\ \A k \in 1 .. 2 : v[k] = IF k = i THEN x ELSE c.want[k]
  BY <1>1
<1>3. Given(c, i, x) = [c EXCEPT !.want = v]
  BY DEF Given
<1>4. [c EXCEPT !.want[i] = x, !.want[j] = y] = [c EXCEPT !.want = w]
  BY <1>1 DEF Fields
<1> HIDE DEF v
<1>5. w = [k \in 1 .. 2 |-> w[k]] /\ \A k \in 1 .. 2 : w[k] = IF k = j THEN y ELSE IF k = i THEN x ELSE c.want[k]
  BY <1>2
<1> HIDE DEF w
<1>6. u = [k \in 1 .. 2 |-> u[k]] /\ \A k \in 1 .. 2 : u[k] = IF k = 2 THEN y ELSE IF k = 1 THEN x ELSE c.want[k]
  OBVIOUS
<1> HIDE DEF u
<1>7. Wants(c, Given(c, i, x), i, x, i, x)
  BY <1>2, <1>3, WantIs DEF Wants
<1>8. Wants(c, [c EXCEPT !.want = w], i, x, j, y)
  BY <1>5, WantIs DEF Wants
<1>9. Wants(c, [c EXCEPT !.want = u], 1, x, 2, y)
  BY <1>6, WantIs DEF Wants
<1> QED BY <1>4, <1>7, <1>8, <1>9 DEF u

(* Every holder has what was given to it last, and the temporary nothing.  *)
Answers(s) == Value(s, 3) = <<>> /\ \A k \in 1 .. 2 : s.want[k] = Value(s, k)
AnyInv(s)  == s.kind = "any" /\ Whole(s) /\ Answers(s)
FnInv(s)   == s.kind = "function" /\ Fitted(s) /\ Answers(s)

LEMMA AnswersStay ==
    ASSUME NEW s, Answers(s), NEW c, Kept(s, c), NEW e, NEW i \in 1 .. 2, NEW j \in 1 .. 2, NEW x, NEW y,
           Wants(c, e, i, x, j, y), Value(c, 3) = <<>>,
           \A k \in 1 .. 2 : Value(c, k) = IF k = j THEN y ELSE IF k = i THEN x ELSE Value(s, k)
    PROVE  Answers(e) /\ e.kind = s.kind /\ (Whole(c) => Whole(e)) /\ (Fitted(c) => Fitted(e))
<1>1. Same(c, e) /\ \A k : Value(e, k) = Value(c, k)
  BY SameIs DEF Wants
<1>2. \A k \in 1 .. 2 : e.want[k] = Value(e, k)
  BY <1>1 DEF Wants, Answers, Kept
<1>3. e.kind = s.kind
  BY <1>1 DEF Same, Kept
<1> QED BY <1>1, <1>2, <1>3, SameIs DEF Answers

LEMMA AnyGiven ==
    ASSUME NEW s, AnyInv(s), NEW i \in 1 .. 2, NEW c, NEW x, Holds(s, c, i, x)
    PROVE  AnyInv(Given(c, i, x))
<1>1. Wants(c, Given(c, i, x), i, x, i, x)
  BY WantsAre DEF Holds, Whole
<1>2. Value(c, 3) = <<>> /\ \A k \in 1 .. 2 : Value(c, k) = IF k = i THEN x ELSE IF k = i THEN x ELSE Value(s, k)
  BY DEF Holds, AnyInv, Answers
<1> QED BY <1>1, <1>2, AnswersStay DEF Holds, AnyInv

LEMMA FnGiven ==
    ASSUME NEW s, FnInv(s), NEW i \in 1 .. 2, NEW c, NEW x, Gets(s, c, i, x)
    PROVE  FnInv(Given(c, i, x))
<1>1. Wants(c, Given(c, i, x), i, x, i, x)
  BY WantsAre DEF Gets, Fitted, Whole
<1>2. Value(c, 3) = <<>> /\ \A k \in 1 .. 2 : Value(c, k) = IF k = i THEN x ELSE IF k = i THEN x ELSE Value(s, k)
  BY DEF Gets, FnInv, Answers
<1> QED BY <1>1, <1>2, AnswersStay DEF Gets, FnInv

(* A move takes what the other held; of a holder onto itself, nothing.     *)
LEMMA TookIs ==
    ASSUME NEW c, Shaped(c), NEW i \in 1 .. 2, NEW j \in 1 .. 2
    PROVE  Wants(c, Took(c, i, j), j, <<>>, i, held.want[j])
<1> DEFINE x == held.want[j]
<1>1. Took(c, i, j) = [c EXCEPT !.want[j] = <<>>, !.want[i] = x]
  BY DEF Took, Raw
<1> HIDE DEF x
<1>2. Wants(c, [c EXCEPT !.want[j] = <<>>, !.want[i] = x], j, <<>>, i, x)
  BY WantsAre
<1> QED BY <1>1, <1>2 DEF x

LEMMA AnyTook ==
    ASSUME AnyInv(held), NEW i \in 1 .. 2, NEW j \in 1 .. 2, NEW c,
           IF i = j THEN Holds(held, c, i, Value(held, i)) ELSE Passes(held, c, j, i)
    PROVE  AnyInv(Took(c, i, j))
<1> DEFINE x == held.want[j]
<1>1. Whole(c) /\ Kept(held, c) /\ x = Value(held, j)
  BY DEF Holds, Passes, AnyInv, Answers
<1>2. Wants(c, Took(c, i, j), j, <<>>, i, x)
  BY <1>1, TookIs DEF Whole
<1> HIDE DEF x
<1>3. Value(c, 3) = <<>> /\ \A k \in 1 .. 2 : Value(c, k) = IF k = i THEN x ELSE IF k = j THEN <<>> ELSE Value(held, k)
  BY <1>1 DEF Holds, Passes, AnyInv, Answers
<1> QED BY <1>1, <1>2, <1>3, AnswersStay DEF AnyInv

LEMMA FnTook ==
    ASSUME FnInv(held), NEW i \in 1 .. 2, NEW j \in 1 .. 2, NEW c,
           IF i = j THEN Gets(held, c, i, Value(held, i)) ELSE Takes(held, c, j, i)
    PROVE  FnInv(Took(c, i, j))
<1> DEFINE x == held.want[j]
<1>1. Fitted(c) /\ Whole(c) /\ Kept(held, c) /\ x = Value(held, j)
  BY DEF Gets, Takes, FnInv, Answers, Fitted
<1>2. Wants(c, Took(c, i, j), j, <<>>, i, x)
  BY <1>1, TookIs DEF Whole
<1> HIDE DEF x
<1>3. Value(c, 3) = <<>> /\ \A k \in 1 .. 2 : Value(c, k) = IF k = i THEN x ELSE IF k = j THEN <<>> ELSE Value(held, k)
  BY <1>1 DEF Gets, Takes, FnInv, Answers
<1> QED BY <1>1, <1>2, <1>3, AnswersStay DEF FnInv

LEMMA SwappedIs ==
    ASSUME Answers(held), NEW i \in 1 .. 2, NEW j \in 1 .. 2, NEW c, Exchanges(held, c, i, j)
    PROVE  LET e == [c EXCEPT !.want[i] = held.want[j], !.want[j] = held.want[i]]
           IN  Answers(e) /\ Whole(e) /\ e.kind = held.kind /\ (Fitted(c) => Fitted(e))
<1> DEFINE x == held.want[j]
           y == held.want[i]
           e == [c EXCEPT !.want[i] = x, !.want[j] = y]
<1>1. Whole(c) /\ Kept(held, c) /\ x = Value(held, j) /\ y = Value(held, i)
  BY DEF Exchanges, Answers
<1> HIDE DEF x, y
<1>20. Shaped(c)
  BY <1>1 DEF Whole
<1>21. Wants(c, [c EXCEPT !.want[i] = x, !.want[j] = y], i, x, j, y)
  BY <1>20, WantsAre
<1>2. Wants(c, e, i, x, j, y)
  BY <1>21
<1> HIDE DEF e
<1>3. Value(c, 3) = <<>> /\ \A k \in 1 .. 2 : Value(c, k) = IF k = j THEN y ELSE IF k = i THEN x ELSE Value(held, k)
  BY <1>1 DEF Exchanges, Answers
<1>4. Answers(e) /\ Whole(e) /\ e.kind = held.kind /\ (Fitted(c) => Fitted(e))
  BY <1>1, <1>2, <1>3, AnswersStay
<1> QED BY <1>4 DEF e, x, y

LEMMA NextAnyIs ==
    ASSUME AnyInv(held), NextAny
    PROVE  AnyInv(held')
<1>0. Whole(held) /\ Answers(held)
  BY DEF AnyInv
<1> DEFINE o(i) == 3 - i
<1>1. PICK i \in 1 .. 2 :
          \/ \E x \in Objects : \/ held' = Given(AnyFrom(held, i, x), i, x)
                                     \/ held' = Given(AnyAssign(held, i, x), i, x)
          \/ held' = Given(AnyReset(held, i), i, Raw)
          \/ held' = Given(AnyCopyCtor(held, i, o(i)), i, held.want[o(i)])
          \/ held' = Took(AnyMoveCtor(held, i, o(i)), i, o(i))
          \/ \E j \in 1 .. 2 :
                 \/ held' = Given(AnyCopyAssign(held, i, j), i, held.want[j])
                 \/ held' = Took(AnyMoveAssign(held, i, j), i, j)
                 \/ held' = [AnySwap(held, i, j) EXCEPT !.want[i] = held.want[j], !.want[j] = held.want[i]]
  BY DEF NextAny
<1>2. /\ i \in 1 .. 3 /\ o(i) \in 1 .. 2 /\ o(i) \in 1 .. 3 /\ o(i) # i
      /\ Value(held, 3) = <<>> /\ \A k \in 1 .. 2 : held.want[k] = Value(held, k)
  BY <1>0 DEF Answers
<1> HIDE DEF o
<1>3. ASSUME NEW x \in Objects,
             held' = Given(AnyFrom(held, i, x), i, x) \/ held' = Given(AnyAssign(held, i, x), i, x)
      PROVE  AnyInv(held')
  <2>1. x \in Objects
    BY DEF Objects, Types
  <2>2. Holds(held, AnyFrom(held, i, x), i, x) /\ Holds(held, AnyAssign(held, i, x), i, x)
    BY <1>0, <1>2, <2>1, AnyFromIs, AnyAssignIs
  <2> QED BY <1>3, <2>2, AnyGiven
<1>4. CASE held' = Given(AnyReset(held, i), i, Raw)
  BY <1>0, <1>2, <1>4, ResetIs, AnyGiven DEF Raw
<1>5. CASE held' = Given(AnyCopyCtor(held, i, o(i)), i, held.want[o(i)])
  <2>1. Holds(held, AnyCopyCtor(held, i, o(i)), i, held.want[o(i)])
    BY <1>0, <1>2, AnyCopyIs
  <2> QED BY <1>5, <2>1, AnyGiven
<1>6. CASE held' = Took(AnyMoveCtor(held, i, o(i)), i, o(i))
  <2>1. Passes(held, AnyMoveCtor(held, i, o(i)), o(i), i)
    BY <1>0, <1>2, AnyMoveIs
  <2> QED BY <1>2, <1>6, <2>1, AnyTook
<1>7. ASSUME NEW j \in 1 .. 2, held' = Given(AnyCopyAssign(held, i, j), i, held.want[j])
      PROVE  AnyInv(held')
  <2>1. Holds(held, AnyCopyAssign(held, i, j), i, held.want[j])
    BY <1>0, <1>2, AnyAssignIs
  <2> QED BY <1>7, <2>1, AnyGiven
<1>8. ASSUME NEW j \in 1 .. 2, held' = Took(AnyMoveAssign(held, i, j), i, j)
      PROVE  AnyInv(held')
  <2> DEFINE c == AnyMoveAssign(held, i, j)
  <2>1. ASSUME i # j PROVE Passes(held, c, j, i)
    BY <1>0, <1>2, <2>1, AnyMoveIs
  <2>2. ASSUME i = j PROVE Holds(held, c, i, Value(held, i))
    <3>1. CASE Value(held, i) # <<>>
      <4>1. c = held
        BY <1>0, <1>2, <2>2, <3>1, ValueIs DEF AnyMoveAssign
      <4> QED BY <1>0, <4>1 DEF Holds, Kept
    <3>2. CASE Value(held, i) = <<>>
      <4>1. c = AnyReset(held, i)
        BY <1>0, <1>2, <2>2, <3>2, ValueIs DEF AnyMoveAssign
      <4> QED BY <1>0, <1>2, <3>2, <4>1, ResetIs
    <3> QED BY <3>1, <3>2
  <2> HIDE DEF c
  <2>3. AnyInv(Took(c, i, j))
    BY <2>1, <2>2, AnyTook
  <2> QED BY <1>8, <2>3 DEF c
<1>9. ASSUME NEW j \in 1 .. 2,
             held' = [AnySwap(held, i, j) EXCEPT !.want[i] = held.want[j], !.want[j] = held.want[i]]
      PROVE  AnyInv(held')
  <2>1. Exchanges(held, AnySwap(held, i, j), i, j)
    BY <1>0, <1>2, AnySwapIs
  <2>2. Answers(held') /\ Whole(held') /\ held'.kind = held.kind
    BY <1>0, <1>9, <2>1, SwappedIs
  <2> QED BY <2>2 DEF AnyInv
<1> QED BY <1>1, <1>3, <1>4, <1>5, <1>6, <1>7, <1>8, <1>9

LEMMA NextFunctionIs ==
    ASSUME FnInv(held), NextFunction
    PROVE  FnInv(held')
<1>0. Fitted(held) /\ Answers(held) /\ Whole(held)
  BY DEF FnInv, Fitted
<1> DEFINE o(i) == 3 - i
<1>1. PICK i \in 1 .. 2 :
          \/ \E x \in Objects \cup {Raw} : held' = Given(FnFrom(held, i, x), i, x)
          \/ \E x \in Smalls : held' = Given(FnAssign(held, i, x), i, x)
          \/ held' = Given(FnEnded(held, i), i, Raw)
          \/ held' = Given(FnCopyCtor(held, i, o(i)), i, held.want[o(i)])
          \/ held' = Took(FnMoveCtor(held, i, o(i)), i, o(i))
          \/ \E j \in 1 .. 2 :
                 \/ held' = Given(FnCopyAssign(held, i, j), i, held.want[j])
                 \/ held' = Took(FnMoveAssign(held, i, j), i, j)
                 \/ held' = [FnSwap(held, i, j) EXCEPT !.want[i] = held.want[j], !.want[j] = held.want[i]]
  BY DEF NextFunction
<1>2. /\ i \in 1 .. 3 /\ o(i) \in 1 .. 2 /\ o(i) \in 1 .. 3 /\ o(i) # i
      /\ Value(held, 3) = <<>> /\ \A k \in 1 .. 2 : held.want[k] = Value(held, k)
  BY <1>0 DEF Answers
<1> HIDE DEF o
<1>3. ASSUME NEW x \in Objects \cup {Raw}, held' = Given(FnFrom(held, i, x), i, x)
      PROVE  FnInv(held')
  <2>1. x \in Objects \cup {<<>>}
    BY DEF Objects, Types, Raw
  <2>2. Gets(held, FnFrom(held, i, x), i, x)
    BY <1>0, <1>2, <2>1, FnFromIs
  <2> QED BY <1>3, <2>2, FnGiven
<1>31. ASSUME NEW x \in Smalls, held' = Given(FnAssign(held, i, x), i, x)
       PROVE  FnInv(held')
  <2>1. x \in Objects
    BY DEF Objects, Types, Smalls
  <2>2. Gets(held, FnAssign(held, i, x), i, x)
    BY <1>0, <1>2, <2>1, FnAssignIs
  <2> QED BY <1>31, <2>2, FnGiven
<1>4. CASE held' = Given(FnEnded(held, i), i, Raw)
  BY <1>0, <1>2, <1>4, FnEndedIs, FnGiven DEF Raw
<1>5. CASE held' = Given(FnCopyCtor(held, i, o(i)), i, held.want[o(i)])
  <2>1. Gets(held, FnCopyCtor(held, i, o(i)), i, held.want[o(i)])
    BY <1>0, <1>2, FnCopyIs
  <2> QED BY <1>5, <2>1, FnGiven
<1>6. CASE held' = Took(FnMoveCtor(held, i, o(i)), i, o(i))
  <2>1. Takes(held, FnMoveCtor(held, i, o(i)), o(i), i)
    BY <1>0, <1>2, FnMoveIs
  <2> QED BY <1>2, <1>6, <2>1, FnTook
<1>7. ASSUME NEW j \in 1 .. 2, held' = Given(FnCopyAssign(held, i, j), i, held.want[j])
      PROVE  FnInv(held')
  <2>1. Gets(held, FnCopyAssign(held, i, j), i, held.want[j])
    BY <1>0, <1>2, FnAssignIs
  <2> QED BY <1>7, <2>1, FnGiven
<1>8. ASSUME NEW j \in 1 .. 2, held' = Took(FnMoveAssign(held, i, j), i, j)
      PROVE  FnInv(held')
  <2> DEFINE c == FnMoveAssign(held, i, j)
  <2>1. IF i = j THEN Gets(held, c, i, Value(held, i)) ELSE Takes(held, c, j, i)
    BY <1>0, <1>2, FnAssignIs
  <2> HIDE DEF c
  <2>3. FnInv(Took(c, i, j))
    BY <2>1, FnTook
  <2> QED BY <1>8, <2>3 DEF c
<1>9. ASSUME NEW j \in 1 .. 2,
             held' = [FnSwap(held, i, j) EXCEPT !.want[i] = held.want[j], !.want[j] = held.want[i]]
      PROVE  FnInv(held')
  <2>0. j \in 1 .. 3
    OBVIOUS
  <2>1. Exchanges(held, FnSwap(held, i, j), i, j) /\ Fitted(FnSwap(held, i, j))
    BY <1>0, <1>2, <2>0, FnSwapIs
  <2>2. Answers(held') /\ Fitted(held') /\ held'.kind = held.kind
    BY <1>0, <1>9, <2>1, SwappedIs
  <2> QED BY <2>2 DEF FnInv
<1> QED BY <1>1, <1>3, <1>31, <1>4, <1>5, <1>6, <1>7, <1>8, <1>9

-----------------------------------------------------------------------------

(* An optional has what it was given last, but for what it does not notice.*)
OptInv(s) == s.kind = "optional" /\ OptWell(s, s.forgot) /\ \A k \in 1 .. 2 : s.want[k] = Got(s, k)

LEMMA OptWanted ==
    ASSUME NEW s, OptInv(s), NEW c, Kept(s, c), OptWell(c, s.forgot),
           NEW e, NEW i \in 1 .. 2, NEW j \in 1 .. 2, NEW x, NEW y, Wants(c, e, i, x, j, y),
           \A k \in 1 .. 2 : Got(c, k) = IF k = j THEN y ELSE IF k = i THEN x ELSE Got(s, k)
    PROVE  OptInv(e)
<1>1. Same(c, e) /\ \A k : Got(e, k) = Got(c, k)
  BY SameIs DEF Wants
<1>2. \A k \in 1 .. 2 : e.want[k] = Got(e, k)
  BY <1>1 DEF Wants, OptInv, Kept
<1>3. e.kind = "optional" /\ e.forgot = s.forgot
  BY <1>1 DEF Same, Kept, Wants, OptInv
<1>4. OptWell(e, s.forgot)
  BY <1>1, SameIs
<1> QED BY <1>2, <1>3, <1>4 DEF OptInv

LEMMA OptGiven ==
    ASSUME NEW s, OptInv(s), NEW i \in 1 .. 2, NEW c, NEW x, OptGets(s, c, i, x, s.forgot)
    PROVE  OptInv(Given(c, i, x))
<1>1. Wants(c, Given(c, i, x), i, x, i, x)
  BY WantsAre DEF OptGets, OptWell
<1>2. \A k \in 1 .. 2 : Got(c, k) = IF k = i THEN x ELSE IF k = i THEN x ELSE Got(s, k)
  BY DEF OptGets
<1> QED BY <1>1, <1>2, OptWanted DEF OptGets

LEMMA OptTook ==
    ASSUME OptInv(held), NEW i \in 1 .. 2, NEW j \in 1 .. 2, NEW c,
           IF i = j THEN OptGets(held, c, i, Got(held, i), held.forgot) ELSE OptTakes(held, c, j, i, held.forgot)
    PROVE  OptInv(Took(c, i, j))
<1> DEFINE x == held.want[j]
<1>1. OptWell(c, held.forgot) /\ Kept(held, c) /\ x = Got(held, j)
  BY DEF OptGets, OptTakes, OptInv
<1>2. Wants(c, Took(c, i, j), j, <<>>, i, x)
  BY <1>1, TookIs DEF OptWell
<1> HIDE DEF x
<1>3. \A k \in 1 .. 2 : Got(c, k) = IF k = i THEN x ELSE IF k = j THEN <<>> ELSE Got(held, k)
  BY <1>1 DEF OptGets, OptTakes
<1> QED BY <1>1, <1>2, <1>3, OptWanted

LEMMA OptSwapped ==
    ASSUME OptInv(held), NEW c, OptExchanges(held, c, held.forgot)
    PROVE  OptInv([c EXCEPT !.want = <<held.want[2], held.want[1]>>])
<1> DEFINE x == held.want[2]
           y == held.want[1]
<1>1. OptWell(c, held.forgot) /\ Kept(held, c) /\ x = Got(held, 2) /\ y = Got(held, 1)
  BY DEF OptExchanges, OptInv
<1> HIDE DEF x, y
<1>2. Shaped(c) /\ 1 \in 1 .. 2 /\ 2 \in 1 .. 2
  BY <1>1 DEF OptWell
<1>3. Wants(c, [c EXCEPT !.want = <<x, y>>], 1, x, 2, y)
  BY <1>2, WantsAre
<1>4. \A k \in 1 .. 2 : Got(c, k) = IF k = 2 THEN y ELSE IF k = 1 THEN x ELSE Got(held, k)
  BY <1>1 DEF OptExchanges
<1>5. OptInv([c EXCEPT !.want = <<x, y>>])
  BY <1>1, <1>2, <1>3, <1>4, OptWanted
<1> QED BY <1>5 DEF x, y

(* What was not noticed is noted among the forgotten.                      *)
LEMMA OptForgot ==
    ASSUME NEW s, OptInv(s), NEW i \in 1 .. 2, NEW x, NEW c, Kept(s, c), OptWell(c, s.forgot \cup {x}),
           \A k \in 1 .. 2 : Got(c, k) = IF k = i THEN <<>> ELSE Got(s, k)
    PROVE  OptInv(Forget(c, i, x))
<1> DEFINE g == Given(c, i, <<>>)
           f == g.forgot \cup {x}
           e == [g EXCEPT !.forgot = f]
<1>1. Wants(c, g, i, <<>>, i, <<>>)
  BY WantsAre DEF OptWell
<1>2. Forget(c, i, x) = e
  BY DEF Forget, Raw
<1> HIDE DEF g
<1>3. Shaped(g) /\ DOMAIN g = Fields /\ f = s.forgot \cup {x}
  BY <1>1 DEF Wants, Same, Shaped, OptWell, Kept
<1> HIDE DEF f
<1>4. /\ DOMAIN e = Fields /\ e.forgot = f /\ e.want = g.want
      /\ e.kind = g.kind /\ e.tag = g.tag /\ e.inv = g.inv /\ e.cell = g.cell /\ e.heap = g.heap
      /\ e.first = g.first /\ e.lost = g.lost /\ e.torn = g.torn /\ e.known = g.known
  BY <1>3 DEF Fields
<1> HIDE DEF e
<1>5. Same(c, e) /\ \A k \in 1 .. 2 : e.want[k] = IF k = i THEN <<>> ELSE c.want[k]
  BY <1>1, <1>3, <1>4 DEF Same, Wants, Shaped
<1>6. OptWell(e, f) /\ \A k : Got(e, k) = Got(c, k)
  BY <1>3, <1>5, SameIs
<1>7. \A k \in 1 .. 2 : e.want[k] = Got(e, k)
  BY <1>5, <1>6 DEF OptInv, Kept
<1>8. e.kind = "optional"
  BY <1>5 DEF Same, Kept, OptInv
<1> QED BY <1>2, <1>4, <1>6, <1>7, <1>8 DEF OptInv

LEMMA NextOptionalIs ==
    ASSUME OptInv(held), NextOptional
    PROVE  OptInv(held')
<1> DEFINE o(i) == 3 - i
           f(x) == held.forgot \cup {x}
<1>1. PICK i \in 1 .. 2 :
          \/ held' = Given(OptNone(held, i), i, <<>>)
          \/ held' = Given(OptReset(held, i), i, <<>>)
          \/ \E x \in Smalls :
                 \/ held' = Forget(OptFromValue(held, i, x), i, x)
                 \/ held' = Forget(OptAssignScalar(held, i, x), i, x)
                 \/ held' = Given(OptInPlace(held, i, x), i, x)
                 \/ held' = Given(OptEmplace(held, i, x), i, x)
                 \/ Has(held, i) /\ held' = Given(OptAssignValue(held, i, x), i, x)
                 \/ ~Has(held, i) /\ held' = Forget(OptAssignValue(held, i, x), i, x)
          \/ held' = Given(OptCopyCtor(held, i, o(i)), i, held.want[o(i)])
          \/ held' = Took(OptMoveCtor(held, i, o(i)), i, o(i))
          \/ \E j \in 1 .. 2 :
                 \/ held' = Given(OptCopyAssign(held, i, j), i, held.want[j])
                 \/ held' = Took(OptMoveAssign(held, i, j), i, j)
          \/ held' = [OptSwap(held) EXCEPT !.want = <<held.want[2], held.want[1]>>]
  BY DEF NextOptional, Raw
<1>2. /\ i \in 1 .. 3 /\ o(i) \in 1 .. 2 /\ o(i) \in 1 .. 3 /\ o(i) # i
      /\ OptWell(held, held.forgot) /\ \A k \in 1 .. 2 : held.want[k] = Got(held, k)
  BY DEF OptInv
<1> HIDE DEF o
<1>3. CASE held' = Given(OptNone(held, i), i, <<>>)
  BY <1>2, <1>3, OptMakingIs, OptGiven
<1>4. CASE held' = Given(OptReset(held, i), i, <<>>)
  BY <1>2, <1>4, OptResetIs, OptGiven
<1>5. ASSUME NEW x \in Smalls,
             \/ held' = Forget(OptFromValue(held, i, x), i, x)
             \/ held' = Forget(OptAssignScalar(held, i, x), i, x)
             \/ ~Has(held, i) /\ held' = Forget(OptAssignValue(held, i, x), i, x)
      PROVE  OptInv(held')
  <2>1. OptWell(held, f(x)) /\ x \in f(x)
    BY <1>2, OptMore
  <2> HIDE DEF f
  <2>2. OptGets(held, OptFromValue(held, i, x), i, <<>>, f(x))
    BY <1>2, <2>1, OptMakingIs
  <2>3. held.tag[i] = "none" => OptGets(held, OptAssignValue(held, i, x), i, <<>>, f(x))
    BY <1>2, <2>1, OptAssignIs
  <2>4. ~Has(held, i) => held.tag[i] = "none"
    BY DEF Has, NoType
  <2>5. LET e == OptAssignScalar(held, i, x)
        IN  /\ OptWell(e, f(x)) /\ Kept(held, e)
            /\ \A k \in 1 .. 2 : Got(e, k) = IF k = i THEN <<>> ELSE Got(held, k)
    BY <2>1, OptScalarIs
  <2>6. ASSUME NEW c, OptGets(held, c, i, <<>>, f(x))
        PROVE  OptInv(Forget(c, i, x))
    BY <2>6, OptForgot DEF OptGets, f
  <2>7. OptInv(Forget(OptAssignScalar(held, i, x), i, x))
    BY <2>5, OptForgot DEF f
  <2> QED BY <1>5, <2>2, <2>3, <2>4, <2>6, <2>7
<1>6. ASSUME NEW x \in Smalls,
             \/ held' = Given(OptInPlace(held, i, x), i, x)
             \/ held' = Given(OptEmplace(held, i, x), i, x)
             \/ Has(held, i) /\ held' = Given(OptAssignValue(held, i, x), i, x)
      PROVE  OptInv(held')
  <2>1. x \in Smalls
    BY DEF Smalls, Objects, Types
  <2>2. OptGets(held, OptInPlace(held, i, x), i, x, held.forgot) /\ OptGets(held, OptEmplace(held, i, x), i, x, held.forgot)
    BY <1>2, <2>1, OptMakingIs
  <2>3. Has(held, i) => OptGets(held, OptAssignValue(held, i, x), i, x, held.forgot)
    BY <1>2, <2>1, OptAssignIs DEF Has, NoType
  <2> QED BY <1>6, <2>2, <2>3, OptGiven
<1>7. CASE held' = Given(OptCopyCtor(held, i, o(i)), i, held.want[o(i)])
  <2>1. OptGets(held, OptCopyCtor(held, i, o(i)), i, held.want[o(i)], held.forgot)
    BY <1>2, OptCopyIs
  <2> QED BY <1>7, <2>1, OptGiven
<1>8. CASE held' = Took(OptMoveCtor(held, i, o(i)), i, o(i))
  <2>1. OptTakes(held, OptMoveCtor(held, i, o(i)), o(i), i, held.forgot)
    BY <1>2, OptMoveIs
  <2> QED BY <1>2, <1>8, <2>1, OptTook
<1>9. ASSUME NEW j \in 1 .. 2, held' = Given(OptCopyAssign(held, i, j), i, held.want[j])
      PROVE  OptInv(held')
  <2>1. OptGets(held, OptCopyAssign(held, i, j), i, held.want[j], held.forgot)
    BY <1>2, OptCopyAssignIs
  <2> QED BY <1>9, <2>1, OptGiven
<1>10. ASSUME NEW j \in 1 .. 2, held' = Took(OptMoveAssign(held, i, j), i, j)
       PROVE  OptInv(held')
  <2> DEFINE c == OptMoveAssign(held, i, j)
  <2>1. IF i = j THEN OptGets(held, c, i, Got(held, i), held.forgot) ELSE OptTakes(held, c, j, i, held.forgot)
    BY <1>2, OptMoveAssignIs
  <2> HIDE DEF c
  <2>2. OptInv(Took(c, i, j))
    BY <2>1, OptTook
  <2> QED BY <1>10, <2>2 DEF c
<1>11. CASE held' = [OptSwap(held) EXCEPT !.want = <<held.want[2], held.want[1]>>]
  <2>1. OptExchanges(held, OptSwap(held), held.forgot)
    BY <1>2, OptSwapIs
  <2> QED BY <1>11, <2>1, OptSwapped
<1> QED BY <1>1, <1>3, <1>4, <1>5, <1>6, <1>7, <1>8, <1>9, <1>10, <1>11

-----------------------------------------------------------------------------

(* variant. The object that was given last, and its type in the index.     *)
Full(s) ==
    /\ Shaped(s) /\ ~s.torn /\ s.lost = {}
    /\ \A k \in 1 .. 2 : s.cell[k] \in Objects /\ s.tag[k] = s.cell[k][1]
VarGets(s, e, i, x) ==
    /\ Full(e) /\ e.kind = s.kind /\ e.want = s.want
    /\ \A k \in 1 .. 2 : e.cell[k] = IF k = i THEN x ELSE s.cell[k]
VarInv(s) ==
    /\ s.kind = "variant"
    /\ s.known => Full(s) /\ \A k \in 1 .. 2 : s.want[k] = s.cell[k]

LEMMA VarFromIs ==
    ASSUME NEW s, Full(s), NEW i \in 1 .. 2, NEW x \in Objects
    PROVE  /\ VarGets(s, VarFrom(s, i, x), i, x)
           /\ VarGets(s, VarEmplace(s, i, x), i, x)
<1> DEFINE d == Destroy(s, i, s.tag[i])
           c == Construct(d, i, x)
           e == [c EXCEPT !.tag[i] = x[1]]
<1>1. i \in 1 .. 3 /\ s.cell[i] # <<>> /\ s.cell[i][1] = s.tag[i] /\ Shaped(s) /\ ~s.torn
  BY ThingIs DEF Full
<1>2. Unbuilds(s, d, i)
  BY <1>1, DestroyIs
<1> HIDE DEF d
<1>3. Builds(d, c, i, x)
  BY <1>1, <1>2, ConstructIs DEF Unbuilds
<1> HIDE DEF c
<1>4. Retags(c, e, i, x[1])
  BY <1>1, <1>3, ThingIs, TagIs DEF Builds, Tags
<1> HIDE DEF e
<1>5. Shaped(e) /\ ~e.torn /\ e.lost = {} /\ e.kind = s.kind /\ e.want = s.want
  BY <1>1, <1>2, <1>3, <1>4 DEF Unbuilds, Builds, Retags, Kept, Full
<1>6. \A k \in 1 .. 2 : e.cell[k] = (IF k = i THEN x ELSE s.cell[k]) /\ e.tag[k] = (IF k = i THEN x[1] ELSE s.tag[k])
  BY <1>2, <1>3, <1>4 DEF Unbuilds, Builds, Retags
<1>7. VarGets(s, e, i, x)
  BY <1>5, <1>6 DEF VarGets, Full
<1> QED BY <1>7 DEF VarFrom, VarEmplace, VarEnded, e, c, d

LEMMA VarGiven ==
    ASSUME NEW s, VarInv(s), s.known, NEW i \in 1 .. 2, NEW c, NEW x, VarGets(s, c, i, x)
    PROVE  VarInv(Given(c, i, x))
<1> DEFINE e == Given(c, i, x)
<1>1. Wants(c, e, i, x, i, x)
  BY WantsAre DEF VarGets, Full
<1> HIDE DEF e
<1>2. Full(e) /\ e.kind = "variant"
  BY <1>1 DEF Wants, Same, VarGets, Full, VarInv
<1>3. \A k \in 1 .. 2 : e.want[k] = e.cell[k]
  BY <1>1 DEF Wants, Same, VarGets, VarInv
<1> QED BY <1>2, <1>3 DEF VarInv, e

LEMMA VarUnknown ==
    ASSUME NEW c, DOMAIN c = Fields, c.kind = "variant"
    PROVE  VarInv(Unknown(c))
BY DEF VarInv, Unknown, Fields

LEMMA VarFirstIs ==
    ASSUME NEW s, NEW c, NEW i \in 1 .. 2, NEW x, VarGets(s, c, i, x)
    PROVE  VarGets(s, [c EXCEPT !.first = i], i, x)
<1> DEFINE e == [c EXCEPT !.first = i]
<1>1. DOMAIN c = Fields /\ DOMAIN e = Fields
  BY DEF VarGets, Full, Shaped
<1>2. /\ e.kind = c.kind /\ e.tag = c.tag /\ e.inv = c.inv /\ e.cell = c.cell /\ e.heap = c.heap
      /\ e.want = c.want /\ e.lost = c.lost /\ e.torn = c.torn
  BY <1>1 DEF Fields
<1> HIDE DEF e
<1>3. Full(e)
  BY <1>1, <1>2 DEF VarGets, Full, Shaped
<1> QED BY <1>2, <1>3 DEF VarGets, e

LEMMA VarCopyIs ==
    ASSUME NEW s, Full(s), NEW i \in 1 .. 2, NEW j \in 1 .. 2, s.tag[i] = s.tag[j]
    PROVE  VarGets(s, VarCopyAssign(s, i, j), i, s.cell[j])
<1> DEFINE e == VarCopyAssign(s, i, j)
<1>1. DOMAIN s = Fields /\ DOMAIN e = Fields
  BY DEF Full, Shaped, VarCopyAssign
<1>2. /\ e.kind = s.kind /\ e.inv = s.inv /\ e.heap = s.heap /\ e.want = s.want /\ e.lost = s.lost /\ e.torn = s.torn
      /\ e.tag = [s.tag EXCEPT ![i] = s.tag[j]] /\ e.cell = [s.cell EXCEPT ![i] = s.cell[j]]
  BY <1>1 DEF Fields, VarCopyAssign
<1> HIDE DEF e
<1>3. /\ s.tag \in [1 .. 3 -> Tags] /\ s.cell = [k \in 1 .. 3 |-> s.cell[k]]
      /\ i \in 1 .. 3 /\ j \in 1 .. 3
  BY DEF Full, Shaped
<1>4. /\ e.tag \in [1 .. 3 -> Tags] /\ e.cell = [k \in 1 .. 3 |-> e.cell[k]]
      /\ \A k \in 1 .. 3 : e.cell[k] = (IF k = i THEN s.cell[j] ELSE s.cell[k]) /\ e.tag[k] = (IF k = i THEN s.tag[j] ELSE s.tag[k])
  BY <1>2, <1>3
<1>5. Shaped(e)
  BY <1>1, <1>2, <1>4 DEF Full, Shaped
<1>6. \A k \in 1 .. 2 : e.cell[k] = (IF k = i THEN s.cell[j] ELSE s.cell[k]) /\ e.tag[k] = (IF k = i THEN s.tag[j] ELSE s.tag[k])
  BY <1>4
<1> QED BY <1>2, <1>5, <1>6 DEF VarGets, Full, e

LEMMA NextVariantIs ==
    ASSUME VarInv(held), NextVariant
    PROVE  VarInv(held')
<1>0. held.known /\ held.kind = "variant" /\ Full(held) /\ DOMAIN held = Fields
      /\ \A k \in 1 .. 2 : held.want[k] = held.cell[k] /\ held.cell[k] \in Objects
  BY DEF NextVariant, Step, VarInv, Full, Shaped
<1> DEFINE o(i) == 3 - i
<1>1. PICK i \in 1 .. 2 :
          \/ \E x \in Objects :
                 \/ held' = Given(VarFrom(held, i, x), i, x)
                 \/ held' = Given(VarEmplace(held, i, x), i, x)
                 \/ held.first = 0 /\ held' = Given(VarFromArgs(held, i, x), i, x)
                 \/ held.first # 0 /\ held' = Unknown(VarFromArgs(held, i, x))
          \/ \E t \in Types : held' = Unknown(VarEmplaceThrows(held, i, t))
          \/ held' = Given(VarCopyCtor(held, i, o(i)), i, held.want[o(i)])
          \/ \E j \in 1 .. 2 :
                 \/ held.tag[i] = held.tag[j] /\ held' = Given(VarCopyAssign(held, i, j), i, held.want[j])
                 \/ held.tag[i] # held.tag[j] /\ held' = Unknown(VarCopyAssign(held, i, j))
  BY DEF NextVariant
<1>2. o(i) \in 1 .. 2
  OBVIOUS
<1> HIDE DEF o
<1>3. ASSUME NEW x \in Objects,
             \/ held' = Given(VarFrom(held, i, x), i, x)
             \/ held' = Given(VarEmplace(held, i, x), i, x)
             \/ held.first = 0 /\ held' = Given(VarFromArgs(held, i, x), i, x)
      PROVE  VarInv(held')
  <2>1. x \in Objects
    BY DEF Objects, Types
  <2>2. VarGets(held, VarFrom(held, i, x), i, x) /\ VarGets(held, VarEmplace(held, i, x), i, x)
    BY <1>0, <2>1, VarFromIs
  <2>3. held.first = 0 => VarGets(held, VarFromArgs(held, i, x), i, x)
    BY <2>2, VarFirstIs DEF VarFromArgs
  <2> QED BY <1>0, <1>3, <2>2, <2>3, VarGiven
<1>4. ASSUME NEW x \in Objects, held.first # 0, held' = Unknown(VarFromArgs(held, i, x))
      PROVE  VarInv(held')
  <2> DEFINE c == VarFromArgs(held, i, x)
  <2>1. DOMAIN c = Fields /\ c.kind = "variant"
    BY <1>0, <1>4 DEF VarFromArgs, VarEnded, Destroy, Construct, Fields
  <2> HIDE DEF c
  <2>2. VarInv(Unknown(c))
    BY <2>1, VarUnknown
  <2> QED BY <1>4, <2>2 DEF c
<1>5. ASSUME NEW t \in Types, held' = Unknown(VarEmplaceThrows(held, i, t))
      PROVE  VarInv(held')
  <2> DEFINE c == VarEmplaceThrows(held, i, t)
  <2>1. DOMAIN c = Fields /\ c.kind = "variant"
    BY <1>0 DEF VarEmplaceThrows, Destroy, Fields
  <2> HIDE DEF c
  <2>2. VarInv(Unknown(c))
    BY <2>1, VarUnknown
  <2> QED BY <1>5, <2>2 DEF c
<1>6. CASE held' = Given(VarCopyCtor(held, i, o(i)), i, held.want[o(i)])
  <2>1. VarGets(held, VarCopyCtor(held, i, o(i)), i, held.want[o(i)])
    BY <1>0, <1>2, VarFromIs DEF VarCopyCtor
  <2> QED BY <1>0, <1>6, <2>1, VarGiven
<1>7. ASSUME NEW j \in 1 .. 2, held.tag[i] = held.tag[j], held' = Given(VarCopyAssign(held, i, j), i, held.want[j])
      PROVE  VarInv(held')
  <2>1. VarGets(held, VarCopyAssign(held, i, j), i, held.want[j])
    BY <1>0, <1>7, VarCopyIs
  <2> QED BY <1>0, <1>7, <2>1, VarGiven
<1>8. ASSUME NEW j \in 1 .. 2, held' = Unknown(VarCopyAssign(held, i, j))
      PROVE  VarInv(held')
  <2> DEFINE c == VarCopyAssign(held, i, j)
  <2>1. DOMAIN c = Fields /\ c.kind = "variant"
    BY <1>0 DEF VarCopyAssign, Fields
  <2> HIDE DEF c
  <2>2. VarInv(Unknown(c))
    BY <2>1, VarUnknown
  <2> QED BY <1>8, <2>2 DEF c
<1> QED BY <1>1, <1>3, <1>4, <1>5, <1>6, <1>7, <1>8

-----------------------------------------------------------------------------

Fresh(s, kind, t, x) ==
    /\ Shaped(s) /\ s.kind = kind /\ ~s.torn /\ s.lost = {} /\ s.forgot = {}
    /\ \A k \in 1 .. 2 : s.tag[k] = t /\ s.cell[k] = x /\ s.want[k] = <<>>
    /\ s.tag[3] = "none" /\ s.cell[3] = <<>>
    /\ \A k \in 1 .. 3 : s.inv[k] = "none"
    /\ \A p \in 1 .. MaxHeap : s.heap[p] = <<>>
HoldersInv(s) == AnyInv(s) \/ FnInv(s) \/ OptInv(s) \/ VarInv(s)

LEMMA HoldersInit ==
    ASSUME InitValues
    PROVE  HoldersInv(held)
<1>0. Default \in Objects /\ Default[1] = "small"
  BY ValuesAssumption DEF Default, Objects, Types
<1>1. ASSUME NEW kind, NEW t \in Tags, NEW x
      PROVE  Fresh(HoldersOf(kind, t, x), kind, t, x)
  BY DEF HoldersOf, Fresh, Shaped, Fields, Tags, NoType, Raw
<1>2. ASSUME NEW kind, held = HoldersOf(kind, NoType, Raw) PROVE Fitted(held) /\ Answers(held) /\ held.kind = kind
  <2>1. /\ Shaped(held) /\ held.kind = kind /\ ~held.torn /\ held.lost = {}
        /\ \A k \in 1 .. 3 : held.tag[k] = "none" /\ held.cell[k] = <<>> /\ held.inv[k] = "none"
        /\ \A k \in 1 .. 2 : held.want[k] = <<>>
        /\ \A p \in 1 .. MaxHeap : held.heap[p] = <<>>
    <3>1. "none" \in Tags
      BY DEF Tags
    <3>2. Fresh(held, kind, "none", <<>>)
      BY <1>1, <1>2, <3>1 DEF NoType, Raw
    <3> QED BY <3>2 DEF Fresh
  <2>2. \A k \in 1 .. 3 : Fits(held, k) /\ Value(held, k) = <<>>
    BY <2>1 DEF Fits, Value, Has, NoType
  <2>3. Whole(held)
    BY <2>1, <2>2 DEF Whole
  <2> QED BY <2>1, <2>2, <2>3 DEF Fitted, Answers
<1>3. CASE held = HoldersOf("any", NoType, Raw)
  BY <1>2, <1>3 DEF HoldersInv, AnyInv, Fitted
<1>4. CASE held = HoldersOf("function", NoType, Raw)
  BY <1>2, <1>4 DEF HoldersInv, FnInv
<1>5. CASE held = HoldersOf("optional", NoType, Default)
  <2>1. /\ Shaped(held) /\ held.kind = "optional" /\ ~held.torn /\ held.lost = {} /\ held.forgot = {}
        /\ \A k \in 1 .. 3 : held.tag[k] = "none" /\ held.cell[k] \in {<<>>, Default}
        /\ \A k \in 1 .. 2 : held.want[k] = <<>>
    <3>1. "none" \in Tags
      BY DEF Tags
    <3>2. Fresh(held, "optional", "none", Default)
      BY <1>1, <1>5, <3>1 DEF NoType
    <3> QED BY <3>2 DEF Fresh
  <2>2. OptInv(held)
    BY <2>1 DEF OptInv, OptWell, Unseen, Got
  <2> QED BY <2>2 DEF HoldersInv
<1>6. CASE held = [HoldersOf("variant", "small", Default) EXCEPT !.want = <<Default, Default>>]
  <2> DEFINE c == HoldersOf("variant", "small", Default)
             d == Default
  <2>1. /\ Shaped(c) /\ c.kind = "variant" /\ ~c.torn /\ c.lost = {}
        /\ \A k \in 1 .. 2 : c.tag[k] = "small" /\ c.cell[k] = d
    <3>1. "small" \in Tags
      BY DEF Tags
    <3>2. Fresh(c, "variant", "small", d)
      BY <1>1, <3>1
    <3> QED BY <3>2 DEF Fresh
  <2> HIDE DEF c
  <2>0. 1 \in 1 .. 2 /\ 2 \in 1 .. 2
    OBVIOUS
  <2>2. Wants(c, [c EXCEPT !.want = <<d, d>>], 1, d, 2, d)
    <3> HIDE DEF d
    <3> QED BY <2>0, <2>1, WantsAre
  <2>3. held = [c EXCEPT !.want = <<d, d>>]
    BY <1>6 DEF c
  <2>4. Wants(c, held, 1, d, 2, d) /\ d \in Objects /\ d[1] = "small"
    BY <1>0, <2>2, <2>3
  <2> HIDE DEF d
  <2>5. Same(c, held) /\ \A k \in 1 .. 2 : held.want[k] = d
    BY <2>4 DEF Wants
  <2>6. VarInv(held)
    BY <2>1, <2>4, <2>5 DEF Same, VarInv, Full
  <2> QED BY <2>6 DEF HoldersInv
<1> QED BY <1>3, <1>4, <1>5, <1>6 DEF InitValues

LEMMA HoldersStep ==
    ASSUME HoldersInv(held), [NextValues]_held
    PROVE  HoldersInv(held')
<1>1. CASE UNCHANGED held
  BY <1>1
<1>2. CASE NextAny
  <2>1. AnyInv(held)
    BY <1>2 DEF HoldersInv, FnInv, OptInv, VarInv, NextAny, Step
  <2> QED BY <1>2, <2>1, NextAnyIs DEF HoldersInv
<1>3. CASE NextFunction
  <2>1. FnInv(held)
    BY <1>3 DEF HoldersInv, AnyInv, OptInv, VarInv, NextFunction, Step
  <2> QED BY <1>3, <2>1, NextFunctionIs DEF HoldersInv
<1>4. CASE NextOptional
  <2>1. OptInv(held)
    BY <1>4 DEF HoldersInv, AnyInv, FnInv, VarInv, NextOptional, Step
  <2> QED BY <1>4, <2>1, NextOptionalIs DEF HoldersInv
<1>5. CASE NextVariant
  <2>1. VarInv(held)
    BY <1>5 DEF HoldersInv, AnyInv, FnInv, OptInv, NextVariant, Step
  <2> QED BY <1>5, <2>1, NextVariantIs DEF HoldersInv
<1> QED BY <1>1, <1>2, <1>3, <1>4, <1>5 DEF NextValues

-----------------------------------------------------------------------------

LEMMA TwoCount ==
    ASSUME NEW a, NEW b, a # b
    PROVE  Cardinality({a, b}) = 2
<1>1. Cardinality({a}) = 1 /\ IsFiniteSet({a}) /\ b \notin {a}
  BY FS_Singleton
<1>2. Cardinality({a} \cup {b}) = 2
  BY <1>1, FS_AddElement
<1>3. {a} \cup {b} = {a, b}
  OBVIOUS
<1> QED BY <1>2, <1>3

(* As many objects in the heap as holders that have theirs there.          *)
LEMMA HeapCount ==
    ASSUME Whole(held), held.tag[3] = "none"
    PROVE  Cardinality({p \in 1 .. MaxHeap : held.heap[p] # <<>>}) = Cardinality({i \in 1 .. 2 : held.tag[i] = "big"})
<1> DEFINE H == {p \in 1 .. MaxHeap : held.heap[p] # <<>>}
           B == {i \in 1 .. 2 : held.tag[i] = "big"}
<1>1. ASSUME NEW i \in 1 .. 2, held.tag[i] = "big"
      PROVE  \E p \in H : held.cell[i] = <<p>>
  <2>1. PICK p \in 1 .. MaxHeap : InHeap(held, i, p)
    BY <1>1 DEF Whole, Fits
  <2> QED BY <2>1, ThingIs DEF InHeap
<1>2. ASSUME NEW p \in H
      PROVE  \E i \in B : held.cell[i] = <<p>>
  <2>1. PICK i \in 1 .. 3 : held.tag[i] = "big" /\ held.cell[i] = <<p>>
    BY DEF Whole
  <2> QED BY <2>1
<1>3. \A p, q : <<p>> = <<q>> => p = q
  OBVIOUS
<1>4. ASSUME held.tag[1] # "big" /\ held.tag[2] # "big"
      PROVE  Cardinality(H) = Cardinality(B)
  <2>1. B = {} /\ H = {}
    BY <1>2, <1>4
  <2> QED BY <2>1
<1>5. ASSUME NEW i \in 1 .. 2, NEW j \in 1 .. 2, i # j, held.tag[i] = "big", held.tag[j] # "big"
      PROVE  Cardinality(H) = Cardinality(B)
  <2>1. PICK p \in H : held.cell[i] = <<p>>
    BY <1>1, <1>5
  <2>2. B = {i}
    BY <1>5
  <2>3. H = {p}
    BY <1>2, <1>3, <2>1, <2>2
  <2> HIDE DEF H, B
  <2> QED BY <2>2, <2>3, FS_Singleton
<1>6. ASSUME held.tag[1] = "big" /\ held.tag[2] = "big"
      PROVE  Cardinality(H) = Cardinality(B)
  <2>1. PICK p \in H : held.cell[1] = <<p>>
    BY <1>1, <1>6
  <2>2. PICK q \in H : held.cell[2] = <<q>>
    BY <1>1, <1>6
  <2>3. held.cell[1] # held.cell[2]
    BY <1>6 DEF Whole
  <2>4. p # q
    BY <2>1, <2>2, <2>3
  <2>5. B = {1, 2} /\ B \in SUBSET {1, 2} /\ 1 \in B /\ 2 \in B
    BY <1>6
  <2>6. H = {p, q}
    BY <1>2, <1>3, <2>1, <2>2, <2>5
  <2> HIDE DEF H, B
  <2>8. Cardinality({p, q}) = 2
    BY <2>4, TwoCount
  <2>9. Cardinality(B) = 2
    BY <2>5, PairCount
  <2> QED BY <2>6, <2>8, <2>9
<1>8. 1 \in 1 .. 2 /\ 2 \in 1 .. 2
  OBVIOUS
<1> HIDE DEF H, B
<1>9. Cardinality(H) = Cardinality(B)
  <2>1. CASE held.tag[1] = "big" /\ held.tag[2] = "big"
    BY <1>6, <2>1
  <2>2. CASE held.tag[1] = "big" /\ held.tag[2] # "big"
    BY <1>5, <1>8, <2>2
  <2>3. CASE held.tag[1] # "big" /\ held.tag[2] = "big"
    BY <1>5, <1>8, <2>3
  <2>4. CASE held.tag[1] # "big" /\ held.tag[2] # "big"
    BY <1>4, <2>4
  <2> QED BY <2>1, <2>2, <2>3, <2>4
<1> QED BY <1>9 DEF H, B

LEMMA OwnersAreSound ==
    ASSUME Fitted(held) \/ (Whole(held) /\ held.kind = "any"), Answers(held)
    PROVE  OwnersOfValuesSound
<1>0. Whole(held) /\ (held.kind = "function" => Fitted(held))
  BY DEF Fitted
<1>1. /\ held.tag[3] = "none" /\ held.cell[3] = <<>> /\ ~held.torn /\ held.lost = {}
      /\ \A i \in 1 .. 2 : i \in 1 .. 3 /\ held.want[i] = Value(held, i)
  <2>1. 3 \in 1 .. 3 /\ Value(held, 3) = <<>> /\ \A i \in 1 .. 2 : i \in 1 .. 3 /\ held.want[i] = Value(held, i)
    BY DEF Answers
  <2>2. held.tag[3] = "none"
    BY <1>0, <2>1, TagOf
  <2>3. held.cell[3] = <<>>
    BY <1>0, <2>1, <2>2 DEF Whole, Fits
  <2> QED BY <1>0, <2>1, <2>2, <2>3 DEF Whole
<1>3. held.tag[1] = "big" /\ held.tag[2] = "big" => held.cell[1] # held.cell[2]
  BY <1>0 DEF Whole
<1>4. ASSUME NEW i \in 1 .. 2, NEW t \in Types
      PROVE  /\ Has(held, i) <=> held.want[i] # <<>>
             /\ AnyCast(held, i, t) = IF held.want[i] # <<>> /\ held.want[i][1] = t THEN held.want[i] ELSE <<>>
             /\ held.kind = "function" =>
                  /\ FnCall(held, i) = IF held.want[i] = <<>> THEN <<"throws">> ELSE <<held.want[i][1], held.want[i]>>
                  /\ FnTarget(held, i, t) = AnyCast(held, i, t)
  <2>1. /\ Has(held, i) <=> held.want[i] # <<>>
        /\ held.tag[i] = IF held.want[i] = <<>> THEN "none" ELSE held.want[i][1]
        /\ held.want[i] # <<>> => held.want[i] = Stored(held, i)
    BY <1>0, <1>1, TagOf, ValueIs
  <2>2. t # "none"
    BY DEF Types
  <2>3. held.kind = "function" => held.inv[i] = held.tag[i]
    BY <1>0, <1>1 DEF Fitted
  <2>4. AnyCast(held, i, t) = IF held.want[i] # <<>> /\ held.want[i][1] = t THEN held.want[i] ELSE <<>>
    BY <2>1, <2>2 DEF AnyCast, Raw
  <2>5. held.kind = "function" => FnCall(held, i) = IF held.want[i] = <<>> THEN <<"throws">> ELSE <<held.want[i][1], held.want[i]>>
    BY <2>1, <2>3 DEF FnCall
  <2>6. FnTarget(held, i, t) = AnyCast(held, i, t)
    BY DEF FnTarget, AnyCast
  <2> QED BY <2>1, <2>4, <2>5, <2>6
<1>5. Cardinality({p \in 1 .. MaxHeap : held.heap[p] # <<>>}) = Cardinality({i \in 1 .. 2 : held.tag[i] = "big"})
  BY <1>0, <1>1, HeapCount
<1> QED BY <1>1, <1>3, <1>4, <1>5 DEF OwnersOfValuesSound, Raw, Temp

LEMMA OptionalsAreSound ==
    ASSUME OptInv(held)
    PROVE  OptionalsSound
<1> DEFINE f == held.forgot
<1>1. OptWell(held, f) /\ ~held.torn /\ held.lost \subseteq {Default} \cup f
  BY DEF OptInv, OptWell
<1>2. ASSUME NEW i \in 1 .. 2
      PROVE  /\ i \in 1 .. 3 /\ i # 3 /\ Got(held, i) = held.want[i]
             /\ Has(held, i) <=> held.want[i] # <<>>
             /\ held.want[i] # <<>> => held.cell[i] = held.want[i] /\ held.want[i] \in Smalls
  BY <1>1, HasIs DEF OptInv
<1>3. ASSUME NEW i \in 1 .. 2, NEW j \in 1 .. 2
      PROVE  Has(OptOrElse(held, i, j), Temp) <=> held.want[i] # <<>> \/ held.want[j] # <<>>
  <2>1. \A k \in 1 .. 2 : LET e == OptCopyCtor(held, 3, k)
                         IN  OptWell(e, f) /\ Got(e, 3) = held.want[k]
    BY <1>1, <1>2, OptCopyIs DEF OptGets
  <2>2. \A k \in 1 .. 2 : Has(OptCopyCtor(held, 3, k), 3) <=> held.want[k] # <<>>
    BY <2>1, HasIs
  <2> QED BY <1>2, <2>2 DEF OptOrElse, Temp
<1>4. ASSUME NEW i \in 1 .. 2
      PROVE  ~Has(OptTransform(held, i), Temp)
  <2> DEFINE g == f \cup {held.cell[i]}
             e == OptTransform(held, i)
  <2>1. OptWell(held, g) /\ held.cell[i] \in g
    BY <1>1, OptMore
  <2> HIDE DEF g
  <2>2. OptGets(held, e, 3, <<>>, g)
    BY <2>1, OptMakingIs DEF OptTransform, Temp
  <2> HIDE DEF e
  <2>3. OptWell(e, g) /\ Got(e, 3) = <<>>
    BY <2>2 DEF OptGets
  <2> QED BY <2>3, HasIs DEF e, Temp
<1>5. ASSUME NEW i \in 1 .. 2, NEW j \in 1 .. 2
      PROVE  LET a == held.want[i]
                 b == held.want[j]
                 less == a # <<>> /\ b # <<>> /\ a[2] < b[2]
             IN  /\ OptEqual(held, i, j) <=> a = b
                 /\ OptLess(held, i, j) <=> less
                 /\ OptAtMost(held, i, j) <=> OptAtLeast(held, i, j)
                 /\ OptAtLeast(held, i, j) <=> ~less
  <2> DEFINE a == held.want[i]
             b == held.want[j]
             less == a # <<>> /\ b # <<>> /\ a[2] < b[2]
  <2>1. \A x \in Smalls : x = <<"small", x[2]>> /\ x[2] \in Int
    BY ThingIs, ValuesAssumption DEF Smalls, Objects, Types
  <2>2. OptEqual(held, i, j) <=> a = b
    <3>1. \A k \in 1 .. 2 : Has(held, k) \in BOOLEAN
      BY DEF Has
    <3>2. OptEqual(held, i, j) <=> (a # <<>> <=> b # <<>>) /\ (a # <<>> => a[2] = b[2])
      BY <1>2, <3>1 DEF OptEqual, Number
    <3> QED BY <1>2, <2>1, <3>2
  <2>3. OptLess(held, i, j) <=> less
    BY <1>2, <2>1 DEF OptLess, OptGreater, Number
  <2> HIDE DEF less
  <2>4. (OptAtMost(held, i, j) <=> OptAtLeast(held, i, j)) /\ (OptAtLeast(held, i, j) <=> ~less)
    BY <2>3 DEF OptAtMost, OptAtLeast
  <2> QED BY <2>2, <2>3, <2>4 DEF less
<1>6. ASSUME NEW i \in 1 .. 2
      PROVE  OptValueOr(held, i, Default) = IF held.want[i] = <<>> THEN Default ELSE held.want[i]
  BY <1>2 DEF OptValueOr
<1> QED BY <1>1, <1>2, <1>3, <1>4, <1>5, <1>6 DEF OptionalsSound, Raw

LEMMA VariantsAreSound ==
    ASSUME VarInv(held)
    PROVE  VariantsSound
<1> SUFFICES ASSUME held.known
             PROVE  /\ ~held.torn /\ held.lost = {}
                    /\ \A i, j \in 1 .. 2 :
                        /\ held.cell[i] = held.want[i]
                        /\ \A t \in Types : VarGetIf(held, i, t) = IF held.want[i][1] = t THEN held.want[i] ELSE Raw
                        /\ VarEqual(held, i, j) <=> held.want[i] = held.want[j]
                        /\ held.tag[i] = held.tag[j] => (VarAtMost(held, i, j) <=> Number(held, i) <= Number(held, j))
                        /\ held.tag[i] # held.tag[j] => VarAtMost(held, i, j) /\ VarAtMost(held, j, i)
  BY DEF VariantsSound
<1>1. ~held.torn /\ held.lost = {}
  BY DEF VarInv, Full
<1>2. \A i \in 1 .. 2 :
         /\ held.cell[i] = held.want[i] /\ held.tag[i] = held.cell[i][1] /\ held.cell[i][2] \in Int
         /\ held.cell[i] = <<held.cell[i][1], held.cell[i][2]>>
  BY ThingIs, ValuesAssumption DEF VarInv, Full
<1>3. ASSUME NEW i \in 1 .. 2, NEW j \in 1 .. 2
      PROVE  /\ \A t \in Types : VarGetIf(held, i, t) = IF held.want[i][1] = t THEN held.want[i] ELSE Raw
             /\ VarEqual(held, i, j) <=> held.want[i] = held.want[j]
             /\ held.tag[i] = held.tag[j] => (VarAtMost(held, i, j) <=> Number(held, i) <= Number(held, j))
             /\ held.tag[i] # held.tag[j] => VarAtMost(held, i, j) /\ VarAtMost(held, j, i)
  <2>1. \A t \in Types : VarGetIf(held, i, t) = IF held.want[i][1] = t THEN held.want[i] ELSE Raw
    BY <1>2 DEF VarGetIf
  <2>2. VarEqual(held, i, j) <=> held.want[i] = held.want[j]
    BY <1>2 DEF VarEqual, Number
  <2>3. held.tag[i] = held.tag[j] => (VarAtMost(held, i, j) <=> Number(held, i) <= Number(held, j))
    BY <1>2 DEF VarAtMost, VarLess, Number
  <2>4. held.tag[i] # held.tag[j] => VarAtMost(held, i, j) /\ VarAtMost(held, j, i)
    BY DEF VarAtMost, VarLess
  <2> QED BY <2>1, <2>2, <2>3, <2>4
<1> QED BY <1>1, <1>2, <1>3

(* An object that is held is the one given last, built once and destroyed  *)
(* once, whatever is made, copied, moved, swapped and reset: ValuesSound   *)
(* of optional, any, variant and function, for all sets of numbers.        *)
THEOREM HoldersStaySound == SpecValues => []ValuesSound
<1>1. InitValues => HoldersInv(held)
  BY HoldersInit
<1>2. HoldersInv(held) /\ [NextValues]_held => HoldersInv(held)'
  BY HoldersStep DEF HoldersInv
<1>3. HoldersInv(held) => ValuesSound
  <2>1. ASSUME OptInv(held) PROVE ValuesSound
    BY <2>1, OptionalsAreSound DEF OptInv, ValuesSound
  <2>2. ASSUME VarInv(held) PROVE ValuesSound
    BY <2>2, VariantsAreSound DEF VarInv, ValuesSound
  <2>3. ASSUME AnyInv(held) \/ FnInv(held) PROVE ValuesSound
    <3>1. OwnersOfValuesSound /\ (held.kind = "any" \/ held.kind = "function")
      BY <2>3, OwnersAreSound DEF AnyInv, FnInv
    <3> QED BY <3>1 DEF ValuesSound
  <2> QED BY <2>1, <2>2, <2>3 DEF HoldersInv
<1> QED BY <1>1, <1>2, <1>3, PTL DEF SpecValues

=============================================================================
