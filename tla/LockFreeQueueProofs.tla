------------------------- MODULE LockFreeQueueProofs -------------------------
(***************************************************************************)
(* That the split counts of LockFreeQueue keep the nodes that are in use   *)
(* and free all others, and that the queue is a FifoQueue, for any number  *)
(* of calls and nodes.                                                     *)
(***************************************************************************)
EXTENDS LockFreeQueue, FiniteSetTheorems, SequenceTheorems, WellFoundedInduction, TLAPS

(* What the proofs take of the constants: more values of a count than there*)
(* are calls, and a new node without data.                                 *)
Enough ==
    /\ IsFiniteSet(Threads) /\ IsFiniteSet(Nodes)
    /\ Cardinality(Threads) < CountMod /\ 1 < CountMod

-----------------------------------------------------------------------------
(* Counting modulo CountMod.                                               *)

Same(x, y) == \E z \in Int : x = y + z * CountMod

LEMMA ModRange == ASSUME Enough, NEW x \in Int PROVE x % CountMod \in 0 .. CountMod - 1
BY QueueAssumption, SMT

LEMMA ModSame == ASSUME NEW x \in Int PROVE Same(x % CountMod, x)
<1>1. x = (CountMod * (x \div CountMod)) + (x % CountMod)
  BY QueueAssumption, SMT
<1>2. x \div CountMod \in Int /\ x % CountMod \in Int
  BY QueueAssumption, SMT
<1>3. x % CountMod = x + (-(x \div CountMod)) * CountMod
  BY <1>1, <1>2, QueueAssumption, SMT
<1> QED BY <1>2, <1>3 DEF Same

LEMMA SameTrans ==
    ASSUME NEW x \in Int, NEW y \in Int, NEW z \in Int, Same(x, y), Same(y, z)
    PROVE  Same(x, z)
<1>1. PICK i \in Int : x = y + i * CountMod
  BY DEF Same
<1>2. PICK j \in Int : y = z + j * CountMod
  BY DEF Same
<1>3. x = z + (i + j) * CountMod
  BY <1>1, <1>2, QueueAssumption, SMT
<1> QED BY <1>3 DEF Same

LEMMA SameAdd ==
    ASSUME NEW x \in Int, NEW y \in Int, NEW c \in Int, NEW d \in Int, Same(x, y), Same(c, d)
    PROVE  Same(x + c, y + d)
<1>1. PICK i \in Int : x = y + i * CountMod
  BY DEF Same
<1>2. PICK j \in Int : c = d + j * CountMod
  BY DEF Same
<1>3. x + c = y + d + (i + j) * CountMod
  BY <1>1, <1>2, QueueAssumption, SMT
<1> QED BY <1>3 DEF Same

LEMMA SameRefl == ASSUME NEW x \in Int PROVE Same(x, x)
<1>1. x = x + 0 * CountMod
  BY QueueAssumption, SMT
<1> QED BY <1>1 DEF Same

LEMMA SameEqual ==
    ASSUME NEW x \in 0 .. CountMod - 1, NEW y \in 0 .. CountMod - 1, Same(x, y)
    PROVE  x = y
<1>1. PICK i \in Int : x = y + i * CountMod
  BY DEF Same
<1>2. ASSUME i >= 1 PROVE FALSE
  <2>1. i * CountMod >= CountMod
    BY <1>2, QueueAssumption, SMT
  <2> QED BY <1>1, <2>1, QueueAssumption
<1>3. ASSUME i <= -1 PROVE FALSE
  <2>1. i * CountMod <= -CountMod
    BY <1>3, QueueAssumption, SMT
  <2> QED BY <1>1, <2>1, QueueAssumption
<1>4. i = 0
  BY <1>2, <1>3
<1> QED BY <1>1, <1>4, QueueAssumption

(* A count that was wrapped is still the same with more added to it.       *)
LEMMA SameWrapped ==
    ASSUME NEW x \in Int, NEW y \in Int, NEW z \in Int, Same(x + y, z)
    PROVE  Same((x % CountMod) + y, z)
<1>1. Same(x % CountMod, x)
  BY ModSame
<1>0. x % CountMod \in Int
  BY QueueAssumption, SMT
<1>2. Same((x % CountMod) + y, x + y)
  BY <1>0, <1>1, SameRefl, SameAdd
<1> QED BY <1>0, <1>2, SameTrans

-----------------------------------------------------------------------------
(* A call that has counted itself in a node that it still uses.            *)
Holding(t) == pc[t] \notin {"start", "count tail", "count head", "end"}
Holds(t, n) == Holding(t) /\ old[t].ptr = n
Holders(n) == {t \in Threads : Holds(t, n)}

(* A push with a node of its own, a call that moved the tail or the head   *)
(* from a node and has not passed on what it counted.                      *)
Carries(t) ==
    pc[t] \in {"count tail", "set data", "link", "help", "help swing", "help free", "help release"}
LeavesTail(t) == pc[t] \in {"free counter", "help free"}
LeavesHead(t) == pc[t] \in {"take data", "pop free"}

(* Nodes that no call has counted yet: they are in the hands of a push, or *)
(* linked behind the tail.                                                 *)
Carried(n) == \E t \in Threads : Carries(t) /\ new[t] = n
Linked(n)  == next[tail.ptr] = n
Loose(n)   == Carried(n) \/ Linked(n)

(* The sequence s is the list from the head to the tail.                   *)
Line(s) ==
    /\ s \in Seq(Nodes) /\ s # <<>>
    /\ s[1] = head.ptr /\ s[Len(s)] = tail.ptr
    /\ \A i \in DOMAIN s : s[i] \in heap
    /\ \A i, j \in DOMAIN s : s[i] = s[j] => i = j
    /\ \A i \in 1 .. Len(s) - 1 : next[s[i]] = s[i + 1]
In(s, n) == \E i \in DOMAIN s : s[i] = n

Kinds ==
    /\ \A t \in Pushers : pc[t] \in PushPcs \cup
          {"free counter", "release", "help free", "help release", "start", "end"}
    /\ \A t \in Poppers : pc[t] \in PopPcs \cup
          {"pop free", "pop release", "give up", "start", "end"}

(* Loose nodes are new, and each is in one place.                          *)
CarriesOwn(t) ==
    /\ new[t] \in Nodes /\ ~Linked(new[t])
    /\ \A u \in Threads : Carries(u) /\ new[u] = new[t] => u = t
LooseNew(s) ==
    /\ \A n \in Nodes : Loose(n) => n \in heap /\ ~In(s, n) /\ next[n] = Null
    /\ \A t \in Threads : Carries(t) => CarriesOwn(t)

(* The tail has passed every other node but the last of the line.          *)
Passed == \A n \in heap : ~Loose(n) /\ n # tail.ptr => next[n] # Null

(* A node that a call holds is there, and what the call has read is so.    *)
HeldBy(t) ==
    /\ old[t].ptr \in heap /\ ~Loose(old[t].ptr)
    /\ pc[t] \in {"swing", "help swing"} => aim[t] = next[old[t].ptr] /\ aim[t] # Null
    /\ pc[t] \in {"read next", "move head"} => old[t].ptr # tail.ptr
    /\ pc[t] = "move head" => new[t] = next[old[t].ptr]
Held == \A t \in Threads : Holding(t) => HeldBy(t)

(* One call moves the tail from a node, and one the head.                  *)
Left(s) ==
    \A t \in Threads :
        /\ LeavesTail(t) =>
              /\ old[t].ptr # tail.ptr
              /\ \A u \in Threads : LeavesTail(u) /\ old[u].ptr = old[t].ptr => u = t
        /\ LeavesHead(t) =>
              /\ ~In(s, old[t].ptr)
              /\ \A u \in Threads : LeavesHead(u) /\ old[u].ptr = old[t].ptr => u = t

(* outer counts the tail and the head as long as they have not left.       *)
TailLeaves(n) == \E t \in Threads : LeavesTail(t) /\ old[t].ptr = n
HeadLeaves(n) == \E t \in Threads : LeavesHead(t) /\ old[t].ptr = n
TailSide(n)    == n = tail.ptr \/ Loose(n) \/ TailLeaves(n)
HeadSide(s, n) == In(s, n) \/ Loose(n) \/ HeadLeaves(n)
One(b) == IF b THEN 1 ELSE 0
Sides(s) == \A n \in heap : outer[n] = One(TailSide(n)) + One(HeadSide(s, n))

(* What the tail and the head have counted, or who left them is to pass on.*)
TailDue(n, a) ==
    /\ n = tail.ptr => a = tail.cnt - 1
    /\ \A t \in Threads : LeavesTail(t) /\ old[t].ptr = n => a = old[t].cnt - 1
    /\ n # tail.ptr /\ ~TailLeaves(n) => a = 0
HeadDue(n, b) ==
    /\ n = head.ptr => b = head.cnt - 1
    /\ \A t \in Threads : LeavesHead(t) /\ old[t].ptr = n => b = old[t].cnt - 1
    /\ n # head.ptr /\ ~HeadLeaves(n) => b = 0

Counts ==
    \A n \in heap : \E a, b \in Int :
        /\ TailDue(n, a) /\ HeadDue(n, b)
        /\ Same(inner[n] + a + b, Cardinality(Holders(n)))

(* A node that has left the list stays only while something counts it.     *)
Kept(s) == \A n \in heap : ~Loose(n) /\ ~In(s, n) => outer[n] # 0 \/ Holders(n) # {}

Shape(s) ==
    Line(s) /\ LooseNew(s) /\ Passed /\ Held /\ Left(s) /\ Sides(s) /\ Counts /\ Kept(s)

Struct(s) == TypeOK /\ ~fault /\ Kinds /\ Shape(s)

-----------------------------------------------------------------------------
(* Lemmas on states and steps.                                             *)

LEMMA HoldersFinite ==
    ASSUME Enough, NEW n
    PROVE  /\ IsFiniteSet(Holders(n)) /\ Cardinality(Holders(n)) \in 0 .. CountMod - 1
           /\ (Cardinality(Holders(n)) = 0 <=> Holders(n) = {})
<1>1. Holders(n) \in SUBSET Threads
  BY DEF Holders
<1>2. /\ IsFiniteSet(Holders(n)) /\ Cardinality(Holders(n)) \in Nat
      /\ Cardinality(Threads) \in Nat /\ Cardinality(Holders(n)) <= Cardinality(Threads)
  BY <1>1, FS_Subset, FS_CardinalityType DEF Enough
<1>3. Cardinality(Holders(n)) = 0 <=> Holders(n) = {}
  BY <1>2, FS_EmptySet
<1> QED BY <1>2, <1>3, QueueAssumption DEF Enough

(* A step that neither counts nor links anything.                          *)
LEMMA QuietKeeps ==
    ASSUME NEW s, Struct(s), UNCHANGED <<heap, next, inner, outer, head, tail, old>>,
           \A u \in Threads :
              /\ (Holding(u)' <=> Holding(u)) /\ (Carries(u)' <=> Carries(u))
              /\ (LeavesTail(u)' <=> LeavesTail(u)) /\ (LeavesHead(u)' <=> LeavesHead(u))
              /\ Carries(u) => new'[u] = new[u]
    PROVE  (Line(s) /\ LooseNew(s) /\ Passed /\ Left(s) /\ Sides(s) /\ Counts /\ Kept(s))'
<1>1. \A n : (Loose(n)' <=> Loose(n))
  BY DEF Loose, Carried, Linked
<1>2. \A n : (TailLeaves(n)' <=> TailLeaves(n)) /\ (HeadLeaves(n)' <=> HeadLeaves(n))
  BY DEF TailLeaves, HeadLeaves
<1>3. \A n : Holders(n)' = Holders(n)
  BY DEF Holders, Holds
<1>4. Line(s)'
  BY DEF Struct, Shape, Line
<1>5. LooseNew(s)'
  BY <1>1 DEF Struct, Shape, LooseNew, CarriesOwn, Linked, In
<1>6. Passed'
  BY <1>1 DEF Struct, Shape, Passed
<1>7. Left(s)'
  BY DEF Struct, Shape, Left, In
<1>8. Sides(s)'
  BY <1>1, <1>2 DEF Struct, Shape, Sides, TailSide, HeadSide, In, One
<1>9. Counts'
  <2>1. \A n : \A a : TailDue(n, a)' <=> TailDue(n, a)
    BY <1>2 DEF TailDue
  <2>2. \A n : \A a : HeadDue(n, a)' <=> HeadDue(n, a)
    BY <1>2 DEF HeadDue
  <2> QED BY <1>3, <2>1, <2>2 DEF Struct, Shape, Counts, Same
<1>10. Kept(s)'
  BY <1>1, <1>3 DEF Struct, Shape, Kept, In
<1> QED BY <1>4, <1>5, <1>6, <1>7, <1>8, <1>9, <1>10

LEMMA WrapRange == ASSUME Enough, NEW x \in Int PROVE Wrap(x) \in 0 .. CountMod - 1
BY ModRange DEF Wrap

(* A call that holds a node holds a node in memory; its pc tells which of  *)
(* push and pop it is.                                                     *)
LEMMA HeldNode ==
    ASSUME NEW s, Struct(s), NEW t \in Threads, Holding(t)
    PROVE  /\ old[t].ptr \in heap /\ old[t].ptr \in Nodes /\ ~Loose(old[t].ptr)
           /\ old[t].cnt \in 0 .. CountMod - 1
BY DEF Struct, Shape, Held, HeldBy, TypeOK, CountedPtrs

LEMMA TypeKeeps ==
    ASSUME Enough, NEW s, Struct(s), NEW t \in Threads, Step(t)
    PROVE  TypeOK' /\ ~fault' /\ Kinds'
<1> USE QueueAssumption
<1>1. TypeOK /\ Kinds /\ ~fault
  BY DEF Struct
<1>2. Holding(t) => old[t].ptr \in heap /\ old[t].ptr \in Nodes /\ old[t].cnt \in 0 .. CountMod - 1
  BY HeldNode
<1>3. CASE PushStart(t)
  <2>1. pc' \in [Threads -> Pcs] /\ Kinds'
    BY <1>1, <1>3 DEF PushStart, Goto, TypeOK, Kinds, Pcs, PushPcs, PopPcs, DropPcs, Threads
  <2>3. PICK n \in Nodes, x \in FreshData :
          /\ NewNode(n, x) /\ heap' = heap \cup {n} /\ new' = [new EXCEPT ![t] = n]
    BY <1>3 DEF PushStart
  <2>2. TypeOK'
    <3>1. data' \in [Nodes -> Pushers \cup {Null, Garbage}]
      BY <1>1, <2>3 DEF NewNode, TypeOK
    <3>2. next' \in [Nodes -> Nodes \cup {Null}]
      BY <1>1, <2>3 DEF NewNode, TypeOK
    <3>3. inner' \in [Nodes -> 0 .. CountMod - 1]
      BY <1>1, <2>3 DEF NewNode, TypeOK
    <3>4. outer' \in [Nodes -> 0 .. 3]
      BY <1>1, <2>3 DEF NewNode, TypeOK
    <3>5. new' \in [Threads -> Nodes \cup {Null}]
      BY <1>1, <2>3 DEF NewNode, TypeOK
    <3>6. heap' \subseteq Nodes
      BY <1>1, <2>3 DEF NewNode, TypeOK
    <3> QED BY <1>1, <1>3, <2>1, <3>1, <3>2, <3>3, <3>4, <3>5, <3>6 DEF PushStart, TypeOK
  <2> QED BY <1>1, <1>3, <2>1, <2>2 DEF PushStart
<1>4. CASE CountTail(t)
  <2>1. tail.cnt + 1 \in Int /\ tail \in CountedPtrs
    BY <1>1 DEF TypeOK, CountedPtrs
  <2>2. [tail EXCEPT !.cnt = Wrap(@ + 1)] \in CountedPtrs
    BY <2>1, WrapRange DEF CountedPtrs
  <2> QED BY <1>1, <1>4, <2>2 DEF CountTail, Goto, TypeOK, Kinds, Pcs, PushPcs, PopPcs, DropPcs, Threads, nodes
<1>5. CASE SetData(t)
  <2>1. pc' \in [Threads -> Pcs] /\ Kinds'
    BY <1>1, <1>5, ZenonT(60) DEF SetData, Goto, TypeOK, Kinds, Pcs, PushPcs, PopPcs, DropPcs, Threads
  <2>2. t \in Pushers /\ Holding(t)
    BY <1>1, <1>5 DEF SetData, Holding, Kinds, PopPcs, Threads
  <2>3. TypeOK'
    <3>1. data' \in [Nodes -> Pushers \cup {Null, Garbage}]
      BY <1>1, <1>2, <1>5, <2>2 DEF SetData, TypeOK
    <3> QED BY <1>1, <1>2, <1>5, <2>1, <2>2, <3>1 DEF SetData, Touch, TypeOK, local
  <2> QED BY <1>1, <1>2, <1>5, <2>1, <2>2, <2>3 DEF SetData, Touch
<1>6. CASE Link(t)
  BY <1>1, <1>2, <1>6, ZenonT(60) DEF Link, Holding, Touch, Goto, TypeOK, Kinds, Pcs, PushPcs, PopPcs, DropPcs, Threads
<1>7. CASE Help(t)
  <2>1. CASE next[old[t].ptr] = Null
    <3>1. pc' \in [Threads -> Pcs] /\ Kinds'
      BY <1>1, <1>7 DEF Help, Goto, TypeOK, Kinds, Pcs, PushPcs, PopPcs, DropPcs, Threads
    <3>2. Holding(t)
      BY <1>7 DEF Help, Holding
    <3>4. PICK n \in Nodes \ heap, x \in FreshData :
            /\ next' = [next EXCEPT ![old[t].ptr] = new[t], ![n] = Null]
            /\ data' = [data EXCEPT ![n] = x]
            /\ inner' = [inner EXCEPT ![n] = 0] /\ outer' = [outer EXCEPT ![n] = 2]
            /\ heap' = heap \cup {n} /\ aim' = [aim EXCEPT ![t] = new[t]]
            /\ new' = [new EXCEPT ![t] = n]
      BY <1>7, <2>1 DEF Help
    <3>3. TypeOK'
      <4>1. data' \in [Nodes -> Pushers \cup {Null, Garbage}]
        BY <1>1, <3>4 DEF TypeOK
      <4>2. next' \in [Nodes -> Nodes \cup {Null}]
        BY <1>1, <3>4 DEF TypeOK
      <4>3. inner' \in [Nodes -> 0 .. CountMod - 1]
        BY <1>1, <3>4 DEF TypeOK
      <4>4. outer' \in [Nodes -> 0 .. 3]
        BY <1>1, <3>4 DEF TypeOK
      <4>5. new' \in [Threads -> Nodes \cup {Null}] /\ aim' \in [Threads -> Nodes \cup {Null}]
        BY <1>1, <3>4 DEF TypeOK
      <4>6. heap' \subseteq Nodes
        BY <1>1, <3>4 DEF TypeOK
      <4> QED
        BY <1>1, <1>2, <1>7, <3>1, <3>2, <4>1, <4>2, <4>3, <4>4, <4>5, <4>6 DEF Help, Touch, TypeOK
    <3> QED BY <1>1, <1>2, <1>7, <3>1, <3>2, <3>3 DEF Help, Touch
  <2>2. CASE next[old[t].ptr] # Null
    BY <1>1, <1>2, <1>7, <2>2 DEF Help, Holding, Touch, Goto, TypeOK, Kinds, Pcs, PushPcs, PopPcs, DropPcs, Threads, nodes
  <2> QED BY <2>1, <2>2
<1>8. CASE Swing(t)
  <2>1. Counted(aim[t], 1) \in CountedPtrs
    BY <1>1 DEF TypeOK, Counted, CountedPtrs, Enough
  <2>2. pc' \in [Threads -> Pcs] /\ Kinds'
    BY <1>1, <1>8, ZenonT(60) DEF Swing, Goto, TypeOK, Kinds, Pcs, PushPcs, PopPcs, DropPcs, Threads
  <2>3. tail' \in CountedPtrs /\ old' \in [Threads -> CountedPtrs]
    <3>1. CASE AtOldTail(t)
      <4>1. tail' = Counted(aim[t], 1) /\ old' = [old EXCEPT ![t] = tail]
        BY <1>8, <3>1 DEF Swing
      <4>2. tail \in CountedPtrs /\ old \in [Threads -> CountedPtrs]
        BY <1>1 DEF TypeOK
      <4> QED BY <2>1, <4>1, <4>2
    <3>2. CASE ~AtOldTail(t)
      BY <1>1, <1>8, <3>2 DEF Swing, TypeOK
    <3> QED BY <3>1, <3>2
  <2> QED BY <1>1, <1>8, <2>2, <2>3 DEF Swing, TypeOK, nodes
<1>9. CASE FreeExternalCounter(t)
  <2>0. Holding(t)
    BY <1>9 DEF FreeExternalCounter, Holding
  <2>1. inner[old[t].ptr] \in Int /\ outer[old[t].ptr] \in 0 .. 3 /\ Increase(t) \in Int /\ Holding(t)
    BY <1>1, <1>2, <2>0 DEF TypeOK, Increase
  <2>2. Wrap(inner[old[t].ptr] + Increase(t)) \in 0 .. CountMod - 1
    BY <2>1, WrapRange
  <2>3. (outer[old[t].ptr] - 1) % 4 \in 0 .. 3
    BY <2>1
  <2>4. heap' \subseteq heap /\ fault' = FALSE
    BY <1>1, <1>2, <1>9, <2>1 DEF FreeExternalCounter, DeleteIfDead, Touch
  <2> QED BY <1>1, <1>2, <1>9, <2>2, <2>3, <2>4 DEF FreeExternalCounter, After, Goto, TypeOK, Kinds, Pcs, PushPcs, PopPcs, DropPcs, Threads, local
<1>10. CASE ReleaseRef(t)
  <2>0. Holding(t)
    BY <1>10 DEF ReleaseRef, Holding
  <2>1. inner[old[t].ptr] \in Int /\ Holding(t)
    BY <1>1, <1>2, <2>0 DEF TypeOK
  <2>2. Wrap(inner[old[t].ptr] - 1) \in 0 .. CountMod - 1
    BY <2>1, WrapRange
  <2>3. heap' \subseteq heap /\ fault' = FALSE
    BY <1>1, <1>2, <1>10, <2>1 DEF ReleaseRef, DeleteIfDead, Touch
  <2>4. ret' \in [Poppers -> Pushers \cup {Null, Garbage, Empty}]
    BY <1>1, <1>10 DEF ReleaseRef, TypeOK
  <2> QED BY <1>1, <1>2, <1>10, <2>2, <2>3, <2>4 DEF ReleaseRef, After, Goto, TypeOK, Kinds, Pcs, PushPcs, PopPcs, DropPcs, Threads
<1>11. CASE CountHead(t)
  <2>1. head.cnt + 1 \in Int /\ head \in CountedPtrs
    BY <1>1 DEF TypeOK, CountedPtrs
  <2>2. [head EXCEPT !.cnt = Wrap(@ + 1)] \in CountedPtrs
    BY <2>1, WrapRange DEF CountedPtrs
  <2> QED BY <1>1, <1>11, <2>2 DEF CountHead, Goto, TypeOK, Kinds, Pcs, PushPcs, PopPcs, DropPcs, Threads, nodes
<1>12. CASE ReadTail(t)
  BY <1>1, <1>12 DEF ReadTail, Goto, TypeOK, Kinds, Pcs, PushPcs, PopPcs, DropPcs, Threads, nodes, local
<1>13. CASE ReadNext(t)
  BY <1>1, <1>2, <1>13 DEF ReadNext, Holding, Touch, Goto, TypeOK, Kinds, Pcs, PushPcs, PopPcs, DropPcs, Threads, nodes
<1>14. CASE MoveHead(t)
  <2>1. Counted(new[t], 1) \in CountedPtrs
    BY <1>1 DEF TypeOK, Counted, CountedPtrs, Enough
  <2> QED BY <1>1, <1>14, <2>1, ZenonT(60) DEF MoveHead, Goto, TypeOK, Kinds, Pcs, PushPcs, PopPcs, DropPcs, Threads, nodes, local
<1>15. CASE TakeData(t)
  <2>1. t \in Poppers
    BY <1>1, <1>15 DEF TakeData, Kinds, PushPcs, Threads
  <2> QED BY <1>1, <1>2, <1>15, <2>1 DEF TakeData, Holding, Touch, Goto, TypeOK, Kinds, Pcs, PushPcs, PopPcs, DropPcs, Threads
<1> QED BY <1>3, <1>4, <1>5, <1>6, <1>7, <1>8, <1>9, <1>10, <1>11, <1>12, <1>13, <1>14, <1>15 DEF Step

(* Such steps: those that read, store data, or find that another call has  *)
(* done what they wanted to do.                                            *)
Quiet(t) ==
    \/ SetData(t) \/ ReadTail(t) \/ ReadNext(t) \/ TakeData(t)
    \/ Help(t) /\ next[old[t].ptr] # Null
    \/ Swing(t) /\ ~AtOldTail(t)
    \/ MoveHead(t) /\ ~SameHead(t)

LEMMA QuietShape ==
    ASSUME NEW s, Struct(s), NEW t \in Threads, Quiet(t) PROVE Shape(s)'
<1>0. /\ pc \in [Threads -> Pcs] /\ new \in [Threads -> Nodes \cup {Null}]
      /\ aim \in [Threads -> Nodes \cup {Null}]
  BY DEF Struct, TypeOK
<1>1. UNCHANGED <<heap, next, inner, outer, head, tail, old>>
  BY DEF Quiet, SetData, ReadTail, ReadNext, TakeData, Help, Swing, MoveHead, nodes, local
<1>2. \A u \in Threads \ {t} : pc'[u] = pc[u] /\ new'[u] = new[u] /\ aim'[u] = aim[u]
  BY <1>0 DEF Quiet, SetData, ReadTail, ReadNext, TakeData, Help, Swing, MoveHead, local, Goto
<1>3. \/ pc[t] = "set data" /\ pc'[t] \in {"link", "help"}
      \/ pc[t] = "read tail" /\ pc'[t] = "give up"
      \/ pc[t] = "read tail" /\ pc'[t] = "read next" /\ old[t].ptr # tail.ptr
      \/ pc[t] = "read next" /\ pc'[t] = "move head" /\ new'[t] = next[old[t].ptr]
      \/ pc[t] = "take data" /\ pc'[t] = "pop free"
      \/ pc[t] = "help" /\ pc'[t] = "help swing" /\ aim'[t] = next[old[t].ptr] /\ aim'[t] # Null
      \/ pc[t] = "swing" /\ pc'[t] = "release"
      \/ pc[t] = "help swing" /\ pc'[t] = "help release"
      \/ pc[t] = "move head" /\ pc'[t] = "pop release"
  BY <1>0, ZenonT(60) DEF Quiet, SetData, ReadTail, ReachedTail, ReadNext, TakeData, Help, Swing, MoveHead, Goto
<1>4. pc[t] # "read next" => new'[t] = new[t]
  BY <1>0 DEF Quiet, SetData, ReadTail, ReadNext, TakeData, Help, Swing, MoveHead, local, Goto
<1>5. \A u \in Threads :
         /\ (Holding(u)' <=> Holding(u)) /\ (Carries(u)' <=> Carries(u))
         /\ (LeavesTail(u)' <=> LeavesTail(u)) /\ (LeavesHead(u)' <=> LeavesHead(u))
         /\ Carries(u) => new'[u] = new[u]
  <2>1. \A u \in Threads \ {t} :
           /\ (Holding(u)' <=> Holding(u)) /\ (Carries(u)' <=> Carries(u))
           /\ (LeavesTail(u)' <=> LeavesTail(u)) /\ (LeavesHead(u)' <=> LeavesHead(u))
    BY <1>2 DEF Holding, Carries, LeavesTail, LeavesHead
  <2>2. /\ (Holding(t)' <=> Holding(t)) /\ (Carries(t)' <=> Carries(t))
        /\ (LeavesTail(t)' <=> LeavesTail(t)) /\ (LeavesHead(t)' <=> LeavesHead(t))
    BY <1>3 DEF Holding, Carries, LeavesTail, LeavesHead
  <2>3. Carries(t) => new'[t] = new[t]
    BY <1>4 DEF Carries
  <2> QED BY <1>2, <2>1, <2>2, <2>3
<1>6. (Line(s) /\ LooseNew(s) /\ Passed /\ Left(s) /\ Sides(s) /\ Counts /\ Kept(s))'
  BY <1>1, <1>5, QuietKeeps
<1>7. Held'
  <2>1. \A n : (Loose(n)' <=> Loose(n))
    BY <1>1, <1>5 DEF Loose, Carried, Linked
  <2>2. \A u \in Threads \ {t} : Holding(u)' =>
           /\ old[u].ptr \in heap /\ ~Loose(old[u].ptr)
           /\ pc'[u] \in {"swing", "help swing"} => aim'[u] = next[old[u].ptr] /\ aim'[u] # Null
           /\ pc'[u] \in {"read next", "move head"} => old[u].ptr # tail.ptr
           /\ pc'[u] = "move head" => new'[u] = next[old[u].ptr]
    BY <1>2, <1>5 DEF Struct, Shape, Held, HeldBy
  <2>3. Holding(t) => old[t].ptr \in heap /\ ~Loose(old[t].ptr)
    BY DEF Struct, Shape, Held, HeldBy
  <2>4. pc[t] = "read next" => old[t].ptr # tail.ptr
    BY DEF Struct, Shape, Held, HeldBy, Holding
  <2> QED BY <1>1, <1>3, <1>5, <2>1, <2>2, <2>3, <2>4 DEF Held, HeldBy
<1> QED BY <1>6, <1>7 DEF Shape

-----------------------------------------------------------------------------
(* A call counts itself in the node of the tail, or of the head.           *)

LEMMA CountJoins ==
    ASSUME Enough, NEW s, Struct(s), NEW t \in Threads, CountTail(t) \/ CountHead(t)
    PROVE  Shape(s)'
<1>0. /\ pc \in [Threads -> Pcs] /\ old \in [Threads -> CountedPtrs]
      /\ tail \in CountedPtrs /\ head \in CountedPtrs
      /\ tail.cnt \in Int /\ head.cnt \in Int /\ CountMod \in Int
  BY QueueAssumption DEF Struct, TypeOK, CountedPtrs
<1>1. UNCHANGED <<heap, next, inner, outer, new, aim>> /\ tail'.ptr = tail.ptr /\ head'.ptr = head.ptr
  BY <1>0 DEF CountTail, CountHead, nodes, CountedPtrs
<1>2. \A u \in Threads \ {t} : pc'[u] = pc[u] /\ old'[u] = old[u]
  BY <1>0 DEF CountTail, CountHead, Goto
<1>3. /\ ~Holding(t) /\ Holding(t)' /\ pc'[t] \in {"set data", "read tail"}
      /\ (Carries(t)' <=> Carries(t))
      /\ ~LeavesTail(t) /\ ~LeavesHead(t) /\ ~LeavesTail(t)' /\ ~LeavesHead(t)'
  <2>1. \/ pc[t] = "count tail" /\ pc'[t] = "set data"
        \/ pc[t] \in {"start", "count head"} /\ pc'[t] = "read tail"
    BY <1>0 DEF CountTail, CountHead, Goto
  <2>2. (Carries(t)' <=> Carries(t)) /\ ~Holding(t) /\ Holding(t)'
    BY <2>1 DEF Holding, Carries
  <2> QED BY <2>1, <2>2 DEF Carries, LeavesTail, LeavesHead
<1>4. \A u \in Threads \ {t} :
         /\ (Holding(u)' <=> Holding(u)) /\ (Carries(u)' <=> Carries(u))
         /\ (LeavesTail(u)' <=> LeavesTail(u)) /\ (LeavesHead(u)' <=> LeavesHead(u))
  BY <1>2 DEF Holding, Carries, LeavesTail, LeavesHead
<1>5. \A n : (Loose(n)' <=> Loose(n))
  BY <1>1, <1>3, <1>4 DEF Loose, Carried, Linked
<1>6. \A n : (TailLeaves(n)' <=> TailLeaves(n)) /\ (HeadLeaves(n)' <=> HeadLeaves(n))
  BY <1>2, <1>3, <1>4 DEF TailLeaves, HeadLeaves
<1>7. Line(s)'
  BY <1>1 DEF Struct, Shape, Line
<1>8. LooseNew(s)'
  BY <1>1, <1>3, <1>4, <1>5 DEF Struct, Shape, LooseNew, CarriesOwn, Linked, In
<1>9. Passed'
  BY <1>1, <1>5 DEF Struct, Shape, Passed
<1>10. Left(s)'
  <2>1. \A u \in Threads :
           /\ LeavesTail(u)' => LeavesTail(u) /\ old'[u] = old[u]
           /\ LeavesHead(u)' => LeavesHead(u) /\ old'[u] = old[u]
    BY <1>2, <1>3, <1>4
  <2> QED BY <1>1, <2>1 DEF Struct, Shape, Left, In
<1>11. Sides(s)'
  BY <1>1, <1>5, <1>6 DEF Struct, Shape, Sides, TailSide, HeadSide, In, One
<1>12. old'[t].ptr \in heap /\ ~Loose(old'[t].ptr)
  <2>1. In(s, tail.ptr) /\ In(s, head.ptr) /\ tail.ptr \in heap /\ head.ptr \in heap
    BY DEF Struct, Shape, Line, In
  <2>2. tail.ptr \in Nodes /\ head.ptr \in Nodes
    BY <2>1 DEF Struct, TypeOK
  <2>3. old'[t].ptr \in {tail.ptr, head.ptr}
    BY <1>0, <1>1 DEF CountTail, CountHead
  <2> QED BY <2>1, <2>2, <2>3 DEF Struct, Shape, LooseNew, CarriesOwn
<1>13. Held'
  BY <1>1, <1>2, <1>3, <1>4, <1>5, <1>12 DEF Struct, Shape, Held, HeldBy
<1>14. Kept(s)'
  <2>1. \A n : Holders(n) \subseteq Holders(n)'
    BY <1>2, <1>3, <1>4 DEF Holders, Holds
  <2> QED BY <1>1, <1>5, <2>1 DEF Struct, Shape, Kept, In
<1>15. Counts'
  <2> SUFFICES ASSUME NEW n \in heap
               PROVE  \E a, b \in Int : /\ TailDue(n, a)' /\ HeadDue(n, b)'
                                        /\ Same(inner[n] + a + b, Cardinality(Holders(n)'))
    BY <1>1 DEF Counts, Same
  <2>1. PICK a \in Int, b \in Int :
           /\ TailDue(n, a) /\ HeadDue(n, b)
           /\ Same(inner[n] + a + b, Cardinality(Holders(n)))
    BY DEF Struct, Shape, Counts
  <2>2. inner[n] \in Int
    BY QueueAssumption DEF Struct, TypeOK
  <2>3. Cardinality(Holders(n)) \in Int
    BY HoldersFinite, QueueAssumption
  <2>4. CASE old'[t].ptr # n
    <3>1. Holders(n)' = Holders(n)
      BY <1>2, <1>3, <1>4, <2>4 DEF Holders, Holds
    <3>2. TailDue(n, a)' /\ HeadDue(n, b)'
      BY <1>0, <1>1, <1>2, <1>3, <1>4, <1>6, <2>1, <2>4 DEF TailDue, HeadDue, CountTail, CountHead
    <3> QED BY <2>1, <3>1, <3>2
  <2>5. CASE old'[t].ptr = n
    <3>1. Holders(n)' = Holders(n) \cup {t} /\ t \notin Holders(n)
      BY <1>2, <1>3, <1>4, <2>5 DEF Holders, Holds
    <3>2. Cardinality(Holders(n)') = Cardinality(Holders(n)) + 1
      BY <3>1, HoldersFinite, FS_AddElement
    <3>3. Same(inner[n] + a + b + 1, Cardinality(Holders(n)) + 1)
      <4>1. inner[n] + a + b \in Int
        BY <2>2
      <4>2. Same(1, 1)
        BY SameRefl
      <4> QED BY <2>1, <2>3, <4>1, <4>2, SameAdd, SMTT(30)
    <3>4. CASE CountTail(t)
      <4>8. Wrap(tail.cnt + 1) \in Int
        BY <1>0, WrapRange, QueueAssumption
      <4>9. PICK c \in Int : c = Wrap(tail.cnt + 1) - 1
        BY <4>8
      <4>1. tail'.cnt = Wrap(tail.cnt + 1) /\ head' = head /\ n = tail.ptr
        BY <1>0, <1>1, <2>5, <3>4 DEF CountTail, CountedPtrs
      <4>2. a = tail.cnt - 1 /\ ~TailLeaves(n)
        BY <2>1, <4>1 DEF TailDue, TailLeaves, Struct, Shape, Left
      <4>3. TailDue(n, c)' /\ HeadDue(n, b)'
        <5>1. TailDue(n, c)'
          BY <1>1, <1>6, <4>1, <4>2, <4>9 DEF TailDue, TailLeaves
        <5>2. HeadDue(n, b)'
          BY <1>2, <1>3, <1>4, <1>6, <2>1, <4>1 DEF HeadDue
        <5> QED BY <5>1, <5>2
      <4>5. Same(inner[n] + c + b, Cardinality(Holders(n)) + 1)
        <5>1. (tail.cnt + 1) + (inner[n] + b - 1) = inner[n] + a + b + 1
          BY <1>0, <2>2, <4>2
        <5>2. Same((tail.cnt + 1) + (inner[n] + b - 1), Cardinality(Holders(n)) + 1)
          BY <3>3, <5>1
        <5>3. Same(Wrap(tail.cnt + 1) + (inner[n] + b - 1), Cardinality(Holders(n)) + 1)
          BY <1>0, <2>2, <2>3, <5>2, SameWrapped DEF Wrap
        <5>4. Wrap(tail.cnt + 1) + (inner[n] + b - 1) = inner[n] + c + b
          BY <2>2, <4>8, <4>9
        <5> QED BY <5>3, <5>4
      <4> QED BY <3>2, <4>3, <4>5
    <3>5. CASE CountHead(t)
      <4>8. Wrap(head.cnt + 1) \in Int
        BY <1>0, WrapRange, QueueAssumption
      <4>9. PICK c \in Int : c = Wrap(head.cnt + 1) - 1
        BY <4>8
      <4>1. head'.cnt = Wrap(head.cnt + 1) /\ tail' = tail /\ n = head.ptr
        BY <1>0, <1>1, <2>5, <3>5 DEF CountHead, CountedPtrs
      <4>0. In(s, head.ptr)
        BY DEF Struct, Shape, Line, In
      <4>2. b = head.cnt - 1 /\ ~HeadLeaves(n)
        BY <2>1, <4>0, <4>1 DEF HeadDue, HeadLeaves, Struct, Shape, Left
      <4>3. TailDue(n, a)' /\ HeadDue(n, c)'
        <5>1. HeadDue(n, c)'
          BY <1>1, <1>6, <4>1, <4>2, <4>9 DEF HeadDue, HeadLeaves
        <5>2. TailDue(n, a)'
          BY <1>2, <1>3, <1>4, <1>6, <2>1, <4>1 DEF TailDue
        <5> QED BY <5>1, <5>2
      <4>5. Same(inner[n] + a + c, Cardinality(Holders(n)) + 1)
        <5>1. (head.cnt + 1) + (inner[n] + a - 1) = inner[n] + a + b + 1
          BY <1>0, <2>2, <4>2
        <5>2. Same((head.cnt + 1) + (inner[n] + a - 1), Cardinality(Holders(n)) + 1)
          BY <3>3, <5>1
        <5>3. Same(Wrap(head.cnt + 1) + (inner[n] + a - 1), Cardinality(Holders(n)) + 1)
          BY <1>0, <2>2, <2>3, <5>2, SameWrapped DEF Wrap
        <5>4. Wrap(head.cnt + 1) + (inner[n] + a - 1) = inner[n] + a + c
          BY <2>2, <4>8, <4>9
        <5> QED BY <5>3, <5>4
      <4> QED BY <3>2, <4>3, <4>5
    <3> QED BY <3>4, <3>5
  <2> QED BY <2>4, <2>5
<1> QED BY <1>7, <1>8, <1>9, <1>10, <1>11, <1>13, <1>14, <1>15 DEF Shape

-----------------------------------------------------------------------------
(* A push makes a node, links one behind the tail, or deletes its own.     *)

LEMMA LooseChange ==
    ASSUME Enough, NEW s, Struct(s), UNCHANGED <<head, tail, old>>,
           heap' \subseteq Nodes,
           \A n \in heap \ heap' : Loose(n),
           \A n \in heap \cap heap' : Loose(n)' <=> Loose(n),
           \A n \in heap' \ heap : Loose(n)' /\ inner'[n] = 0 /\ outer'[n] = 2,
           \A n \in heap : /\ inner'[n] = inner[n] /\ outer'[n] = outer[n]
                           /\ (next[n] # Null \/ n # tail.ptr => next'[n] = next[n]),
           \A u \in Threads :
              /\ (Holding(u)' <=> Holding(u))
              /\ (LeavesTail(u)' <=> LeavesTail(u)) /\ (LeavesHead(u)' <=> LeavesHead(u))
    PROVE  (Line(s) /\ Passed /\ Left(s) /\ Sides(s) /\ Counts /\ Kept(s))'
<1>0. heap \subseteq Nodes
  BY DEF Struct, TypeOK
<1>1. \A n \in heap \ heap' : ~In(s, n)
  BY <1>0 DEF Struct, Shape, LooseNew, CarriesOwn
<1>2. \A n : (TailLeaves(n)' <=> TailLeaves(n)) /\ (HeadLeaves(n)' <=> HeadLeaves(n))
  BY DEF TailLeaves, HeadLeaves
<1>3. \A n : Holders(n)' = Holders(n)
  BY DEF Holders, Holds
<1>4. \A n : In(s, n) => n \in heap /\ n \in heap'
  BY <1>0, <1>1 DEF Struct, Shape, Line, In
<1>5. In(s, tail.ptr) /\ In(s, head.ptr)
  BY DEF Struct, Shape, Line, In
<1>6. \A u \in Threads : Holding(u) => old[u].ptr \in heap
  BY DEF Struct, Shape, Held, HeldBy
<1>7. \A u \in Threads : LeavesTail(u) \/ LeavesHead(u) => Holding(u)
  BY DEF LeavesTail, LeavesHead, Holding
<1>8. Line(s)'
  <2>1. \A i \in DOMAIN s : s[i] \in heap'
    BY <1>4 DEF In
  <2>2. \A i \in 1 .. Len(s) - 1 : s[i] \in heap /\ s[i] # tail.ptr /\ next'[s[i]] = next[s[i]]
    <3> SUFFICES ASSUME NEW i \in 1 .. Len(s) - 1 PROVE s[i] \in heap /\ s[i] # tail.ptr
      OBVIOUS
    <3>1. i \in DOMAIN s /\ Len(s) \in DOMAIN s /\ i # Len(s) /\ s[Len(s)] = tail.ptr
      BY DEF Struct, Shape, Line
    <3> QED BY <3>1 DEF Struct, Shape, Line
  <2> QED BY <2>1, <2>2 DEF Struct, Shape, Line
<1>9. Passed'
  BY <1>0 DEF Struct, Shape, Passed
<1>10. Left(s)'
  BY DEF Struct, Shape, Left, In
<1>11. Sides(s)'
  <2> SUFFICES ASSUME NEW n \in heap'
               PROVE  outer'[n] = One(TailSide(n)') + One(HeadSide(s, n)')
    BY DEF Sides, One
  <2>1. CASE n \notin heap
    <3>1. TailSide(n)' /\ HeadSide(s, n)'
      BY <2>1 DEF TailSide, HeadSide
    <3> QED BY <2>1, <3>1 DEF One
  <2>2. CASE n \in heap
    <3>1. n \in heap /\ (TailSide(n)' <=> TailSide(n)) /\ (HeadSide(s, n)' <=> HeadSide(s, n))
      BY <1>0, <1>2, <2>2 DEF TailSide, HeadSide, In
    <3> QED BY <3>1 DEF Struct, Shape, Sides, One
  <2> QED BY <2>1, <2>2
<1>12. Counts'
  <2> SUFFICES ASSUME NEW n \in heap'
               PROVE  \E a, b \in Int : /\ TailDue(n, a)' /\ HeadDue(n, b)'
                                        /\ Same(inner'[n] + a + b, Cardinality(Holders(n)'))
    BY DEF Counts, Same
  <2>1. CASE n \notin heap
    <3>1. ~TailLeaves(n)' /\ ~HeadLeaves(n)' /\ n # tail'.ptr /\ n # head'.ptr
      BY <1>2, <1>4, <1>5, <1>6, <1>7, <2>1 DEF TailLeaves, HeadLeaves
    <3>2. TailDue(n, 0)' /\ HeadDue(n, 0)'
      BY <3>1 DEF TailDue, HeadDue, TailLeaves, HeadLeaves
    <3>3. Holders(n)' = {}
      BY <1>3, <1>6, <2>1 DEF Holders, Holds
    <3>4. Cardinality(Holders(n)') = 0
      BY <3>3, FS_EmptySet
    <3>5. Same(0, 0)
      BY SameRefl
    <3> QED BY <2>1, <3>2, <3>4, <3>5
  <2>2. CASE n \in heap
    <3>2. PICK a \in Int, b \in Int :
             /\ TailDue(n, a) /\ HeadDue(n, b)
             /\ Same(inner[n] + a + b, Cardinality(Holders(n)))
      BY <2>2 DEF Struct, Shape, Counts
    <3>3. TailDue(n, a)' /\ HeadDue(n, b)'
      BY <1>2, <3>2 DEF TailDue, HeadDue
    <3> QED BY <1>3, <2>2, <3>2, <3>3
  <2> QED BY <2>1, <2>2
<1>13. Kept(s)'
  BY <1>0, <1>3 DEF Struct, Shape, Kept, In
<1> QED BY <1>8, <1>9, <1>10, <1>11, <1>12, <1>13

LEMMA PushStartShape ==
    ASSUME Enough, NEW s, Struct(s), NEW t \in Threads, PushStart(t) PROVE Shape(s)'
<1>0. /\ pc \in [Threads -> Pcs] /\ new \in [Threads -> Nodes \cup {Null}] /\ heap \subseteq Nodes
      /\ next \in [Nodes -> Nodes \cup {Null}] /\ inner \in [Nodes -> 0 .. CountMod - 1]
      /\ outer \in [Nodes -> 0 .. 3]
  BY DEF Struct, TypeOK
<1>1. PICK n \in Nodes, x \in FreshData :
         NewNode(n, x) /\ heap' = heap \cup {n} /\ new' = [new EXCEPT ![t] = n]
  BY DEF PushStart
<1>2. /\ UNCHANGED <<head, tail, old, aim>> /\ n \notin heap
      /\ next' = [next EXCEPT ![n] = Null]
      /\ inner' = [inner EXCEPT ![n] = 0] /\ outer' = [outer EXCEPT ![n] = 2]
  BY <1>1 DEF PushStart, NewNode
<1>3. /\ pc[t] = "start" /\ pc'[t] = "count tail" /\ new'[t] = n
      /\ \A u \in Threads \ {t} : pc'[u] = pc[u] /\ new'[u] = new[u]
  BY <1>0, <1>1 DEF PushStart, Goto
<1>4. \A u \in Threads :
         /\ (Holding(u)' <=> Holding(u))
         /\ (LeavesTail(u)' <=> LeavesTail(u)) /\ (LeavesHead(u)' <=> LeavesHead(u))
  BY <1>3 DEF Holding, LeavesTail, LeavesHead
<1>5. ~Carries(t) /\ Carries(t)' /\ \A u \in Threads \ {t} : Carries(u)' <=> Carries(u)
  BY <1>3 DEF Carries
<1>6. tail.ptr \in heap /\ tail.ptr \in Nodes /\ next'[tail.ptr] = next[tail.ptr]
  BY <1>0, <1>2 DEF Struct, Shape, Line
<1>7. ~Loose(n)
  BY <1>2 DEF Struct, Shape, LooseNew, CarriesOwn
<1>8. \A m \in Nodes : Loose(m)' <=> Loose(m) \/ m = n
  BY <1>2, <1>3, <1>5, <1>6 DEF Loose, Carried, Linked
<1>9. \A m \in heap : next'[m] = next[m] /\ inner'[m] = inner[m] /\ outer'[m] = outer[m]
  BY <1>0, <1>2
<1>10. (Line(s) /\ Passed /\ Left(s) /\ Sides(s) /\ Counts /\ Kept(s))'
  <2>1. heap' \subseteq Nodes /\ heap \ heap' = {} /\ heap' \ heap = {n}
    BY <1>0, <1>1, <1>2
  <2>2. inner'[n] = 0 /\ outer'[n] = 2
    BY <1>0, <1>2
  <2> QED BY <1>0, <1>2, <1>4, <1>8, <1>9, <2>1, <2>2, LooseChange
<1>11. LooseNew(s)'
  <2>1. \A m \in Nodes : Loose(m) => m \in heap /\ ~In(s, m) /\ next[m] = Null
    BY DEF Struct, Shape, LooseNew, CarriesOwn
  <2>2. ~In(s, n)
    BY <1>2 DEF Struct, Shape, Line, In
  <2>3. \A m \in Nodes : Loose(m)' => m \in heap' /\ ~In(s, m) /\ next'[m] = Null
    BY <1>0, <1>1, <1>2, <1>8, <1>9, <2>1, <2>2
  <2>4. \A u \in Threads : Carries(u) => new[u] \in Nodes /\ new[u] # n
    BY <1>7 DEF Struct, Shape, LooseNew, CarriesOwn, Loose, Carried
  <2>5. ~Linked(n)
    BY <1>7 DEF Loose
  <2>6. \A u \in Threads : Carries(u)' => CarriesOwn(u)'
    <3>1. \A u \in Threads \ {t} : Carries(u)' => Carries(u) /\ CarriesOwn(u) /\ new'[u] = new[u]
      BY <1>3, <1>5 DEF Struct, Shape, LooseNew
    <3>2. next'[tail'.ptr] = next[tail.ptr]
      BY <1>2, <1>6
    <3>3. CarriesOwn(t)'
      BY <1>1, <1>3, <2>4, <2>5, <3>1, <3>2 DEF CarriesOwn, Linked
    <3>4. ASSUME NEW u \in Threads \ {t}, Carries(u)' PROVE CarriesOwn(u)'
      <4>1. new'[u] \in Nodes /\ new'[u] # n /\ next'[tail'.ptr] # new'[u]
        BY <2>4, <3>1, <3>2, <3>4 DEF CarriesOwn, Linked
      <4>2. \A v \in Threads : Carries(v)' /\ new'[v] = new'[u] => v = u
        BY <1>3, <3>1, <3>4, <4>1 DEF CarriesOwn
      <4> QED BY <4>1, <4>2 DEF CarriesOwn, Linked
    <3> QED BY <3>3, <3>4
  <2> QED BY <2>3, <2>6 DEF LooseNew, In
<1>12. Held'
  <2> SUFFICES ASSUME NEW u \in Threads, Holding(u)'
               PROVE  HeldBy(u)'
    BY DEF Held
  <2>1. u # t /\ Holding(u) /\ old[u].ptr \in heap /\ old[u].ptr \in Nodes /\ ~Loose(old[u].ptr)
    BY <1>3, <1>4, HeldNode DEF Holding
  <2>2. HeldBy(u)
    BY <2>1 DEF Struct, Shape, Held
  <2>3. next'[old'[u].ptr] = next[old[u].ptr] /\ (~Loose(old[u].ptr))' /\ old'[u].ptr \in heap'
    BY <1>1, <1>2, <1>8, <1>9, <2>1
  <2> QED BY <1>2, <1>3, <2>1, <2>2, <2>3 DEF HeldBy
<1> QED BY <1>10, <1>11, <1>12 DEF Shape

LEMMA LinkShape ==
    ASSUME Enough, NEW s, Struct(s), NEW t \in Threads, Link(t) \/ Help(t),
           next[old[t].ptr] = Null
    PROVE  Shape(s)'
<1>0. /\ pc \in [Threads -> Pcs] /\ new \in [Threads -> Nodes \cup {Null}] /\ heap \subseteq Nodes
      /\ next \in [Nodes -> Nodes \cup {Null}] /\ inner \in [Nodes -> 0 .. CountMod - 1]
      /\ outer \in [Nodes -> 0 .. 3] /\ aim \in [Threads -> Nodes \cup {Null}]
  BY DEF Struct, TypeOK
<1>1. pc[t] \in {"link", "help"} /\ Holding(t) /\ Carries(t) /\ ~LeavesTail(t) /\ ~LeavesHead(t)
  BY DEF Link, Help, Holding, Carries, LeavesTail, LeavesHead
<1>2. old[t].ptr = tail.ptr /\ tail.ptr \in heap /\ tail.ptr \in Nodes
  <2>1. old[t].ptr \in heap /\ ~Loose(old[t].ptr) /\ old[t].ptr \in Nodes
    BY <1>1, HeldNode
  <2> QED BY <2>1 DEF Struct, Shape, Passed
<1>3. /\ CarriesOwn(t) /\ new[t] \in Nodes /\ Loose(new[t]) /\ new[t] \in heap /\ new[t] # tail.ptr
  <2>1. CarriesOwn(t) /\ new[t] \in Nodes /\ Loose(new[t])
    BY <1>1 DEF Struct, Shape, LooseNew, CarriesOwn, Loose, Carried
  <2>2. In(s, tail.ptr)
    BY DEF Struct, Shape, Line, In
  <2> QED BY <2>1, <2>2 DEF Struct, Shape, LooseNew
<1>4. /\ UNCHANGED <<head, tail, old>> /\ aim'[t] = new[t]
      /\ next'[tail.ptr] = new[t] /\ heap \subseteq heap' /\ heap' \subseteq Nodes
      /\ \A m \in heap : /\ inner'[m] = inner[m] /\ outer'[m] = outer[m]
                         /\ (m # tail.ptr => next'[m] = next[m])
      /\ \A m \in heap' \ heap : m = new'[t] /\ next'[m] = Null /\ inner'[m] = 0 /\ outer'[m] = 2
      /\ \A u \in Threads \ {t} : pc'[u] = pc[u] /\ new'[u] = new[u] /\ aim'[u] = aim[u]
      /\ \/ pc'[t] = "swing" /\ heap' = heap
         \/ pc'[t] = "help swing" /\ new'[t] \in heap' \ heap
  <2>1. CASE Link(t)
    <3>1. /\ next' = [next EXCEPT ![tail.ptr] = new[t]] /\ aim' = [aim EXCEPT ![t] = new[t]]
          /\ heap' = heap /\ new' = new /\ inner' = inner /\ outer' = outer
          /\ pc' = [pc EXCEPT ![t] = "swing"] /\ UNCHANGED <<head, tail, old>>
      BY <1>2, <2>1 DEF Link, Goto
    <3> QED BY <1>0, <1>2, <3>1
  <2>2. CASE Help(t)
    <3>1. PICK n \in Nodes \ heap, x \in FreshData :
             /\ next' = [next EXCEPT ![tail.ptr] = new[t], ![n] = Null]
             /\ inner' = [inner EXCEPT ![n] = 0] /\ outer' = [outer EXCEPT ![n] = 2]
             /\ heap' = heap \cup {n} /\ aim' = [aim EXCEPT ![t] = new[t]]
             /\ new' = [new EXCEPT ![t] = n]
      BY <1>2, <2>2 DEF Help
    <3>2. pc' = [pc EXCEPT ![t] = "help swing"] /\ UNCHANGED <<head, tail, old>>
      BY <2>2 DEF Help, Goto
    <3> QED BY <1>0, <1>2, <3>1, <3>2
  <2> QED BY <2>1, <2>2
<1>5. \A u \in Threads :
         /\ (Holding(u)' <=> Holding(u))
         /\ (LeavesTail(u)' <=> LeavesTail(u)) /\ (LeavesHead(u)' <=> LeavesHead(u))
  <2>1. Holding(t)' /\ ~LeavesTail(t)' /\ ~LeavesHead(t)'
    BY <1>4 DEF Holding, LeavesTail, LeavesHead
  <2>2. \A u \in Threads \ {t} :
           /\ (Holding(u)' <=> Holding(u))
           /\ (LeavesTail(u)' <=> LeavesTail(u)) /\ (LeavesHead(u)' <=> LeavesHead(u))
    BY <1>4 DEF Holding, LeavesTail, LeavesHead
  <2> QED BY <1>1, <2>1, <2>2
<1>6. /\ \A u \in Threads \ {t} : Carries(u)' <=> Carries(u)
      /\ Carries(t)' <=> pc'[t] = "help swing"
  BY <1>4 DEF Carries
<1>7. ~(\E m \in Nodes : Linked(m))
  BY <1>2, QueueAssumption DEF Linked
<1>8. \A m \in heap : Loose(m)' <=> Loose(m)
  <2> SUFFICES ASSUME NEW m \in heap PROVE Loose(m)' <=> Loose(m)
    OBVIOUS
  <2>1. CASE m = new[t]
    BY <1>3, <1>4, <2>1 DEF Loose, Linked
  <2>2. CASE m # new[t]
    <3>1. ~Linked(m) /\ ~Linked(m)'
      BY <1>0, <1>4, <1>7, <2>2 DEF Linked
    <3>2. Carried(m)' <=> Carried(m)
      BY <1>1, <1>4, <1>6, <2>2, ZenonT(60) DEF Carried
    <3> QED BY <3>1, <3>2 DEF Loose
  <2> QED BY <2>1, <2>2
<1>9. \A m \in heap' \ heap : Loose(m)'
  BY <1>4, <1>6 DEF Loose, Carried
<1>10. (Line(s) /\ Passed /\ Left(s) /\ Sides(s) /\ Counts /\ Kept(s))'
  <2>1. \A m \in heap : /\ inner'[m] = inner[m] /\ outer'[m] = outer[m]
                        /\ (next[m] # Null \/ m # tail.ptr => next'[m] = next[m])
    BY <1>2, <1>4
  <2>2. heap' \subseteq Nodes /\ heap \ heap' = {} /\ heap \cap heap' = heap
    BY <1>4
  <2>3. UNCHANGED <<head, tail, old>>
    BY <1>4
  <2>4. \A m \in heap' \ heap : Loose(m)' /\ inner'[m] = 0 /\ outer'[m] = 2
    BY <1>4, <1>9
  <2> QED BY <1>5, <1>8, <2>1, <2>2, <2>3, <2>4, LooseChange
<1>11. LooseNew(s)'
  <2>1. ASSUME NEW m \in Nodes, Loose(m)' PROVE m \in heap' /\ ~In(s, m) /\ next'[m] = Null
    <3>1. m \in heap'
      <4>1. CASE \E u \in Threads \ {t} : Carries(u) /\ new[u] = m
        BY <1>4, <4>1 DEF Struct, Shape, LooseNew, Loose, Carried
      <4>2. CASE Carries(t)' /\ new'[t] = m
        BY <1>4, <1>6, <4>2
      <4>3. CASE m = new[t]
        BY <1>3, <1>4, <4>3
      <4>4. ASSUME NEW u \in Threads, Carries(u)', new'[u] = m PROVE m \in heap'
        BY <1>4, <1>6, <4>1, <4>2, <4>4
      <4>5. Linked(m)' => m = new[t]
        BY <1>4 DEF Linked
      <4> QED BY <2>1, <4>3, <4>4, <4>5 DEF Loose, Carried
    <3>2. CASE m \in heap
      <4>1. Loose(m) /\ ~In(s, m) /\ next[m] = Null
        BY <1>8, <2>1, <3>2 DEF Struct, Shape, LooseNew
      <4>2. m # tail.ptr
        BY <4>1 DEF Struct, Shape, Line, In
      <4> QED BY <1>4, <3>1, <3>2, <4>1, <4>2
    <3>3. CASE m \notin heap
      <4>1. ~In(s, m)
        BY <3>3 DEF Struct, Shape, Line, In
      <4> QED BY <1>4, <3>1, <3>3, <4>1
    <3> QED BY <3>2, <3>3
  <2>2. ASSUME NEW u \in Threads \ {t}, Carries(u)' PROVE CarriesOwn(u)'
    <3>1. Carries(u) /\ CarriesOwn(u) /\ new'[u] = new[u] /\ new[u] # new[t]
      BY <1>1, <1>4, <1>6, <2>2 DEF Struct, Shape, LooseNew, CarriesOwn
    <3>2. new[u] \in heap
      BY <3>1 DEF Struct, Shape, LooseNew, CarriesOwn, Loose, Carried
    <3>3. \A v \in Threads : Carries(v)' /\ new'[v] = new'[u] => v = u
      BY <1>4, <1>6, <3>1, <3>2, ZenonT(60) DEF CarriesOwn
    <3> QED BY <1>4, <3>1, <3>3 DEF CarriesOwn, Linked
  <2>3. ASSUME Carries(t)' PROVE CarriesOwn(t)'
    <3>1. new'[t] \in heap' \ heap /\ new'[t] \in Nodes
      BY <1>4, <1>6, <2>3
    <3>2. \A v \in Threads \ {t} : Carries(v)' => new'[v] \in heap
      BY <1>4, <1>6 DEF Struct, Shape, LooseNew, CarriesOwn, Loose, Carried
    <3> QED BY <1>3, <1>4, <3>1, <3>2 DEF CarriesOwn, Linked
  <2>4. \A u \in Threads : Carries(u)' => CarriesOwn(u)'
    BY <2>2, <2>3
  <2> QED BY <2>1, <2>4 DEF LooseNew, In
<1>12. Held'
  <2> SUFFICES ASSUME NEW u \in Threads, Holding(u)' PROVE HeldBy(u)'
    BY DEF Held
  <2>1. Holding(u) /\ HeldBy(u) /\ old[u].ptr \in heap /\ ~Loose(old[u].ptr)
    BY <1>5 DEF Struct, Shape, Held, HeldBy
  <2>2. (~Loose(old[u].ptr))' /\ old'[u].ptr \in heap'
    BY <1>4, <1>8, <2>1
  <2>3. CASE u = t
    BY <1>2, <1>3, <1>4, <2>2, <2>3, QueueAssumption DEF HeldBy
  <2>4. CASE u # t
    <3>1. pc[u] \in {"swing", "help swing", "read next", "move head"} => old[u].ptr # tail.ptr
      BY <1>2, <2>1, QueueAssumption DEF HeldBy
    <3>2. old[u].ptr # tail.ptr => next'[old'[u].ptr] = next[old[u].ptr]
      BY <1>4, <2>1
    <3> QED BY <1>4, <2>1, <2>2, <2>4, <3>1, <3>2 DEF HeldBy
  <2> QED BY <2>3, <2>4
<1> QED BY <1>10, <1>11, <1>12 DEF Shape

LEMMA UnlinkShape ==
    ASSUME Enough, NEW s, Struct(s), NEW t \in Threads, Link(t), next[old[t].ptr] # Null
    PROVE  Shape(s)'
<1>0. /\ pc \in [Threads -> Pcs] /\ new \in [Threads -> Nodes \cup {Null}] /\ heap \subseteq Nodes
      /\ aim \in [Threads -> Nodes \cup {Null}]
  BY DEF Struct, TypeOK
<1>1. pc[t] = "link" /\ Holding(t) /\ Carries(t) /\ ~LeavesTail(t) /\ ~LeavesHead(t)
  BY DEF Link, Holding, Carries, LeavesTail, LeavesHead
<1>2. CarriesOwn(t) /\ new[t] \in Nodes /\ Loose(new[t])
  BY <1>1 DEF Struct, Shape, LooseNew, CarriesOwn, Loose, Carried
<1>3. /\ UNCHANGED <<next, inner, outer, head, tail, old>> /\ heap' = heap \ {new[t]}
      /\ pc'[t] = "swing" /\ aim'[t] = next[old[t].ptr]
      /\ \A u \in Threads \ {t} : pc'[u] = pc[u] /\ new'[u] = new[u] /\ aim'[u] = aim[u]
  BY <1>0 DEF Link, Goto
<1>4. \A u \in Threads \ {t} :
         /\ (Holding(u)' <=> Holding(u)) /\ (Carries(u)' <=> Carries(u))
         /\ (LeavesTail(u)' <=> LeavesTail(u)) /\ (LeavesHead(u)' <=> LeavesHead(u))
  BY <1>3 DEF Holding, Carries, LeavesTail, LeavesHead
<1>5. Holding(t)' /\ ~Carries(t)' /\ ~LeavesTail(t)' /\ ~LeavesHead(t)'
  BY <1>3 DEF Holding, Carries, LeavesTail, LeavesHead
<1>6. \A m : Linked(m)' <=> Linked(m)
  BY <1>3 DEF Linked
<1>7. \A m : Loose(m)' <=> Loose(m) /\ m # new[t]
  <2> SUFFICES ASSUME NEW m PROVE Loose(m)' <=> Loose(m) /\ m # new[t]
    OBVIOUS
  <2>1. CASE m = new[t]
    <3>1. ~Linked(m) /\ ~(\E u \in Threads \ {t} : Carries(u) /\ new[u] = m)
      BY <1>2, <2>1 DEF CarriesOwn
    <3>2. ~Carried(m)'
      BY <1>3, <1>4, <1>5, <3>1 DEF Carried
    <3> QED BY <1>6, <2>1, <3>1, <3>2 DEF Loose
  <2>2. CASE m # new[t]
    <3>1. Carried(m)' <=> Carried(m)
      BY <1>3, <1>4, <1>5, <2>2 DEF Carried
    <3> QED BY <1>6, <2>2, <3>1 DEF Loose
  <2> QED BY <2>1, <2>2
<1>8. (Line(s) /\ Passed /\ Left(s) /\ Sides(s) /\ Counts /\ Kept(s))'
  <2>1. heap' \subseteq Nodes /\ heap' \ heap = {} /\ heap \cap heap' = heap' /\ heap \ heap' \subseteq {new[t]}
    BY <1>0, <1>3
  <2>2. \A m \in heap \ heap' : Loose(m)
    BY <1>2, <2>1
  <2>3. \A m \in heap \cap heap' : Loose(m)' <=> Loose(m)
    BY <1>3, <1>7
  <2>4. \A u \in Threads :
           /\ (Holding(u)' <=> Holding(u))
           /\ (LeavesTail(u)' <=> LeavesTail(u)) /\ (LeavesHead(u)' <=> LeavesHead(u))
    BY <1>1, <1>4, <1>5
  <2>5. UNCHANGED <<head, tail, old>> /\ UNCHANGED <<next, inner, outer>>
    BY <1>3
  <2> QED BY <2>1, <2>2, <2>3, <2>4, <2>5, LooseChange
<1>9. LooseNew(s)'
  <2>1. \A m \in Nodes : Loose(m)' => m \in heap' /\ ~In(s, m) /\ next'[m] = Null
    BY <1>3, <1>7 DEF Struct, Shape, LooseNew
  <2>2. ASSUME NEW u \in Threads, Carries(u)' PROVE CarriesOwn(u)'
    <3>1. u # t /\ Carries(u) /\ CarriesOwn(u)
      BY <1>4, <1>5, <2>2 DEF Struct, Shape, LooseNew
    <3> QED BY <1>3, <1>4, <1>5, <1>6, <3>1 DEF CarriesOwn, Linked
  <2> QED BY <2>1, <2>2 DEF LooseNew, In
<1>10. Held'
  <2> SUFFICES ASSUME NEW u \in Threads, Holding(u)' PROVE HeldBy(u)'
    BY DEF Held
  <2>1. Holding(u) /\ HeldBy(u) /\ old[u].ptr \in heap /\ ~Loose(old[u].ptr)
    BY <1>1, <1>4 DEF Struct, Shape, Held, HeldBy
  <2>2. (~Loose(old[u].ptr))' /\ old'[u].ptr \in heap'
    BY <1>2, <1>3, <1>7, <2>1
  <2>3. CASE u = t
    BY <1>3, <2>2, <2>3 DEF HeldBy
  <2>4. CASE u # t
    BY <1>3, <2>1, <2>2, <2>4 DEF HeldBy
  <2> QED BY <2>3, <2>4
<1> QED BY <1>8, <1>9, <1>10 DEF Shape

-----------------------------------------------------------------------------
(* The tail and the head move on.                                          *)

LEMMA LineTail ==
    ASSUME NEW s, Line(s)
    PROVE  /\ In(s, tail.ptr) /\ In(s, head.ptr) /\ Len(s) \in Nat \ {0}
           /\ DOMAIN s = 1 .. Len(s)
           /\ \A i \in DOMAIN s : s[i] = tail.ptr <=> i = Len(s)
BY LenProperties DEF Line, In

LEMMA SwingShape ==
    ASSUME Enough, NEW s, Struct(s), NEW t \in Threads, Swing(t), AtOldTail(t)
    PROVE  \E r : Shape(r)' /\ r = Append(s, tail'.ptr)
<1>0. /\ pc \in [Threads -> Pcs] /\ old \in [Threads -> CountedPtrs] /\ tail \in CountedPtrs
      /\ heap \subseteq Nodes /\ head \in CountedPtrs
  BY DEF Struct, TypeOK
<1>1. pc[t] \in {"swing", "help swing"} /\ Holding(t) /\ ~LeavesTail(t) /\ ~LeavesHead(t)
  BY DEF Swing, Holding, LeavesTail, LeavesHead
<1>2. PICK m : m = next[tail.ptr]
  OBVIOUS
<1>3. /\ old[t].ptr = tail.ptr /\ tail.ptr \in heap /\ tail.ptr \in Nodes
      /\ aim[t] = m /\ m # Null /\ Linked(m)
  <2>1. old[t].ptr = tail.ptr /\ HeldBy(t) /\ old[t].ptr \in heap
    BY <1>1 DEF AtOldTail, Struct, Shape, Held, HeldBy
  <2> QED BY <1>0, <1>1, <1>2, <2>1 DEF HeldBy, Linked
<1>4. m \in Nodes /\ m \in heap /\ ~In(s, m) /\ next[m] = Null /\ Loose(m) /\ ~Carried(m)
  <2>1. m \in Nodes /\ Loose(m)
    BY <1>2, <1>3 DEF Struct, TypeOK, Loose
  <2>2. ~Carried(m)
    BY <1>3 DEF Struct, Shape, LooseNew, CarriesOwn, Carried
  <2> QED BY <2>1, <2>2 DEF Struct, Shape, LooseNew
<1>5. /\ UNCHANGED <<heap, next, inner, outer, head, new, aim>>
      /\ tail'.ptr = m /\ tail'.cnt = 1 /\ tail' = Counted(m, 1)
      /\ pc'[t] = (IF pc[t] = "swing" THEN "free counter" ELSE "help free")
      /\ old'[t] = tail
      /\ \A u \in Threads \ {t} : pc'[u] = pc[u] /\ old'[u] = old[u]
  <2>1. tail' = Counted(m, 1) /\ old' = [old EXCEPT ![t] = tail]
    BY <1>3 DEF Swing
  <2>2. pc' = [pc EXCEPT ![t] = IF pc[t] = "swing" THEN "free counter" ELSE "help free"]
    BY DEF Swing, Goto
  <2>3. UNCHANGED <<heap, next, inner, outer, head, new, aim>>
    BY DEF Swing, nodes
  <2> QED BY <1>0, <2>1, <2>2, <2>3 DEF Counted
<1>6. \A u \in Threads \ {t} :
         /\ (Holding(u)' <=> Holding(u)) /\ (Carries(u)' <=> Carries(u))
         /\ (LeavesTail(u)' <=> LeavesTail(u)) /\ (LeavesHead(u)' <=> LeavesHead(u))
  BY <1>5 DEF Holding, Carries, LeavesTail, LeavesHead
<1>7. Holding(t)' /\ (Carries(t)' <=> Carries(t)) /\ LeavesTail(t)' /\ ~LeavesHead(t)'
  BY <1>1, <1>5 DEF Holding, Carries, LeavesTail, LeavesHead
<1>8. \A u \in Threads : old'[u].ptr = old[u].ptr
  BY <1>3, <1>5
<1>9. \A n : Carried(n)' <=> Carried(n)
  BY <1>5, <1>6, <1>7 DEF Carried
<1>10. \A n \in Nodes : Loose(n)' <=> Loose(n) /\ n # m
  <2>1. \A n \in Nodes : ~Linked(n)'
    BY <1>4, <1>5, QueueAssumption DEF Linked
  <2> QED BY <1>2, <1>4, <1>9, <2>1 DEF Loose, Linked
<1>11. /\ \A n : TailLeaves(n)' <=> TailLeaves(n) \/ n = tail.ptr
       /\ \A n : HeadLeaves(n)' <=> HeadLeaves(n)
  BY <1>1, <1>3, <1>5, <1>6, <1>7, <1>8 DEF TailLeaves, HeadLeaves
<1>12. ~TailLeaves(m) /\ ~HeadLeaves(m) /\ Holders(m) = {} /\ m # tail.ptr /\ m # head.ptr
  <2>1. \A u \in Threads : Holding(u) => old[u].ptr # m
    BY <1>4 DEF Struct, Shape, Held, HeldBy
  <2>2. In(s, tail.ptr) /\ In(s, head.ptr)
    BY LineTail DEF Struct, Shape
  <2> QED BY <1>4, <2>1, <2>2 DEF TailLeaves, HeadLeaves, Holders, Holds, LeavesTail, LeavesHead, Holding
<1>13. \A n : Holders(n)' = Holders(n)
  <2>1. \A u \in Threads : Holding(u)' <=> Holding(u)
    BY <1>1, <1>6, <1>7
  <2> QED BY <1>8, <2>1 DEF Holders, Holds
<1>14. PICK r : r = Append(s, m)
  OBVIOUS
<1>15. /\ s \in Seq(Nodes) /\ Len(s) \in Nat \ {0} /\ r \in Seq(Nodes) /\ Len(r) = Len(s) + 1
       /\ r[Len(s) + 1] = m /\ \A i \in 1 .. Len(s) : r[i] = s[i]
  BY <1>4, <1>14, LineTail, AppendProperties DEF Struct, Shape, Line
<1>16. \A n : In(r, n) <=> In(s, n) \/ n = m
  <2>1. DOMAIN r = 1 .. Len(s) + 1 /\ DOMAIN s = 1 .. Len(s)
    BY <1>15, LenProperties
  <2> QED BY <1>15, <2>1 DEF In
<1>17. Line(r)'
  <2>1. DOMAIN r = 1 .. Len(s) + 1 /\ DOMAIN s = 1 .. Len(s)
    BY <1>15, LenProperties
  <2>2. r # <<>> /\ r[1] = head'.ptr /\ r[Len(r)] = tail'.ptr
    <3>1. r # <<>>
      BY <2>1, <1>15
    <3>2. s[1] = head.ptr /\ 1 \in 1 .. Len(s)
      BY <1>15 DEF Struct, Shape, Line
    <3> QED BY <1>5, <1>15, <3>1, <3>2
  <2>3. \A i \in DOMAIN r : r[i] \in heap'
    <3>1. \A i \in 1 .. Len(s) : s[i] \in heap
      BY <2>1 DEF Struct, Shape, Line
    <3>2. \A i \in DOMAIN r : i \in 1 .. Len(s) \/ r[i] = m
      BY <1>15, <2>1
    <3> QED BY <1>4, <1>5, <1>15, <3>1, <3>2
  <2>4. \A i, j \in DOMAIN r : r[i] = r[j] => i = j
    <3>1. \A i, j \in 1 .. Len(s) : r[i] = r[j] => i = j
      BY <1>15, <2>1 DEF Struct, Shape, Line
    <3>2. \A i \in 1 .. Len(s) : r[i] # m
      BY <1>4, <1>15, <2>1 DEF In
    <3>3. \A i \in DOMAIN r : i \in 1 .. Len(s) \/ (i = Len(s) + 1 /\ r[i] = m)
      BY <1>15, <2>1
    <3> QED BY <3>1, <3>2, <3>3
  <2>5. \A i \in 1 .. Len(r) - 1 : next'[r[i]] = r[i + 1]
    <3> SUFFICES ASSUME NEW i \in 1 .. Len(s) PROVE next[s[i]] = r[i + 1]
      <4>1. Len(r) - 1 = Len(s)
        BY <1>15
      <4> QED BY <1>5, <1>15, <4>1
    <3>1. CASE i = Len(s)
      BY <1>2, <1>15, <3>1 DEF Struct, Shape, Line
    <3>2. CASE i # Len(s)
      <4>1. i \in 1 .. Len(s) - 1 /\ i + 1 \in 1 .. Len(s)
        BY <1>15, <3>2
      <4> QED BY <1>15, <4>1 DEF Struct, Shape, Line
    <3> QED BY <3>1, <3>2
  <2> QED BY <1>15, <2>2, <2>3, <2>4, <2>5 DEF Line
<1>18. LooseNew(r)'
  <2>1. \A n \in Nodes : Loose(n)' => n \in heap' /\ ~In(r, n) /\ next'[n] = Null
    BY <1>5, <1>10, <1>16 DEF Struct, Shape, LooseNew
  <2>2. ASSUME NEW u \in Threads, Carries(u)' PROVE CarriesOwn(u)'
    <3>1. Carries(u) /\ CarriesOwn(u)
      BY <1>6, <1>7, <2>2 DEF Struct, Shape, LooseNew
    <3>2. \A v \in Threads : Carries(v)' => Carries(v)
      BY <1>6, <1>7
    <3>3. next'[tail'.ptr] # new'[u]
      BY <1>4, <1>5, <3>1, QueueAssumption DEF CarriesOwn
    <3> QED BY <1>5, <3>1, <3>2, <3>3 DEF CarriesOwn, Linked
  <2> QED BY <2>1, <2>2 DEF LooseNew, In
<1>19. Passed'
  <2> SUFFICES ASSUME NEW n \in heap, n # m, ~Loose(n)' PROVE next[n] # Null
    BY <1>5 DEF Passed
  <2>1. n \in Nodes /\ ~Loose(n)
    BY <1>0, <1>10
  <2> QED BY <1>2, <1>3, <2>1 DEF Struct, Shape, Passed
<1>20. Held'
  <2> SUFFICES ASSUME NEW u \in Threads, Holding(u)' PROVE HeldBy(u)'
    BY DEF Held
  <2>1. Holding(u) /\ HeldBy(u) /\ old[u].ptr \in heap /\ ~Loose(old[u].ptr)
    BY <1>1, <1>6 DEF Struct, Shape, Held, HeldBy
  <2>2. (~Loose(old[u].ptr))' /\ old'[u].ptr \in heap' /\ old[u].ptr # m
    BY <1>0, <1>4, <1>5, <1>8, <1>10, <2>1
  <2>3. CASE u = t
    BY <1>5, <2>2, <2>3 DEF HeldBy
  <2>4. CASE u # t
    BY <1>5, <1>8, <2>1, <2>2, <2>4 DEF HeldBy
  <2> QED BY <2>3, <2>4
<1>21. Left(r)'
  <2>1. ASSUME NEW u \in Threads, LeavesTail(u)'
        PROVE  old'[u].ptr # tail'.ptr
               /\ \A v \in Threads : LeavesTail(v)' /\ old'[v].ptr = old'[u].ptr => v = u
    <3>1. \A v \in Threads \ {t} : LeavesTail(v)' => old[v].ptr # tail.ptr /\ old[v].ptr # m
                  /\ \A w \in Threads : LeavesTail(w) /\ old[w].ptr = old[v].ptr => w = v
      BY <1>6, <1>12 DEF Struct, Shape, Left, TailLeaves
    <3> QED BY <1>3, <1>5, <1>6, <1>8, <1>12, <2>1, <3>1, ZenonT(60)
  <2>2. ASSUME NEW u \in Threads, LeavesHead(u)'
        PROVE  ~In(r, old'[u].ptr)
               /\ \A v \in Threads : LeavesHead(v)' /\ old'[v].ptr = old'[u].ptr => v = u
    <3>1. \A v \in Threads : LeavesHead(v)' => LeavesHead(v)
      BY <1>6, <1>7
    <3>2. LeavesHead(u) /\ old[u].ptr # m
      BY <1>12, <2>2, <3>1 DEF HeadLeaves
    <3> QED BY <1>8, <1>16, <3>1, <3>2 DEF Struct, Shape, Left
  <2> QED BY <2>1, <2>2 DEF Left, In
<1>22. Sides(r)'
  <2> SUFFICES ASSUME NEW n \in heap
               PROVE  outer[n] = One(TailSide(n)') + One(HeadSide(r, n)')
    BY <1>5 DEF Sides, One
  <2>1. (TailSide(n)' <=> TailSide(n)) /\ (HeadSide(r, n)' <=> HeadSide(s, n))
    BY <1>0, <1>4, <1>5, <1>10, <1>11, <1>16 DEF TailSide, HeadSide, In
  <2> QED BY <2>1 DEF Struct, Shape, Sides, One
<1>23. Counts'
  <2> SUFFICES ASSUME NEW n \in heap
               PROVE  \E a, b \in Int : /\ TailDue(n, a)' /\ HeadDue(n, b)'
                                        /\ Same(inner[n] + a + b, Cardinality(Holders(n)'))
    BY <1>5 DEF Counts, Same
  <2>1. PICK a \in Int, b \in Int :
           /\ TailDue(n, a) /\ HeadDue(n, b)
           /\ Same(inner[n] + a + b, Cardinality(Holders(n)))
    BY DEF Struct, Shape, Counts
  <2>2. HeadDue(n, b)'
    BY <1>5, <1>6, <1>7, <1>11, <2>1 DEF HeadDue
  <2>3. TailDue(n, a)'
    <3>1. CASE n = m
      <4>0. a = 0
        BY <1>12, <2>1, <3>1 DEF TailDue
      <4>5. tail'.cnt = 1
        BY <1>5
      <4>1. a = tail'.cnt - 1
        BY <4>0, <4>5
      <4>2. ~TailLeaves(n)'
        BY <1>11, <1>12, <3>1
      <4>3. \A u \in Threads : ~(LeavesTail(u)' /\ old'[u].ptr = n)
        BY <4>2 DEF TailLeaves
      <4> QED BY <4>1, <4>3, <1>5, <3>1 DEF TailDue
    <3>2. CASE n = tail.ptr
      <4>1. \A u \in Threads \ {t} : ~(LeavesTail(u) /\ old[u].ptr = n)
        BY <3>2 DEF Struct, Shape, Left
      <4> QED BY <1>5, <1>6, <1>7, <1>11, <1>12, <2>1, <3>2, <4>1 DEF TailDue
    <3>3. CASE n # m /\ n # tail.ptr
      <4>1. \A u \in Threads : LeavesTail(u)' /\ old'[u].ptr = n => LeavesTail(u) /\ old'[u] = old[u]
        BY <1>3, <1>5, <1>6, <1>8, <3>3
      <4> QED BY <1>5, <1>11, <2>1, <3>3, <4>1 DEF TailDue
    <3> QED BY <3>1, <3>2, <3>3
  <2> QED BY <1>13, <2>1, <2>2, <2>3
<1>24. Kept(r)'
  <2> SUFFICES ASSUME NEW n \in heap, ~Loose(n)', ~In(r, n)
               PROVE  outer[n] # 0 \/ Holders(n) # {}
    BY <1>5, <1>13 DEF Kept, In
  <2>1. ~Loose(n) /\ ~In(s, n)
    BY <1>0, <1>10, <1>16
  <2> QED BY <2>1 DEF Struct, Shape, Kept
<1> QED BY <1>5, <1>14, <1>17, <1>18, <1>19, <1>20, <1>21, <1>22, <1>23, <1>24 DEF Shape

LEMMA MoveHeadShape ==
    ASSUME Enough, NEW s, Struct(s), NEW t \in Threads, MoveHead(t), SameHead(t)
    PROVE  /\ \E r : Shape(r)' /\ r = Tail(s)
           /\ s[1] = old[t].ptr /\ Len(s) >= 2
<1>0. /\ pc \in [Threads -> Pcs] /\ head \in CountedPtrs /\ heap \subseteq Nodes
  BY DEF Struct, TypeOK
<1>1. pc[t] = "move head" /\ Holding(t) /\ ~Carries(t) /\ ~LeavesTail(t) /\ ~LeavesHead(t)
  BY DEF MoveHead, Holding, Carries, LeavesTail, LeavesHead
<1>2. old[t] = head /\ head.ptr # tail.ptr /\ new[t] = next[head.ptr]
  BY <1>1 DEF SameHead, Struct, Shape, Held, HeldBy
<1>3. /\ UNCHANGED <<heap, next, inner, outer, tail, old, new, aim>>
      /\ head'.ptr = new[t] /\ head'.cnt = 1 /\ pc'[t] = "take data"
      /\ \A u \in Threads \ {t} : pc'[u] = pc[u]
  <2>1. UNCHANGED <<heap, next, inner, outer, tail, old, new, aim>>
    BY DEF MoveHead, nodes, local
  <2>2. head' = Counted(new[t], 1) /\ pc' = [pc EXCEPT ![t] = "take data"]
    BY DEF MoveHead, Goto
  <2> QED BY <1>0, <2>1, <2>2 DEF Counted
<1>4. \A u \in Threads \ {t} :
         /\ (Holding(u)' <=> Holding(u)) /\ (Carries(u)' <=> Carries(u))
         /\ (LeavesTail(u)' <=> LeavesTail(u)) /\ (LeavesHead(u)' <=> LeavesHead(u))
  BY <1>3 DEF Holding, Carries, LeavesTail, LeavesHead
<1>5. Holding(t)' /\ ~Carries(t)' /\ ~LeavesTail(t)' /\ LeavesHead(t)'
  BY <1>3 DEF Holding, Carries, LeavesTail, LeavesHead
<1>6. \A n : Loose(n)' <=> Loose(n)
  BY <1>1, <1>3, <1>4, <1>5 DEF Loose, Carried, Linked
<1>7. /\ \A n : TailLeaves(n)' <=> TailLeaves(n)
      /\ \A n : HeadLeaves(n)' <=> HeadLeaves(n) \/ n = head.ptr
  BY <1>1, <1>2, <1>3, <1>4, <1>5 DEF TailLeaves, HeadLeaves
<1>8. \A n : Holders(n)' = Holders(n)
  BY <1>1, <1>3, <1>4, <1>5 DEF Holders, Holds
<1>9. /\ s \in Seq(Nodes) /\ s # <<>> /\ Len(s) \in Nat /\ Len(s) >= 2 /\ DOMAIN s = 1 .. Len(s)
      /\ s[1] = head.ptr /\ s[2] = new[t] /\ s[Len(s)] = tail.ptr
  <2>1. /\ s \in Seq(Nodes) /\ s # <<>> /\ Len(s) \in Nat \ {0} /\ DOMAIN s = 1 .. Len(s)
        /\ s[1] = head.ptr /\ s[Len(s)] = tail.ptr
    BY LineTail DEF Struct, Shape, Line
  <2>2. Len(s) >= 2
    BY <1>2, <2>1
  <2>3. 1 \in 1 .. Len(s) - 1 /\ 1 + 1 = 2
    BY <2>1, <2>2
  <2>4. s[2] = next[s[1]]
    BY <2>3 DEF Struct, Shape, Line
  <2> QED BY <1>2, <2>1, <2>2, <2>4
<1>10. PICK r : r = Tail(s)
  OBVIOUS
<1>11. /\ r \in Seq(Nodes) /\ Len(r) = Len(s) - 1 /\ Len(r) \in Nat \ {0} /\ DOMAIN r = 1 .. Len(r)
       /\ \A i \in 1 .. Len(r) : r[i] = s[i + 1] /\ i + 1 \in DOMAIN s
  BY <1>9, <1>10, HeadTailProperties, LenProperties
<1>12. \A i, j \in DOMAIN s : s[i] = s[j] => i = j
  BY DEF Struct, Shape, Line
<1>13. ~In(r, head.ptr) /\ \A n : In(s, n) <=> In(r, n) \/ n = head.ptr
  <2>1. \A i \in 1 .. Len(r) : r[i] # s[1]
    BY <1>9, <1>11, <1>12
  <2>2. \A i \in 1 .. Len(s) : i = 1 \/ (i - 1 \in 1 .. Len(r) /\ r[i - 1] = s[i])
    BY <1>9, <1>11
  <2>3. 1 \in DOMAIN s
    BY <1>9
  <2>4. \A n : In(r, n) => In(s, n) /\ n # s[1]
    BY <1>11, <2>1 DEF In
  <2>5. \A n : In(s, n) => n = s[1] \/ In(r, n)
    BY <1>9, <1>11, <2>2, ZenonT(60) DEF In
  <2>6. In(s, s[1])
    BY <2>3 DEF In
  <2> QED BY <1>9, <2>4, <2>5, <2>6
<1>14. Line(r)'
  <2>1. r # <<>> /\ r[1] = head'.ptr /\ r[Len(r)] = tail'.ptr
    <3>1. 1 \in 1 .. Len(r) /\ Len(r) \in 1 .. Len(r) /\ 1 + 1 = 2 /\ Len(r) + 1 = Len(s)
      BY <1>9, <1>11
    <3>2. r[1] = s[2] /\ r[Len(r)] = s[Len(s)]
      BY <1>11, <3>1
    <3>3. r # <<>>
      BY <1>11
    <3> QED BY <1>3, <1>9, <3>2, <3>3
  <2>2. \A i \in DOMAIN r : r[i] \in heap'
    BY <1>3, <1>11 DEF Struct, Shape, Line
  <2>3. \A i, j \in DOMAIN r : r[i] = r[j] => i = j
    <3> SUFFICES ASSUME NEW i \in 1 .. Len(r), NEW j \in 1 .. Len(r), r[i] = r[j] PROVE i = j
      BY <1>11
    <3>1. i + 1 \in DOMAIN s /\ j + 1 \in DOMAIN s /\ s[i + 1] = s[j + 1]
      BY <1>11
    <3>2. i + 1 = j + 1
      BY <1>12, <3>1
    <3> QED BY <1>11, <3>2
  <2>4. \A i \in 1 .. Len(r) - 1 : next'[r[i]] = r[i + 1]
    <3> SUFFICES ASSUME NEW i \in 1 .. Len(r) - 1 PROVE next[r[i]] = r[i + 1]
      BY <1>3
    <3>1. i + 1 \in 1 .. Len(s) - 1 /\ i \in 1 .. Len(r) /\ i + 1 \in 1 .. Len(r)
      BY <1>9, <1>11
    <3>2. next[s[i + 1]] = s[(i + 1) + 1]
      BY <3>1 DEF Struct, Shape, Line
    <3> QED BY <1>11, <3>1, <3>2
  <2> QED BY <1>11, <2>1, <2>2, <2>3, <2>4 DEF Line
<1>15. LooseNew(r)'
  <2>1. \A n \in Nodes : Loose(n)' => n \in heap' /\ ~In(r, n) /\ next'[n] = Null
    BY <1>3, <1>6, <1>13 DEF Struct, Shape, LooseNew
  <2>2. ASSUME NEW u \in Threads, Carries(u)' PROVE CarriesOwn(u)'
    <3>1. Carries(u) /\ CarriesOwn(u)
      BY <1>4, <1>5, <2>2 DEF Struct, Shape, LooseNew
    <3>2. \A v \in Threads : Carries(v)' => Carries(v)
      BY <1>4, <1>5
    <3> QED BY <1>3, <3>1, <3>2 DEF CarriesOwn, Linked
  <2> QED BY <2>1, <2>2 DEF LooseNew, In
<1>16. Passed'
  BY <1>3, <1>6 DEF Struct, Shape, Passed
<1>17. Held'
  <2> SUFFICES ASSUME NEW u \in Threads, Holding(u)' PROVE HeldBy(u)'
    BY DEF Held
  <2>1. Holding(u) /\ HeldBy(u)
    BY <1>1, <1>4 DEF Struct, Shape, Held
  <2>2. CASE u = t
    BY <1>3, <1>6, <2>1, <2>2 DEF HeldBy
  <2>3. CASE u # t
    BY <1>3, <1>6, <2>1, <2>3 DEF HeldBy
  <2> QED BY <2>2, <2>3
<1>18. Left(r)'
  <2>1. ASSUME NEW u \in Threads, LeavesTail(u)'
        PROVE  old'[u].ptr # tail'.ptr
               /\ \A v \in Threads : LeavesTail(v)' /\ old'[v].ptr = old'[u].ptr => v = u
    <3>1. \A v \in Threads : LeavesTail(v)' => LeavesTail(v)
      BY <1>4, <1>5
    <3> QED BY <1>3, <2>1, <3>1 DEF Struct, Shape, Left
  <2>2. ASSUME NEW u \in Threads, LeavesHead(u)'
        PROVE  ~In(r, old'[u].ptr)
               /\ \A v \in Threads : LeavesHead(v)' /\ old'[v].ptr = old'[u].ptr => v = u
    <3>1. \A v \in Threads \ {t} : LeavesHead(v)' =>
             /\ old[v].ptr # head.ptr /\ ~In(r, old[v].ptr)
             /\ \A w \in Threads : LeavesHead(w) /\ old[w].ptr = old[v].ptr => w = v
      BY <1>4, <1>13 DEF Struct, Shape, Left
    <3> QED BY <1>2, <1>3, <1>4, <1>13, <2>2, <3>1
  <2> QED BY <2>1, <2>2 DEF Left, In
<1>19. Sides(r)'
  <2> SUFFICES ASSUME NEW n \in heap
               PROVE  outer[n] = One(TailSide(n)') + One(HeadSide(r, n)')
    BY <1>3 DEF Sides, One
  <2>1. (TailSide(n)' <=> TailSide(n)) /\ (HeadSide(r, n)' <=> HeadSide(s, n))
    BY <1>3, <1>6, <1>7, <1>13 DEF TailSide, HeadSide, In
  <2> QED BY <2>1 DEF Struct, Shape, Sides, One
<1>20. Counts'
  <2> SUFFICES ASSUME NEW n \in heap
               PROVE  \E a, b \in Int : /\ TailDue(n, a)' /\ HeadDue(n, b)'
                                        /\ Same(inner[n] + a + b, Cardinality(Holders(n)'))
    BY <1>3, ZenonT(60) DEF Counts, Same
  <2>1. PICK a \in Int, b \in Int :
           /\ TailDue(n, a) /\ HeadDue(n, b)
           /\ Same(inner[n] + a + b, Cardinality(Holders(n)))
    BY DEF Struct, Shape, Counts
  <2>2. TailDue(n, a)'
    BY <1>1, <1>3, <1>4, <1>5, <1>7, <2>1 DEF TailDue
  <2>3. HeadDue(n, b)'
    <3>4. 1 \in DOMAIN s /\ 2 \in DOMAIN s
      BY <1>9
    <3>0. head'.ptr # head.ptr /\ In(s, head'.ptr)
      <4>1. s[1] # s[2]
        BY <1>12, <3>4
      <4>2. In(s, s[2])
        BY <3>4 DEF In
      <4>3. head'.ptr = s[2] /\ head.ptr = s[1]
        BY <1>3, <1>9
      <4> QED BY <4>1, <4>2, <4>3
    <3>1. CASE n = head'.ptr
      <4>1. In(s, n)
        BY <3>0, <3>1
      <4>2. ~HeadLeaves(n) /\ ~HeadLeaves(n)'
        BY <1>7, <3>0, <3>1, <4>1 DEF HeadLeaves, Struct, Shape, Left
      <4>3. b = 0
        BY <2>1, <3>0, <3>1, <4>2 DEF HeadDue
      <4>6. head'.cnt = 1
        BY <1>3
      <4>4. b = head'.cnt - 1
        BY <4>3, <4>6
      <4>5. \A u \in Threads : ~(LeavesHead(u)' /\ old'[u].ptr = n)
        BY <4>2 DEF HeadLeaves
      <4> QED BY <3>1, <4>4, <4>5 DEF HeadDue
    <3>2. CASE n = head.ptr
      <4>1. \A u \in Threads \ {t} : ~(LeavesHead(u) /\ old[u].ptr = n)
        BY <1>13, <3>2 DEF Struct, Shape, Left
      <4>2. b = old[t].cnt - 1
        BY <1>2, <2>1, <3>2 DEF HeadDue
      <4> QED BY <1>3, <1>4, <1>7, <3>0, <3>2, <4>1, <4>2 DEF HeadDue
    <3>3. CASE n # head'.ptr /\ n # head.ptr
      <4>1. \A u \in Threads : LeavesHead(u)' /\ old'[u].ptr = n => LeavesHead(u) /\ old'[u] = old[u]
        BY <1>2, <1>3, <1>4, <3>3
      <4> QED BY <1>7, <2>1, <3>3, <4>1 DEF HeadDue
    <3> QED BY <3>1, <3>2, <3>3
  <2> QED BY <1>8, <2>1, <2>2, <2>3
<1>21. Kept(r)'
  <2> SUFFICES ASSUME NEW n \in heap, ~Loose(n)', ~In(r, n)
               PROVE  outer[n] # 0 \/ Holders(n) # {}
    BY <1>3, <1>8 DEF Kept, In
  <2>1. CASE n = head.ptr
    BY <1>1, <1>2, <2>1 DEF Holders, Holds
  <2>2. CASE n # head.ptr
    BY <1>6, <1>13, <2>2 DEF Struct, Shape, Kept
  <2> QED BY <2>1, <2>2
<1> QED
  BY <1>2, <1>9, <1>10, <1>14, <1>15, <1>16, <1>17, <1>18, <1>19, <1>20, <1>21 DEF Shape

-----------------------------------------------------------------------------
(* A call passes on what it counted, or takes itself off the count.        *)

(* What both do to the list: a node goes only if it was not in it.         *)
LEMMA DropKeeps ==
    ASSUME NEW s, Struct(s), NEW t \in Threads, Holding(t), ~Holding(t)', NEW n, n = old[t].ptr,
           UNCHANGED <<next, head, tail, old, new, aim>>, heap' \in {heap, heap \ {n}},
           (Carries(t)' <=> Carries(t)) /\ ~LeavesTail(t)' /\ ~LeavesHead(t)',
           \A u \in Threads \ {t} : pc'[u] = pc[u],
           n \notin heap' => ~In(s, n) /\ Holders(n) = {t}
    PROVE  /\ (Line(s) /\ LooseNew(s) /\ Passed /\ Held /\ Left(s))'
           /\ \A m : Loose(m)' <=> Loose(m)
           /\ \A m : Holders(m)' = Holders(m) \ {t}
           /\ \A u \in Threads \ {t} : /\ (LeavesTail(u)' <=> LeavesTail(u))
                                       /\ (LeavesHead(u)' <=> LeavesHead(u))
<1>1. \A u \in Threads \ {t} :
         /\ (Holding(u)' <=> Holding(u)) /\ (Carries(u)' <=> Carries(u))
         /\ (LeavesTail(u)' <=> LeavesTail(u)) /\ (LeavesHead(u)' <=> LeavesHead(u))
  BY DEF Holding, Carries, LeavesTail, LeavesHead
<1>2. \A m : Loose(m)' <=> Loose(m)
  BY <1>1 DEF Loose, Carried, Linked
<1>3. \A m : Holders(m)' = Holders(m) \ {t}
  BY <1>1 DEF Holders, Holds
<1>4. \A m \in heap : m \in heap' \/ m = n
  OBVIOUS
<1>5. Line(s)'
  <2>1. \A i \in DOMAIN s : s[i] \in heap'
    BY <1>4 DEF Struct, Shape, Line, In
  <2> QED BY <2>1 DEF Struct, Shape, Line
<1>6. LooseNew(s)'
  <2>1. \A m \in Nodes : Loose(m)' => m \in heap' /\ ~In(s, m) /\ next'[m] = Null
    <3>1. ~Loose(n)
      BY DEF Struct, Shape, Held, HeldBy
    <3> QED BY <1>2, <1>4, <3>1 DEF Struct, Shape, LooseNew
  <2>2. ASSUME NEW u \in Threads, Carries(u)' PROVE CarriesOwn(u)'
    <3>1. \A v \in Threads : Carries(v)' <=> Carries(v)
      BY <1>1
    <3>2. CarriesOwn(u)
      BY <2>2, <3>1 DEF Struct, Shape, LooseNew
    <3> QED BY <3>1, <3>2 DEF CarriesOwn, Linked
  <2> QED BY <2>1, <2>2 DEF LooseNew, In
<1>7. Passed'
  <2>1. \A m \in heap' : m \in heap
    OBVIOUS
  <2> QED BY <1>2, <2>1 DEF Struct, Shape, Passed
<1>8. Held'
  <2> SUFFICES ASSUME NEW u \in Threads, Holding(u)' PROVE HeldBy(u)'
    BY DEF Held
  <2>1. u # t /\ Holding(u) /\ HeldBy(u) /\ old[u].ptr \in heap
    BY <1>1 DEF Struct, Shape, Held, HeldBy
  <2>2. old[u].ptr \in heap'
    <3>1. old[u].ptr = n => u \in Holders(n)
      BY <2>1 DEF Holders, Holds
    <3> QED BY <1>4, <2>1, <3>1
  <2> QED BY <1>2, <2>1, <2>2 DEF HeldBy
<1>9. Left(s)'
  <2>1. \A u \in Threads : (LeavesTail(u)' => LeavesTail(u)) /\ (LeavesHead(u)' => LeavesHead(u))
    BY <1>1
  <2> QED BY <2>1 DEF Struct, Shape, Left, In
<1> QED BY <1>1, <1>2, <1>3, <1>5, <1>6, <1>7, <1>8, <1>9

(* The rest, from the counts with the call off: the node goes when both    *)
(* are 0, and then nothing holds it.                                       *)
LEMMA DropShape ==
    ASSUME Enough, NEW s, Struct(s), NEW t \in Threads, Holding(t), ~Holding(t)', NEW n, n = old[t].ptr,
           UNCHANGED <<next, head, tail, old, new, aim>>, DeleteIfDead(n),
           (Carries(t)' <=> Carries(t)) /\ ~LeavesTail(t)' /\ ~LeavesHead(t)',
           \A u \in Threads \ {t} : pc'[u] = pc[u],
           \A m \in Nodes \ {n} : inner'[m] = inner[m] /\ outer'[m] = outer[m],
           inner'[n] \in 0 .. CountMod - 1,
           outer'[n] = One(TailSide(n)') + One(HeadSide(s, n)'),
           NEW c \in Int, NEW d \in Int, TailDue(n, c)', HeadDue(n, d)',
           Same(inner'[n] + c + d, Cardinality(Holders(n)) - 1)
    PROVE  Shape(s)'
<1>1. /\ n \in heap /\ ~Loose(n) /\ n \in Nodes /\ heap \subseteq Nodes /\ heap' \in {heap, heap \ {n}}
      /\ (n \notin heap' <=> Dead(n))
  BY DEF Struct, Shape, Held, HeldBy, TypeOK, DeleteIfDead
<1>2. /\ t \in Holders(n) /\ Cardinality(Holders(n)) - 1 \in 0 .. CountMod - 1
      /\ Cardinality(Holders(n) \ {t}) = Cardinality(Holders(n)) - 1
      /\ (Holders(n) \ {t} = {} <=> Cardinality(Holders(n)) - 1 = 0)
  <2>1. t \in Holders(n)
    BY DEF Holders, Holds
  <2>2. IsFiniteSet(Holders(n)) /\ Cardinality(Holders(n)) \in 0 .. CountMod - 1 /\ Holders(n) # {}
    BY <2>1, HoldersFinite
  <2>3. IsFiniteSet(Holders(n) \ {t}) /\ Cardinality(Holders(n) \ {t}) = Cardinality(Holders(n)) - 1
    BY <2>1, <2>2, FS_RemoveElement
  <2>4. Cardinality(Holders(n) \ {t}) = 0 <=> Holders(n) \ {t} = {}
    BY <2>3, FS_EmptySet
  <2>5. Cardinality(Holders(n) \ {t}) \in Nat
    BY <2>3, FS_CardinalityType
  <2> QED BY <2>1, <2>2, <2>3, <2>4, <2>5, QueueAssumption
<1>3. outer'[n] = 0 => /\ ~In(s, n) /\ ~TailSide(n)' /\ ~HeadSide(s, n)'
                       /\ Same(inner'[n], Cardinality(Holders(n)) - 1)
  <2> SUFFICES ASSUME outer'[n] = 0 PROVE /\ ~In(s, n) /\ ~TailSide(n)' /\ ~HeadSide(s, n)'
                                          /\ Same(inner'[n], Cardinality(Holders(n)) - 1)
    OBVIOUS
  <2>1. ~TailSide(n)' /\ ~HeadSide(s, n)'
    BY DEF One
  <2>2. ~In(s, n) /\ n # tail.ptr /\ ~TailLeaves(n)' /\ ~HeadLeaves(n)'
    BY <2>1 DEF TailSide, HeadSide, In
  <2>3. n # head.ptr
    BY <2>2, LineTail DEF Struct, Shape
  <2>4. c = 0 /\ d = 0
    BY <2>2, <2>3 DEF TailDue, HeadDue
  <2>5. inner'[n] + c + d = inner'[n]
    BY <2>4, QueueAssumption
  <2> QED BY <2>1, <2>2, <2>5
<1>4. n \notin heap' => ~In(s, n) /\ Holders(n) = {t}
  <2>1. n \notin heap' => outer'[n] = 0 /\ inner'[n] = 0
    BY <1>1 DEF Dead
  <2>2. n \notin heap' => 0 = Cardinality(Holders(n)) - 1
    BY <1>2, <1>3, <2>1, SameEqual
  <2> QED BY <1>2, <1>3, <2>1, <2>2
<1>5. /\ (Line(s) /\ LooseNew(s) /\ Passed /\ Held /\ Left(s))'
      /\ \A m : Loose(m)' <=> Loose(m)
      /\ \A m : Holders(m)' = Holders(m) \ {t}
      /\ \A u \in Threads \ {t} : /\ (LeavesTail(u)' <=> LeavesTail(u))
                                  /\ (LeavesHead(u)' <=> LeavesHead(u))
  BY <1>1, <1>4, DropKeeps
<1>6. \A m : m # n => /\ (TailLeaves(m)' <=> TailLeaves(m)) /\ (HeadLeaves(m)' <=> HeadLeaves(m))
                      /\ Holders(m)' = Holders(m)
  BY <1>5 DEF TailLeaves, HeadLeaves, Holders, Holds
<1>7. Sides(s)'
  <2> SUFFICES ASSUME NEW m \in heap' PROVE outer'[m] = One(TailSide(m)') + One(HeadSide(s, m)')
    BY DEF Sides, One
  <2>1. CASE m = n
    BY <2>1
  <2>2. CASE m # n
    <3>1. (TailSide(m)' <=> TailSide(m)) /\ (HeadSide(s, m)' <=> HeadSide(s, m))
      BY <1>5, <1>6, <2>2 DEF TailSide, HeadSide, In
    <3>2. m \in heap /\ outer'[m] = outer[m]
      BY <1>1, <2>2
    <3> QED BY <3>1, <3>2 DEF Struct, Shape, Sides, One
  <2> QED BY <2>1, <2>2
<1>8. Counts'
  <2> SUFFICES ASSUME NEW m \in heap'
               PROVE  \E a, b \in Int : /\ TailDue(m, a)' /\ HeadDue(m, b)'
                                        /\ Same(inner'[m] + a + b, Cardinality(Holders(m)'))
    BY DEF Counts, Same
  <2>1. CASE m = n
    BY <1>2, <1>5, <2>1
  <2>2. CASE m # n
    <3>1. m \in heap /\ inner'[m] = inner[m]
      BY <1>1, <2>2
    <3>2. PICK a \in Int, b \in Int :
             /\ TailDue(m, a) /\ HeadDue(m, b)
             /\ Same(inner[m] + a + b, Cardinality(Holders(m)))
      BY <3>1 DEF Struct, Shape, Counts
    <3>3. TailDue(m, a)'
      BY <1>5, <1>6, <2>2, <3>2 DEF TailDue
    <3>4. HeadDue(m, b)'
      BY <1>5, <1>6, <2>2, <3>2 DEF HeadDue
    <3> QED BY <1>6, <2>2, <3>1, <3>2, <3>3, <3>4
  <2> QED BY <2>1, <2>2
<1>9. Kept(s)'
  <2> SUFFICES ASSUME NEW m \in heap', ~Loose(m)', ~In(s, m)
               PROVE  outer'[m] # 0 \/ Holders(m)' # {}
    BY DEF Kept, In
  <2>1. CASE m = n
    <3> SUFFICES ASSUME outer'[n] = 0, Holders(n) \ {t} = {} PROVE FALSE
      BY <1>5, <2>1
    <3>1. 0 = Cardinality(Holders(n)) - 1
      BY <1>2
    <3>2. inner'[n] = 0
      BY <1>2, <1>3, <3>1, SameEqual
    <3> QED BY <1>1, <2>1, <3>2 DEF Dead
  <2>2. CASE m # n
    <3>1. m \in heap /\ outer'[m] = outer[m] /\ ~Loose(m)
      BY <1>1, <1>5, <2>2
    <3> QED BY <1>6, <2>2, <3>1 DEF Struct, Shape, Kept
  <2> QED BY <2>1, <2>2
<1> QED BY <1>5, <1>7, <1>8, <1>9 DEF Shape

LEMMA ReleaseShape ==
    ASSUME Enough, NEW s, Struct(s), NEW t \in Threads, ReleaseRef(t) PROVE Shape(s)'
<1>0. /\ pc \in [Threads -> Pcs] /\ inner \in [Nodes -> 0 .. CountMod - 1]
      /\ outer \in [Nodes -> 0 .. 3] /\ CountMod \in Nat
  BY QueueAssumption DEF Struct, TypeOK
<1>1. pc[t] \in {"release", "help release", "pop release", "give up"} /\ Holding(t)
  BY DEF ReleaseRef, Holding
<1>2. PICK n : n = old[t].ptr
  OBVIOUS
<1>3. n \in heap /\ n \in Nodes /\ ~Loose(n)
  BY <1>1, <1>2, HeldNode
<1>4. /\ UNCHANGED <<next, head, tail, old, new, aim>> /\ UNCHANGED outer /\ DeleteIfDead(n)
      /\ inner' = [inner EXCEPT ![n] = Wrap(@ - 1)]
      /\ pc' = [pc EXCEPT ![t] = After(pc[t])]
  BY <1>2 DEF ReleaseRef, Goto
<1>5. /\ ~Holding(t)' /\ (Carries(t)' <=> Carries(t)) /\ ~LeavesTail(t)' /\ ~LeavesHead(t)'
      /\ ~LeavesTail(t) /\ ~LeavesHead(t)
  <2>1. \/ pc[t] \in {"release", "give up"} /\ pc'[t] = "end"
        \/ pc[t] = "help release" /\ pc'[t] = "count tail"
        \/ pc[t] = "pop release" /\ pc'[t] = "count head"
    BY <1>0, <1>1, <1>4 DEF After
  <2> QED BY <2>1 DEF Holding, Carries, LeavesTail, LeavesHead
<1>6. \A u \in Threads \ {t} : pc'[u] = pc[u]
  BY <1>0, <1>4
<1>7. /\ \A m : TailLeaves(m)' <=> TailLeaves(m)
      /\ \A m : HeadLeaves(m)' <=> HeadLeaves(m)
      /\ \A m : Loose(m)' <=> Loose(m)
  <2>1. \A u \in Threads : /\ (LeavesTail(u)' <=> LeavesTail(u)) /\ (LeavesHead(u)' <=> LeavesHead(u))
                           /\ (Carries(u)' <=> Carries(u))
    BY <1>5, <1>6 DEF LeavesTail, LeavesHead, Carries
  <2> QED BY <1>4, <2>1 DEF TailLeaves, HeadLeaves, Loose, Carried, Linked
<1>8. PICK a \in Int, b \in Int :
         /\ TailDue(n, a) /\ HeadDue(n, b)
         /\ Same(inner[n] + a + b, Cardinality(Holders(n)))
  BY <1>3 DEF Struct, Shape, Counts
<1>9. TailDue(n, a)' /\ HeadDue(n, b)'
  <2>1. TailDue(n, a)'
    BY <1>4, <1>5, <1>6, <1>7, <1>8 DEF TailDue, LeavesTail
  <2>2. HeadDue(n, b)'
    BY <1>4, <1>5, <1>6, <1>7, <1>8 DEF HeadDue, LeavesHead
  <2> QED BY <2>1, <2>2
<1>10. Same(inner'[n] + a + b, Cardinality(Holders(n)) - 1)
  <2>1. inner[n] \in Int /\ Cardinality(Holders(n)) \in Int
    BY <1>0, <1>3, HoldersFinite, QueueAssumption
  <2>2. Same((inner[n] + a + b) + (-1), Cardinality(Holders(n)) + (-1))
    <3>1. inner[n] + a + b \in Int /\ -1 \in Int /\ Same(-1, -1)
      BY <1>8, <2>1, SameRefl
    <3> QED BY <1>8, <2>1, <3>1, SameAdd
  <2>3. Same((inner[n] - 1) + (a + b), Cardinality(Holders(n)) - 1)
    <3>1. (inner[n] + a + b) + (-1) = (inner[n] - 1) + (a + b)
      BY <1>8, <2>1
    <3>2. Cardinality(Holders(n)) + (-1) = Cardinality(Holders(n)) - 1
      BY <2>1
    <3> QED BY <2>2, <3>1, <3>2
  <2>4. Same(((inner[n] - 1) % CountMod) + (a + b), Cardinality(Holders(n)) - 1)
    BY <1>8, <2>1, <2>3, SameWrapped
  <2>5. inner'[n] = (inner[n] - 1) % CountMod /\ (inner[n] - 1) % CountMod \in Int
    BY <1>0, <1>3, <1>4, <2>1, QueueAssumption DEF Wrap
  <2>6. ((inner[n] - 1) % CountMod) + (a + b) = inner'[n] + a + b
    BY <1>8, <2>5
  <2> QED BY <2>4, <2>6
<1>11. inner'[n] \in 0 .. CountMod - 1
  BY <1>0, <1>3, <1>4, WrapRange
<1>12. outer'[n] = One(TailSide(n)') + One(HeadSide(s, n)')
  <2>1. (TailSide(n)' <=> TailSide(n)) /\ (HeadSide(s, n)' <=> HeadSide(s, n))
    BY <1>4, <1>7 DEF TailSide, HeadSide, In
  <2> QED BY <1>3, <1>4, <2>1 DEF Struct, Shape, Sides, One
<1>13. \A m \in Nodes \ {n} : inner'[m] = inner[m] /\ outer'[m] = outer[m]
  BY <1>0, <1>4
<1> QED BY <1>1, <1>2, <1>4, <1>5, <1>6, <1>8, <1>9, <1>10, <1>11, <1>12, <1>13, DropShape

LEMMA FreeShape ==
    ASSUME Enough, NEW s, Struct(s), NEW t \in Threads, FreeExternalCounter(t) PROVE Shape(s)'
<1>0. /\ pc \in [Threads -> Pcs] /\ inner \in [Nodes -> 0 .. CountMod - 1]
      /\ outer \in [Nodes -> 0 .. 3] /\ CountMod \in Nat
  BY QueueAssumption DEF Struct, TypeOK
<1>1. pc[t] \in {"free counter", "help free", "pop free"} /\ Holding(t)
  BY DEF FreeExternalCounter, Holding
<1>2. PICK n : n = old[t].ptr
  OBVIOUS
<1>3. n \in heap /\ n \in Nodes /\ ~Loose(n) /\ old[t].cnt \in Int
  <2>1. old[t].cnt \in 0 .. CountMod - 1
    BY <1>1, HeldNode
  <2>2. old[t].cnt \in Int
    BY <1>0, <2>1
  <2>3. n \in heap /\ n \in Nodes /\ ~Loose(n)
    BY <1>1, <1>2, HeldNode
  <2> QED BY <2>2, <2>3
<1>4. /\ UNCHANGED <<next, head, tail, old, new, aim>> /\ DeleteIfDead(n)
      /\ inner' = [inner EXCEPT ![n] = Wrap(@ + Increase(t))]
      /\ outer' = [outer EXCEPT ![n] = (@ - 1) % 4]
      /\ pc' = [pc EXCEPT ![t] = After(pc[t])]
  BY <1>2 DEF FreeExternalCounter, Goto, local
<1>5. /\ ~Holding(t)' /\ (Carries(t)' <=> Carries(t)) /\ ~LeavesTail(t)' /\ ~LeavesHead(t)'
      /\ (LeavesTail(t) /\ ~LeavesHead(t)) \/ (LeavesHead(t) /\ ~LeavesTail(t))
  <2>1. \/ pc[t] = "free counter" /\ pc'[t] = "end"
        \/ pc[t] = "pop free" /\ pc'[t] = "end"
        \/ pc[t] = "help free" /\ pc'[t] = "count tail"
    BY <1>0, <1>1, <1>4 DEF After
  <2>2. (LeavesTail(t) /\ ~LeavesHead(t)) \/ (LeavesHead(t) /\ ~LeavesTail(t))
    BY <2>1 DEF LeavesTail, LeavesHead
  <2> QED BY <2>1, <2>2 DEF Holding, Carries, LeavesTail, LeavesHead
<1>6. \A u \in Threads \ {t} : pc'[u] = pc[u]
  BY <1>0, <1>4
<1>7. \A u \in Threads \ {t} :
         /\ (LeavesTail(u)' <=> LeavesTail(u)) /\ (LeavesHead(u)' <=> LeavesHead(u))
         /\ (Carries(u)' <=> Carries(u))
  BY <1>6 DEF LeavesTail, LeavesHead, Carries
<1>8. \A m : Loose(m)' <=> Loose(m)
  BY <1>4, <1>5, <1>7 DEF Loose, Carried, Linked
<1>9. PICK a \in Int, b \in Int :
         /\ TailDue(n, a) /\ HeadDue(n, b)
         /\ Same(inner[n] + a + b, Cardinality(Holders(n)))
  BY <1>3 DEF Struct, Shape, Counts
<1>10. Same(inner'[n] + (a + b - (old[t].cnt - 1)), Cardinality(Holders(n)) - 1)
  <2>1. inner[n] \in Int /\ Cardinality(Holders(n)) \in Int
    BY <1>0, <1>3, HoldersFinite, QueueAssumption
  <2>2. Same((inner[n] + a + b) + (-1), Cardinality(Holders(n)) + (-1))
    <3>1. inner[n] + a + b \in Int /\ -1 \in Int /\ Same(-1, -1)
      BY <1>9, <2>1, SameRefl
    <3> QED BY <1>9, <2>1, <3>1, SameAdd
  <2>3. Same((inner[n] + Increase(t)) + (a + b - (old[t].cnt - 1)), Cardinality(Holders(n)) - 1)
    <3>1. (inner[n] + a + b) + (-1) = (inner[n] + Increase(t)) + (a + b - (old[t].cnt - 1))
      BY <1>3, <1>9, <2>1 DEF Increase
    <3>2. Cardinality(Holders(n)) + (-1) = Cardinality(Holders(n)) - 1
      BY <2>1
    <3> QED BY <2>2, <3>1, <3>2
  <2>4. Increase(t) \in Int /\ inner[n] + Increase(t) \in Int
    BY <1>3, <2>1 DEF Increase
  <2>5. a + b - (old[t].cnt - 1) \in Int /\ Cardinality(Holders(n)) - 1 \in Int
    BY <1>3, <1>9, <2>1
  <2>6. Same(((inner[n] + Increase(t)) % CountMod) + (a + b - (old[t].cnt - 1)), Cardinality(Holders(n)) - 1)
    BY <2>3, <2>4, <2>5, SameWrapped
  <2>7. inner'[n] = (inner[n] + Increase(t)) % CountMod
    BY <1>0, <1>3, <1>4 DEF Wrap
  <2> QED BY <2>6, <2>7
<1>11. inner'[n] \in 0 .. CountMod - 1
  <2>1. inner[n] + Increase(t) \in Int
    BY <1>0, <1>3 DEF Increase
  <2> QED BY <1>0, <1>3, <1>4, <2>1, WrapRange
<1>12. \A m \in Nodes \ {n} : inner'[m] = inner[m] /\ outer'[m] = outer[m]
  BY <1>0, <1>4
<1>13. /\ outer'[n] = (outer[n] - 1) % 4
       /\ outer[n] = One(TailSide(n)) + One(HeadSide(s, n))
  BY <1>0, <1>3, <1>4 DEF Struct, Shape, Sides
<1>14. CASE LeavesTail(t) /\ ~LeavesHead(t)
  <2>1. n # tail.ptr /\ \A u \in Threads \ {t} : ~(LeavesTail(u) /\ old[u].ptr = n)
    BY <1>2, <1>14 DEF Struct, Shape, Left
  <2>2. TailLeaves(n) /\ ~TailLeaves(n)' /\ (HeadLeaves(n)' <=> HeadLeaves(n))
    BY <1>2, <1>4, <1>5, <1>7, <1>14, <2>1 DEF TailLeaves, HeadLeaves
  <2>3. a = old[t].cnt - 1
    BY <1>2, <1>9, <1>14 DEF TailDue
  <2>4. TailSide(n) /\ ~TailSide(n)' /\ (HeadSide(s, n)' <=> HeadSide(s, n))
    BY <1>3, <1>4, <1>8, <2>1, <2>2 DEF TailSide, HeadSide, In
  <2>5. outer'[n] = One(TailSide(n)') + One(HeadSide(s, n)')
    BY <1>13, <2>4 DEF One
  <2>6. TailDue(n, 0)'
    BY <1>4, <2>1, <2>2 DEF TailDue, TailLeaves
  <2>7. HeadDue(n, b)'
    BY <1>4, <1>5, <1>7, <1>9, <2>2 DEF HeadDue
  <2>8. inner'[n] + (a + b - (old[t].cnt - 1)) = inner'[n] + 0 + b
    BY <1>9, <1>11, <2>3, QueueAssumption
  <2>9. Same(inner'[n] + 0 + b, Cardinality(Holders(n)) - 1)
    BY <1>10, <2>8
  <2>10. 0 \in Int /\ UNCHANGED <<next, head, tail, old, new, aim>> /\ ~Holding(t)'
    BY <1>4, <1>5
  <2> QED BY <1>1, <1>2, <1>4, <1>5, <1>6, <1>9, <1>11, <1>12, <2>5, <2>6, <2>7, <2>9, <2>10, DropShape
<1>15. CASE LeavesHead(t) /\ ~LeavesTail(t)
  <2>1. ~In(s, n) /\ \A u \in Threads \ {t} : ~(LeavesHead(u) /\ old[u].ptr = n)
    BY <1>2, <1>15 DEF Struct, Shape, Left
  <2>2. HeadLeaves(n) /\ ~HeadLeaves(n)' /\ (TailLeaves(n)' <=> TailLeaves(n))
    BY <1>2, <1>4, <1>5, <1>7, <1>15, <2>1 DEF TailLeaves, HeadLeaves
  <2>0. n # head.ptr
    BY <2>1, LineTail DEF Struct, Shape
  <2>3. b = old[t].cnt - 1
    BY <1>2, <1>9, <1>15 DEF HeadDue
  <2>4. HeadSide(s, n) /\ ~HeadSide(s, n)' /\ (TailSide(n)' <=> TailSide(n))
    BY <1>3, <1>4, <1>8, <2>1, <2>2 DEF TailSide, HeadSide, In
  <2>5. outer'[n] = One(TailSide(n)') + One(HeadSide(s, n)')
    BY <1>13, <2>4 DEF One
  <2>6. HeadDue(n, 0)'
    BY <1>4, <2>0, <2>2 DEF HeadDue, HeadLeaves
  <2>7. TailDue(n, a)'
    BY <1>4, <1>5, <1>7, <1>9, <2>2 DEF TailDue
  <2>8. inner'[n] + (a + b - (old[t].cnt - 1)) = inner'[n] + a + 0
    BY <1>9, <1>11, <2>3, QueueAssumption
  <2>9. Same(inner'[n] + a + 0, Cardinality(Holders(n)) - 1)
    BY <1>10, <2>8
  <2>10. 0 \in Int /\ UNCHANGED <<next, head, tail, old, new, aim>> /\ ~Holding(t)'
    BY <1>4, <1>5
  <2> QED BY <1>1, <1>2, <1>4, <1>5, <1>6, <1>9, <1>11, <1>12, <2>5, <2>6, <2>7, <2>9, <2>10, DropShape
<1> QED BY <1>5, <1>14, <1>15

-----------------------------------------------------------------------------
(* The invariant.                                                          *)

Sound == \E s : Struct(s)

LEMMA InitSound == ASSUME Enough, Init PROVE \E s : Struct(s) /\ s = <<head.ptr>>
<1>1. PICK n \in Nodes, x \in FreshData :
        /\ heap = {n}
        /\ data = [m \in Nodes |-> IF m = n THEN x ELSE Null]
        /\ next = [m \in Nodes |-> Null]
        /\ inner = [m \in Nodes |-> 0]
        /\ outer = [m \in Nodes |-> IF m = n THEN 2 ELSE 0]
        /\ head = Counted(n, 1) /\ tail = Counted(n, 1)
        /\ pc = [t \in Threads |-> "start"]
        /\ old = [t \in Threads |-> Counted(Null, 0)]
        /\ new = [t \in Threads |-> Null] /\ aim = [t \in Threads |-> Null]
        /\ ret = [t \in Poppers |-> Null]
        /\ taken = <<>> /\ fault = FALSE
  BY DEF Init
<1>2. PICK s : s = <<n>>
  OBVIOUS
<1>3. s \in Seq(Nodes) /\ s # <<>> /\ Len(s) = 1 /\ DOMAIN s = 1 .. 1 /\ s[1] = n
  BY <1>2
<1>4. /\ head.ptr = n /\ tail.ptr = n /\ head.cnt = 1 /\ tail.cnt = 1
      /\ CountMod \in Nat \ {0} /\ 1 < CountMod
  BY <1>1, QueueAssumption DEF Counted, Enough
<1>5. TypeOK
  <2>1. Counted(n, 1) \in CountedPtrs /\ Counted(Null, 0) \in CountedPtrs
    BY <1>4 DEF Counted, CountedPtrs
  <2>2. x \in {Null, Garbage}
    BY QueueAssumption
  <2>3. inner \in [Nodes -> 0 .. CountMod - 1] /\ outer \in [Nodes -> 0 .. 3]
    BY <1>1, <1>4
  <2>4. pc \in [Threads -> Pcs]
    BY <1>1 DEF Pcs
  <2> QED BY <1>1, <2>1, <2>2, <2>3, <2>4 DEF TypeOK
<1>6. Kinds
  BY <1>1 DEF Kinds, Threads
<1>7. \A t \in Threads : pc[t] = "start"
  BY <1>1
<1>8. \A t \in Threads : ~Holding(t) /\ ~Carries(t) /\ ~LeavesTail(t) /\ ~LeavesHead(t)
  BY <1>7 DEF Holding, Carries, LeavesTail, LeavesHead
<1>9. \A m : ~TailLeaves(m) /\ ~HeadLeaves(m) /\ Holders(m) = {} /\ ~Carried(m)
  BY <1>8 DEF TailLeaves, HeadLeaves, Holders, Holds, Carried
<1>10. \A m \in Nodes : ~Loose(m)
  BY <1>1, <1>4, <1>9, QueueAssumption DEF Loose, Linked
<1>11. \A m : In(s, m) <=> m = n
  BY <1>3 DEF In
<1>12. Line(s)
  <2>1. \A i \in 1 .. Len(s) - 1 : FALSE
    BY <1>3
  <2> QED BY <1>1, <1>3, <1>4, <2>1 DEF Line
<1>13. LooseNew(s) /\ Held /\ Left(s)
  BY <1>8, <1>10 DEF LooseNew, Held, Left
<1>14. Passed
  BY <1>1, <1>4 DEF Passed
<1>15. Sides(s)
  BY <1>1, <1>4, <1>9, <1>10, <1>11 DEF Sides, TailSide, HeadSide, One
<1>16. Counts
  <2>1. Cardinality(Holders(n)) = 0
    BY <1>9, FS_EmptySet
  <2>2. inner[n] + 0 + 0 = 0
    BY <1>1
  <2>3. Same(inner[n] + 0 + 0, Cardinality(Holders(n)))
    BY <2>1, <2>2, SameRefl
  <2>4. TailDue(n, 0) /\ HeadDue(n, 0)
    BY <1>4, <1>8 DEF TailDue, HeadDue
  <2> QED BY <1>1, <2>3, <2>4 DEF Counts
<1>17. Kept(s)
  BY <1>1, <1>11 DEF Kept
<1> QED
  BY <1>1, <1>2, <1>4, <1>5, <1>6, <1>12, <1>13, <1>14, <1>15, <1>16, <1>17 DEF Struct, Shape

(* What a step does to the list: the tail joins it at the end, the head    *)
(* leaves it at the front, or neither.                                     *)
LEMMA StepShape ==
    ASSUME Enough, NEW s, Struct(s), NEW t \in Threads, Step(t)
    PROVE  \E r : /\ Shape(r)'
                  /\ \/ r = s
                     \/ Swing(t) /\ AtOldTail(t) /\ r = Append(s, tail'.ptr)
                     \/ MoveHead(t) /\ SameHead(t) /\ r = Tail(s)
<1>1. CASE Quiet(t)
  BY <1>1, QuietShape
<1>2. CASE CountTail(t) \/ CountHead(t)
  BY <1>2, CountJoins
<1>3. CASE PushStart(t) \/ (Help(t) /\ next[old[t].ptr] = Null) \/ Link(t)
  BY <1>3, PushStartShape, LinkShape, UnlinkShape
<1>4. CASE Swing(t) /\ AtOldTail(t)
  BY <1>4, SwingShape
<1>5. CASE MoveHead(t) /\ SameHead(t)
  BY <1>5, MoveHeadShape
<1>6. CASE FreeExternalCounter(t)
  BY <1>6, FreeShape
<1>7. CASE ReleaseRef(t)
  BY <1>7, ReleaseShape
<1> QED BY <1>1, <1>2, <1>3, <1>4, <1>5, <1>6, <1>7 DEF Step, Quiet

LEMMA StutterShape ==
    ASSUME NEW s, Struct(s), UNCHANGED vars PROVE Struct(s)'
<1>0. UNCHANGED <<heap, data, next, inner, outer, head, tail, pc, old, new, aim, ret, taken, fault>>
  BY DEF vars, nodes, local
<1>1. /\ \A u \in Threads :
           /\ (Holding(u)' <=> Holding(u)) /\ (Carries(u)' <=> Carries(u))
           /\ (LeavesTail(u)' <=> LeavesTail(u)) /\ (LeavesHead(u)' <=> LeavesHead(u))
           /\ Carries(u) => new'[u] = new[u]
  BY <1>0 DEF Holding, Carries, LeavesTail, LeavesHead
<1>2. (Line(s) /\ LooseNew(s) /\ Passed /\ Left(s) /\ Sides(s) /\ Counts /\ Kept(s))'
  BY <1>0, <1>1, QuietKeeps
<1>3. Held'
  <2>1. \A n : (Loose(n)' <=> Loose(n))
    BY <1>0, <1>1 DEF Loose, Carried, Linked
  <2> QED BY <1>0, <1>1, <2>1 DEF Struct, Shape, Held, HeldBy
<1>4. TypeOK' /\ ~fault' /\ Kinds'
  BY <1>0 DEF Struct, TypeOK, Kinds
<1> QED BY <1>2, <1>3, <1>4 DEF Struct, Shape

-----------------------------------------------------------------------------
(* What Behind and Chain are: the line, and what is linked behind it.      *)

LEMMA LeastNumber ==
    ASSUME NEW T \in SUBSET Nat, T # {} PROVE \E x \in T : \A y \in T : x <= y
<1>1. IsWellFoundedOn({p \in Nat \X Nat : p[1] < p[2]}, Nat)
  BY NatLessThanWellFounded DEF OpToRel
<1>2. PICK x \in T : \A y \in T : ~(<<y, x>> \in {p \in Nat \X Nat : p[1] < p[2]})
  BY <1>1, WFMin
<1>3. ASSUME NEW y \in T PROVE x <= y
  <2>1. x \in Nat /\ y \in Nat /\ <<y, x>> \in Nat \X Nat
    OBVIOUS
  <2> QED BY <1>2, <2>1
<1> QED BY <1>3

LEMMA LineFits ==
    ASSUME Enough, NEW s, Line(s) PROVE Len(s) \in 1 .. Cardinality(Nodes) /\ Cardinality(Nodes) \in Nat
<1>1. s \in Seq(Nodes) /\ Len(s) \in Nat \ {0} /\ DOMAIN s = 1 .. Len(s)
  BY LineTail DEF Line
<1>2. s \in Injection(1 .. Len(s), Nodes)
  <2>1. s \in [1 .. Len(s) -> Nodes]
    BY <1>1, LenProperties
  <2>2. \A i, j \in 1 .. Len(s) : s[i] = s[j] => i = j
    BY <1>1 DEF Line
  <2> QED BY <2>1, <2>2 DEF Injection, IsInjective
<1>3. Cardinality(1 .. Len(s)) <= Cardinality(Nodes)
  BY <1>2, FS_Injection DEF Enough
<1>4. Cardinality(1 .. Len(s)) = Len(s)
  BY <1>1, FS_Interval
<1>5. Cardinality(Nodes) \in Nat
  BY FS_CardinalityType DEF Enough
<1> QED BY <1>1, <1>3, <1>4, <1>5

LEMMA BehindIsLine ==
    ASSUME Enough, NEW s, Struct(s)
    PROVE  /\ DOMAIN Behind = 0 .. Cardinality(Nodes)
           /\ \A i \in 0 .. Cardinality(Nodes) :
                 Behind[i] = IF i < Len(s) THEN s[i + 1]
                             ELSE IF i = Len(s) THEN next[tail.ptr] ELSE Null
<1>1. PICK N : N = Cardinality(Nodes)
  OBVIOUS
<1>2. PICK k \in Nat \ {0} : k = Len(s)
  BY LineTail DEF Struct, Shape
<1>0. /\ N \in Nat /\ k <= N /\ DOMAIN s = 1 .. k
      /\ s[1] = head.ptr /\ s[k] = tail.ptr
      /\ \A i \in 1 .. k : s[i] \in Nodes
      /\ \A i \in 1 .. k - 1 : next[s[i]] = s[i + 1]
  <2>1. Line(s)
    BY DEF Struct, Shape
  <2>2. DOMAIN s = 1 .. k /\ s \in Seq(Nodes)
    BY <1>2, <2>1, LineTail DEF Line
  <2>3. N \in Nat /\ k <= N
    BY <1>1, <1>2, <2>1, LineFits
  <2>4. \A i \in 1 .. k : s[i] \in Nodes
    BY <1>2, <2>2
  <2> QED BY <1>2, <2>1, <2>2, <2>3, <2>4 DEF Line
<1>3. next[tail.ptr] # Null => next[next[tail.ptr]] = Null
  <2>1. tail.ptr \in Nodes
    BY <1>0
  <2>2. next[tail.ptr] \in Nodes \cup {Null}
    BY <2>1 DEF Struct, TypeOK
  <2> QED BY <2>2 DEF Struct, Shape, LooseNew, Loose, Linked
<1>4. PICK nx : nx = next
  OBVIOUS
<1>5. PICK h : h = head.ptr
  OBVIOUS
<1>6. PICK g : g = [i \in 0 .. N |-> IF i < k THEN s[i + 1]
                                     ELSE IF i = k THEN nx[s[k]] ELSE Null]
  OBVIOUS
<1>7. \A i \in 0 .. N : g[i] = (IF i = 0 THEN h ELSE IF g[i - 1] = Null THEN Null ELSE nx[g[i - 1]])
  <2> SUFFICES ASSUME NEW i \in 0 .. N
               PROVE g[i] = (IF i = 0 THEN h ELSE IF g[i - 1] = Null THEN Null ELSE nx[g[i - 1]])
    OBVIOUS
  <2>6. i \in Int /\ k \in Int /\ N \in Int /\ k > 0 /\ i <= N
    BY <1>0
  <2>1. CASE i = 0
    <3>1. 0 \in 0 .. N /\ 0 < k /\ 0 + 1 = 1
      BY <1>0
    <3>2. g[0] = s[1]
      BY <1>6, <3>1
    <3> QED BY <1>0, <1>5, <2>1, <3>2
  <2>2. CASE i # 0 /\ i < k
    <3>1. i \in 1 .. k - 1 /\ i - 1 \in 0 .. N /\ i - 1 < k /\ (i - 1) + 1 = i
      BY <1>0, <2>2
    <3>2. g[i - 1] = s[i]
      BY <1>6, <3>1
    <3>3. g[i] = s[i + 1]
      BY <1>6, <2>2
    <3>4. s[i] \in Nodes /\ nx[s[i]] = s[i + 1]
      BY <1>0, <1>4, <3>1
    <3> QED BY <2>2, <3>2, <3>3, <3>4, QueueAssumption
  <2>3. CASE i = k
    <3>1. i # 0 /\ i - 1 \in 0 .. N /\ i - 1 < k /\ (i - 1) + 1 = i
      BY <1>0, <2>3
    <3>2. g[i - 1] = s[i]
      BY <1>6, <3>1
    <3>3. g[i] = nx[s[i]] /\ s[i] \in Nodes
      BY <1>0, <1>6, <2>3
    <3> QED BY <3>1, <3>2, <3>3, QueueAssumption
  <2>4. CASE i = k + 1
    <3>1. i # 0 /\ i - 1 \in 0 .. N /\ i - 1 = k /\ ~(i < k) /\ ~(i - 1 < k) /\ i # k
      BY <2>4, <2>6, SMT
    <3>2. g[i - 1] = nx[s[k]] /\ g[i] = Null
      BY <1>6, <3>1
    <3> QED BY <1>0, <1>3, <1>4, <3>1, <3>2
  <2>5. CASE i > k + 1
    <3>1. i # 0 /\ i - 1 \in 0 .. N /\ i - 1 # k /\ ~(i < k) /\ ~(i - 1 < k) /\ i # k
      BY <2>5, <2>6, SMT
    <3> QED BY <1>6, <3>1
  <2> QED BY <2>1, <2>2, <2>3, <2>4, <2>5, <2>6
<1>8. g = [i \in 0 .. N |-> IF i = 0 THEN h ELSE IF g[i - 1] = Null THEN Null ELSE nx[g[i - 1]]]
  BY <1>6, <1>7
<1>9. PICK f : f = Behind
  OBVIOUS
<1>10. f = [i \in 0 .. N |-> IF i = 0 THEN h ELSE IF f[i - 1] = Null THEN Null ELSE nx[f[i - 1]]]
  <2>1. f = CHOOSE e : e = [i \in 0 .. N |-> IF i = 0 THEN h ELSE IF e[i - 1] = Null THEN Null ELSE nx[e[i - 1]]]
    BY <1>1, <1>4, <1>5, <1>9, ZenonT(60) DEF Behind
  <2> QED BY <1>8, <2>1, Zenon
<1>11. \A i \in 0 .. N : f[i] = g[i]
  <2> SUFFICES ASSUME {i \in 0 .. N : f[i] # g[i]} # {} PROVE FALSE
    OBVIOUS
  <2>1. {i \in 0 .. N : f[i] # g[i]} \in SUBSET Nat
    BY <1>0
  <2>2. PICK i \in {j \in 0 .. N : f[j] # g[j]} : \A l \in {j \in 0 .. N : f[j] # g[j]} : i <= l
    BY <2>1, LeastNumber
  <2>3. i \in 0 .. N /\ f[i] # g[i]
    BY <2>2
  <2>4. CASE i = 0
    BY <1>7, <1>10, <2>3, <2>4
  <2>5. CASE i # 0
    <3>1. i - 1 \in 0 .. N /\ ~(i <= i - 1)
      BY <1>0, <2>3, <2>5
    <3>2. f[i - 1] = g[i - 1]
      BY <2>2, <3>1
    <3>3. f[i] = (IF f[i - 1] = Null THEN Null ELSE nx[f[i - 1]])
      BY <1>10, <2>3, <2>5
    <3>4. g[i] = (IF g[i - 1] = Null THEN Null ELSE nx[g[i - 1]])
      BY <1>7, <2>3, <2>5
    <3> QED BY <2>3, <3>2, <3>3, <3>4
  <2> QED BY <2>4, <2>5
<1>12. DOMAIN f = 0 .. N
  BY <1>10
<1> QED BY <1>0, <1>1, <1>2, <1>4, <1>6, <1>9, <1>11, <1>12

LEMMA ChainIsLine ==
    ASSUME Enough, NEW s, Struct(s)
    PROVE  \A n : n \in Chain <=> In(s, n) \/ (n = next[tail.ptr] /\ n # Null)
<1>1. /\ Cardinality(Nodes) \in Nat /\ Len(s) \in 1 .. Cardinality(Nodes) /\ DOMAIN s = 1 .. Len(s)
      /\ \A i \in 1 .. Len(s) : s[i] \in Nodes
  BY LineFits, LineTail DEF Struct, Shape, Line
<1>2. /\ DOMAIN Behind = 0 .. Cardinality(Nodes)
      /\ \A i \in 0 .. Cardinality(Nodes) :
            Behind[i] = IF i < Len(s) THEN s[i + 1]
                        ELSE IF i = Len(s) THEN next[tail.ptr] ELSE Null
  BY BehindIsLine
<1>3. ASSUME NEW n, n \in Chain PROVE In(s, n) \/ (n = next[tail.ptr] /\ n # Null)
  <2>1. PICK i \in 0 .. Cardinality(Nodes) : n = Behind[i] /\ n # Null
    BY <1>2, <1>3 DEF Chain
  <2>2. CASE i < Len(s)
    <3>1. i + 1 \in DOMAIN s
      BY <1>1, <2>2
    <3>2. n = s[i + 1]
      BY <1>2, <2>1, <2>2
    <3> QED BY <3>1, <3>2 DEF In
  <2>3. CASE ~(i < Len(s))
    BY <1>2, <2>1, <2>3
  <2> QED BY <2>2, <2>3
<1>4. ASSUME NEW n, In(s, n) PROVE n \in Chain
  <2>1. PICK i \in 1 .. Len(s) : s[i] = n
    BY <1>1, <1>4 DEF In
  <2>2. i - 1 \in 0 .. Cardinality(Nodes) /\ i - 1 < Len(s) /\ (i - 1) + 1 = i
    BY <1>1
  <2>3. Behind[i - 1] = n /\ n # Null
    BY <1>1, <1>2, <2>1, <2>2, QueueAssumption
  <2> QED BY <1>2, <2>2, <2>3 DEF Chain
<1>5. ASSUME NEW n, n = next[tail.ptr], n # Null PROVE n \in Chain
  <2>1. Len(s) \in 0 .. Cardinality(Nodes) /\ ~(Len(s) < Len(s))
    BY <1>1
  <2>2. Behind[Len(s)] = n
    BY <1>2, <1>5, <2>1
  <2> QED BY <1>2, <1>5, <2>1, <2>2 DEF Chain
<1> QED BY <1>3, <1>4, <1>5

-----------------------------------------------------------------------------

LEMMA NodesSoundIfSound == ASSUME Enough, NEW s, Struct(s) PROVE NodesSound
<1>1. NoUseAfterFree
  BY DEF Struct, NoUseAfterFree
<1>2. ASSUME Ended PROVE heap = Chain
  <2>1. \A t \in Threads : ~Holding(t) /\ ~Carries(t) /\ ~LeavesTail(t) /\ ~LeavesHead(t)
    BY <1>2 DEF Ended, Holding, Carries, LeavesTail, LeavesHead
  <2>2. \A n : Holders(n) = {} /\ ~Carried(n) /\ ~TailLeaves(n) /\ ~HeadLeaves(n)
    BY <2>1 DEF Holders, Holds, Carried, TailLeaves, HeadLeaves
  <2>3. heap \subseteq Nodes /\ next \in [Nodes -> Nodes \cup {Null}] /\ In(s, tail.ptr)
        /\ \A n : In(s, n) => n \in heap
    BY LineTail DEF Struct, TypeOK, Shape, Line, In
  <2>4. ASSUME NEW n \in heap, ~In(s, n) PROVE n = next[tail.ptr] /\ n # Null
    <3>1. CASE Loose(n)
      BY <2>2, <2>3, <2>4, <3>1, QueueAssumption DEF Loose, Linked
    <3>2. CASE ~Loose(n)
      <4>1. outer[n] # 0
        BY <2>2, <2>4, <3>2 DEF Struct, Shape, Kept
      <4>2. ~TailSide(n) /\ ~HeadSide(s, n)
        BY <2>2, <2>3, <2>4, <3>2 DEF TailSide, HeadSide
      <4> QED BY <2>4, <4>1, <4>2 DEF Struct, Shape, Sides, One
    <3> QED BY <3>1, <3>2
  <2>5. ASSUME NEW n, n = next[tail.ptr], n # Null PROVE n \in heap
    <3>1. n \in Nodes /\ Loose(n)
      BY <2>3, <2>5 DEF Loose, Linked
    <3> QED BY <3>1 DEF Struct, Shape, LooseNew
  <2>6. \A n : n \in Chain <=> In(s, n) \/ (n = next[tail.ptr] /\ n # Null)
    BY ChainIsLine
  <2>7. \A n : n \in heap <=> n \in Chain
    BY <2>3, <2>4, <2>5, <2>6
  <2> QED BY <2>7
<1> QED BY <1>1, <1>2 DEF NodesSound, NoNodeLeaks

LEMMA SoundAlways == ASSUME Enough PROVE Spec => []Sound
<1>1. ASSUME Init PROVE Sound
  BY <1>1, InitSound DEF Sound
<1>2. ASSUME Sound, [Next]_vars PROVE Sound'
  <2>1. PICK s : Struct(s)
    BY <1>2 DEF Sound
  <2>2. CASE UNCHANGED vars
    BY <2>1, <2>2, StutterShape DEF Sound
  <2>3. CASE Next
    <3>1. PICK t \in Threads : Step(t)
      BY <2>3 DEF Next
    <3>2. PICK r : Shape(r)'
      BY <2>1, <3>1, StepShape
    <3>3. TypeOK' /\ ~fault' /\ Kinds'
      BY <2>1, <3>1, TypeKeeps
    <3>4. Struct(r)'
      BY <3>2, <3>3 DEF Struct
    <3> QED BY <3>4 DEF Sound
  <2> QED BY <1>2, <2>2, <2>3
<1> QED BY <1>1, <1>2, PTL DEF Spec

(* No call uses or deletes a node that another call has deleted, and when  *)
(* no call is in progress the nodes in memory are those of the list.       *)
THEOREM NodesStaySound == ASSUME Enough PROVE Spec => []NodesSound
<1>1. ASSUME Sound PROVE NodesSound
  BY <1>1, NodesSoundIfSound DEF Sound
<1> QED BY <1>1, SoundAlways, PTL

(* Every variable keeps to its type, and no call meets the end of another. *)
THEOREM TypeCorrect == ASSUME Enough PROVE Spec => []TypeOK
<1>1. ASSUME Sound PROVE TypeOK
  BY <1>1 DEF Sound, Struct
<1> QED BY <1>1, SoundAlways, PTL

-----------------------------------------------------------------------------
(* The values. What the proofs from here on take in addition: the data of a*)
(* new node is null.                                                       *)
NewIsNull == FreshData \subseteq {Null}

(* A push whose value is nowhere yet; the values that the head has passed, *)
(* and those that lie in a node.                                           *)
Unset(t) == pc[t] \in {"start", "count tail", "set data", "help", "help swing", "help free",
                       "help release"}
Took(v) == \E i \in DOMAIN taken : taken[i] = v
Lies(v) == \E n \in heap : data[n] = v

(* Nodes before the tail have their data, loose ones none. A push that     *)
(* goes on has seen data in the tail, and a pop takes what was there.      *)
FilledFor(t) ==
    /\ pc[t] \in {"link", "help", "swing", "help swing"} /\ old[t].ptr = tail.ptr =>
          data[tail.ptr] # Null
    /\ pc[t] = "take data" => data[old[t].ptr] # Null /\ Took(data[old[t].ptr])
Filled(s) ==
    /\ \A n \in Nodes : Loose(n) => data[n] = Null
    /\ \A n \in heap : data[n] \in Pushers \cup {Null}
    /\ \A i \in 1 .. Len(s) - 1 : data[s[i]] # Null
    /\ \A t \in Threads : FilledFor(t)

(* A value lies in one node at most, passes the head once, and then stays  *)
(* only for the pop that moved the head.                                   *)
Once ==
    /\ taken \in Seq(Pushers)
    /\ \A i, j \in DOMAIN taken : taken[i] = taken[j] => i = j
    /\ \A m, n \in heap : data[m] = data[n] /\ data[m] # Null => m = n
    /\ \A n \in heap : Took(data[n]) => \E t \in Threads : pc[t] = "take data" /\ old[t].ptr = n
    /\ \A v \in Pushers : Unset(v) => ~Took(v) /\ ~Lies(v)

(* What a pop returns is its own.                                          *)
Own(t) ==
    /\ ret[t] \in Pushers /\ Took(ret[t]) /\ ~Lies(ret[t])
    /\ \A u \in Poppers : ret[u] = ret[t] => u = t
Returning(t) == pc[t] \in {"pop free", "end"}
ReturnedBy(t) == IF Returning(t) THEN ret[t] = Empty \/ Own(t) ELSE ret[t] = Null
Returned == \A t \in Poppers : ReturnedBy(t)

Values(s) == Filled(s) /\ Once /\ Returned

(* How the calls move on.                                                  *)
LEMMA PcMoves ==
    ASSUME NEW s, Struct(s), NEW t \in Threads, Step(t)
    PROVE  /\ \A u \in Threads \ {t} : pc'[u] = pc[u] /\ old'[u] = old[u]
           /\ \A v \in Pushers : Unset(v)' => Unset(v)
           /\ pc[t] = "take data" => TakeData(t)
           /\ pc'[t] = "take data" => MoveHead(t) /\ SameHead(t)
           /\ \/ \A u \in Poppers : Returning(u)' <=> Returning(u)
              \/ TakeData(t)
              \/ ReleaseRef(t) /\ pc[t] = "give up"
<1>0. pc \in [Threads -> Pcs] /\ old \in [Threads -> CountedPtrs] /\ Kinds
  BY DEF Struct, TypeOK
<1> DEFINE Moves ==
      /\ \A u \in Threads \ {t} : pc'[u] = pc[u]
      /\ \/ pc[t] = "start" /\ pc'[t] \in {"count tail", "read tail"}
         \/ pc[t] = "count head" /\ pc'[t] = "read tail"
         \/ pc[t] = "count tail" /\ pc'[t] = "set data"
         \/ pc[t] = "set data" /\ pc'[t] \in {"link", "help"}
         \/ pc[t] = "help" /\ pc'[t] = "help swing"
         \/ pc[t] = "help swing" /\ pc'[t] \in {"help free", "help release"}
         \/ pc[t] \in {"help free", "help release"} /\ pc'[t] = "count tail"
         \/ pc[t] = "link" /\ pc'[t] = "swing"
         \/ pc[t] = "swing" /\ pc'[t] \in {"free counter", "release"}
         \/ pc[t] \in {"free counter", "release", "pop free"} /\ pc'[t] = "end"
         \/ pc[t] = "give up" /\ pc'[t] = "end" /\ ReleaseRef(t)
         \/ pc[t] = "read tail" /\ pc'[t] \in {"give up", "read next"}
         \/ pc[t] = "read next" /\ pc'[t] = "move head"
         \/ pc[t] = "move head" /\ pc'[t] = "pop release"
         \/ pc[t] = "move head" /\ pc'[t] = "take data" /\ MoveHead(t) /\ SameHead(t)
         \/ pc[t] = "pop release" /\ pc'[t] = "count head"
         \/ pc[t] = "take data" /\ pc'[t] = "pop free" /\ TakeData(t)
<1>1. ASSUME PushStart(t) PROVE Moves
  BY <1>0, <1>1 DEF PushStart, Goto
<1>2. ASSUME CountTail(t) PROVE Moves
  BY <1>0, <1>2 DEF CountTail, Goto
<1>3. ASSUME SetData(t) PROVE Moves
  BY <1>0, <1>3 DEF SetData, Goto
<1>4. ASSUME Link(t) PROVE Moves
  BY <1>0, <1>4 DEF Link, Goto
<1>5. ASSUME Help(t) PROVE Moves
  BY <1>0, <1>5 DEF Help, Goto
<1>6. ASSUME Swing(t) PROVE Moves
  BY <1>0, <1>6 DEF Swing, Goto
<1>7. ASSUME FreeExternalCounter(t) PROVE Moves
  BY <1>0, <1>7 DEF FreeExternalCounter, Goto, After
<1>8. ASSUME ReleaseRef(t) PROVE Moves
  BY <1>0, <1>8 DEF ReleaseRef, Goto, After
<1>9. ASSUME CountHead(t) PROVE Moves
  BY <1>0, <1>9 DEF CountHead, Goto
<1>10. ASSUME ReadTail(t) PROVE Moves
  BY <1>0, <1>10 DEF ReadTail, Goto
<1>11. ASSUME ReadNext(t) PROVE Moves
  BY <1>0, <1>11 DEF ReadNext, Goto
<1>12. ASSUME MoveHead(t) PROVE Moves
  BY <1>0, <1>12 DEF MoveHead, Goto
<1>13. ASSUME TakeData(t) PROVE Moves
  BY <1>0, <1>13 DEF TakeData, Goto
<1>14. Moves
  BY <1>1, <1>2, <1>3, <1>4, <1>5, <1>6, <1>7, <1>8, <1>9, <1>10, <1>11, <1>12, <1>13 DEF Step
<1>15. \A u \in Threads \ {t} : old'[u] = old[u]
  BY <1>0 DEF Step, PushStart, CountTail, SetData, Link, Help, Swing, FreeExternalCounter, ReleaseRef,
              CountHead, ReadTail, ReadNext, MoveHead, TakeData, local
<1>16. \A v \in Pushers : Unset(v)' => Unset(v)
  <2> SUFFICES ASSUME NEW v \in Pushers PROVE Unset(v)' => Unset(v)
    OBVIOUS
  <2>1. CASE v # t
    <3>1. v \in Threads
      BY DEF Threads
    <3> QED BY <1>14, <2>1, <3>1 DEF Unset
  <2>2. CASE v = t
    BY <1>14, <2>2 DEF Unset
  <2> QED BY <2>1, <2>2
<1>17. \/ \A u \in Poppers : Returning(u)' <=> Returning(u)
       \/ TakeData(t)
       \/ ReleaseRef(t) /\ pc[t] = "give up"
  <2> SUFFICES ASSUME ~TakeData(t), ~(ReleaseRef(t) /\ pc[t] = "give up"), NEW u \in Poppers
               PROVE  Returning(u)' <=> Returning(u)
    OBVIOUS
  <2>0. u \in Threads /\ pc[u] \notin {"free counter", "release"}
    BY <1>0 DEF Kinds, Threads, PopPcs
  <2>1. CASE u # t
    BY <1>14, <2>0, <2>1 DEF Returning
  <2>2. CASE u = t
    BY <1>14, <2>0, <2>2 DEF Returning
  <2> QED BY <2>1, <2>2
<1>18. pc[t] = "take data" => TakeData(t)
  BY <1>14
<1>19. pc'[t] = "take data" => MoveHead(t) /\ SameHead(t)
  BY <1>14
<1> QED BY <1>14, <1>15, <1>16, <1>17, <1>18, <1>19

(* Steps that put no value anywhere keep each value where it is, or drop it.*)
LEMMA OnceKeeps ==
    ASSUME NEW s, Struct(s), Once, NEW t \in Threads, Step(t), taken' = taken,
           \A n \in heap' : (n \in heap /\ data'[n] = data[n]) \/ data'[n] = Null,
           pc[t] = "take data" => data'[old[t].ptr] = Null
    PROVE  Once' /\ \A v \in Pushers : (Took(v)' <=> Took(v)) /\ (Lies(v)' => Lies(v))
<1>1. \A v : Took(v)' <=> Took(v)
  BY DEF Took
<1>2. \A v \in Pushers : v # Null
  BY QueueAssumption
<1>3. \A v \in Pushers : Lies(v)' => Lies(v)
  BY <1>2 DEF Lies
<1>4. ~Took(Null)
  <2>1. \A i \in DOMAIN taken : taken[i] \in Pushers
    <3>1. taken \in Seq(Pushers)
      BY DEF Once
    <3>2. DOMAIN taken = 1 .. Len(taken) /\ \A i \in 1 .. Len(taken) : taken[i] \in Pushers
      BY <3>1, ElementOfSeq, LenProperties
    <3> QED BY <3>2
  <2> QED BY <1>2, <2>1 DEF Took
<1>5. /\ \A u \in Threads \ {t} : pc'[u] = pc[u] /\ old'[u] = old[u]
      /\ \A v \in Pushers : Unset(v)' => Unset(v)
  BY PcMoves
<1>6. ASSUME NEW m \in heap', NEW n \in heap', data'[m] = data'[n], data'[m] # Null PROVE m = n
  <2>1. m \in heap /\ n \in heap /\ data[m] = data[n] /\ data[m] # Null
    BY <1>6
  <2> QED BY <2>1 DEF Once
<1>7. ASSUME NEW n \in heap', Took(data[n])'
      PROVE  \E u \in Threads : pc'[u] = "take data" /\ old'[u].ptr = n
  <2>1. Took(data'[n])
    BY <1>7 DEF Took
  <2>2. n \in heap /\ data'[n] = data[n] /\ data'[n] # Null
    BY <1>4, <2>1
  <2>3. PICK u \in Threads : pc[u] = "take data" /\ old[u].ptr = n
    BY <2>1, <2>2 DEF Once
  <2> QED BY <1>5, <2>2, <2>3
<1>8. \A v \in Pushers : Unset(v)' => ~Took(v)' /\ ~Lies(v)'
  BY <1>1, <1>3, <1>5 DEF Once
<1>9. (taken \in Seq(Pushers) /\ \A i, j \in DOMAIN taken : taken[i] = taken[j] => i = j)'
  BY DEF Once
<1> QED BY <1>1, <1>3, <1>6, <1>7, <1>8, <1>9 DEF Once

LEMMA ReturnedKeeps ==
    ASSUME Returned, ret' = ret,
           \A u \in Poppers : Returning(u)' <=> Returning(u),
           \A v \in Pushers : (Took(v) => Took(v)') /\ (Took(v) /\ Lies(v)' => Lies(v))
    PROVE  Returned'
<1> SUFFICES ASSUME NEW u \in Poppers PROVE ReturnedBy(u)'
  BY DEF Returned
<1>1. ReturnedBy(u)
  BY DEF Returned
<1>2. ASSUME Own(u) PROVE Own(u)'
  <2>1. PICK v \in Pushers : v = ret[u]
    BY <1>2 DEF Own
  <2>2. Took(v)' /\ ~Lies(v)'
    BY <1>2, <2>1 DEF Own
  <2>3. (Took(ret[u]) /\ ~Lies(ret[u]))'
    BY <2>1, <2>2 DEF Took, Lies
  <2> QED BY <1>2, <2>1, <2>3 DEF Own
<1> QED BY <1>1, <1>2 DEF ReturnedBy

(* What a step does to the data, the tail and the taken values.            *)
LEMMA DataMoves ==
    ASSUME NewIsNull, NEW s, Struct(s), NEW t \in Threads, Step(t)
    PROVE  /\ \A n \in heap : \/ data'[n] = data[n]
                              \/ SetData(t) /\ n = old[t].ptr /\ data[n] = Null /\ data'[n] = t
                              \/ TakeData(t) /\ n = old[t].ptr /\ data'[n] = Null
           /\ \A n \in heap' \ heap : data'[n] = Null
           /\ \/ taken' = taken
              \/ MoveHead(t) /\ SameHead(t) /\ taken' = Append(taken, data[head.ptr])
           /\ \/ tail'.ptr = tail.ptr
              \/ Swing(t) /\ AtOldTail(t) /\ tail'.ptr = aim[t]
<1>0. /\ data \in [Nodes -> Pushers \cup {Null, Garbage}] /\ tail \in CountedPtrs /\ heap \subseteq Nodes
      /\ FreshData \subseteq {Null}
  BY DEF Struct, TypeOK, NewIsNull
<1>1. CASE PushStart(t)
  <2>1. PICK n \in Nodes, d \in FreshData : NewNode(n, d) /\ heap' = heap \cup {n}
    BY <1>1 DEF PushStart
  <2>2. data' = [data EXCEPT ![n] = d] /\ n \notin heap /\ d = Null
    BY <1>0, <2>1 DEF NewNode
  <2>3. tail' = tail /\ taken' = taken
    BY <1>1 DEF PushStart
  <2> QED BY <1>0, <2>1, <2>2, <2>3
<1>2. CASE Help(t) /\ next[old[t].ptr] = Null
  <2>1. PICK n \in Nodes \ heap, d \in FreshData : data' = [data EXCEPT ![n] = d] /\ heap' = heap \cup {n}
    BY <1>2 DEF Help
  <2>2. tail' = tail /\ taken' = taken
    BY <1>2 DEF Help
  <2> QED BY <1>0, <2>1, <2>2
<1>3. CASE SetData(t)
  <2>1. heap' = heap /\ tail' = tail /\ taken' = taken
    BY <1>3 DEF SetData
  <2>2. CASE DataFree(t)
    <3>1. data' = [data EXCEPT ![old[t].ptr] = t] /\ data[old[t].ptr] = Null
      BY <1>3, <2>2 DEF SetData, DataFree
    <3> QED BY <1>0, <1>3, <2>1, <3>1
  <2>3. CASE ~DataFree(t)
    BY <1>3, <2>1, <2>3 DEF SetData
  <2> QED BY <2>2, <2>3
<1>4. CASE TakeData(t)
  <2>1. heap' = heap /\ tail' = tail /\ taken' = taken /\ data' = [data EXCEPT ![old[t].ptr] = Null]
    BY <1>4 DEF TakeData
  <2> QED BY <1>0, <1>4, <2>1
<1>5. CASE MoveHead(t)
  <2>1. heap' = heap /\ tail' = tail /\ data' = data
    BY <1>5 DEF MoveHead, nodes
  <2>2. taken' = taken \/ (SameHead(t) /\ taken' = Append(taken, data[head.ptr]))
    BY <1>5 DEF MoveHead, SameHead
  <2> QED BY <1>5, <2>1, <2>2
<1>6. CASE Swing(t)
  <2>1. heap' = heap /\ data' = data /\ taken' = taken
    BY <1>6 DEF Swing, nodes
  <2>2. tail' = tail \/ (AtOldTail(t) /\ tail'.ptr = aim[t])
    <3>1. tail' = tail \/ (AtOldTail(t) /\ tail' = Counted(aim[t], 1))
      BY <1>6 DEF Swing
    <3>2. Counted(aim[t], 1).ptr = aim[t]
      BY DEF Counted
    <3> QED BY <3>1, <3>2
  <2> QED BY <1>6, <2>1, <2>2
<1>7. CASE CountTail(t) \/ CountHead(t) \/ Link(t) \/ (Help(t) /\ next[old[t].ptr] # Null)
           \/ FreeExternalCounter(t) \/ ReleaseRef(t) \/ ReadTail(t) \/ ReadNext(t)
  <2>1. heap' \subseteq heap
    BY <1>7 DEF CountTail, CountHead, Link, Help, FreeExternalCounter, ReleaseRef, ReadTail, ReadNext, DeleteIfDead
  <2>2. data' = data
    BY <1>7 DEF CountTail, CountHead, Link, Help, FreeExternalCounter, ReleaseRef, ReadTail, ReadNext, nodes
  <2>3. taken' = taken
    BY <1>7 DEF CountTail, CountHead, Link, Help, FreeExternalCounter, ReleaseRef, ReadTail, ReadNext, local
  <2>4. tail'.ptr = tail.ptr
    BY <1>0, <1>7 DEF CountTail, CountHead, Link, Help, FreeExternalCounter, ReleaseRef, ReadTail, ReadNext, CountedPtrs
  <2> QED BY <2>1, <2>2, <2>3, <2>4
<1> QED BY <1>1, <1>2, <1>3, <1>4, <1>5, <1>6, <1>7 DEF Step

(* A loose node was so before, or is new.                                  *)
LEMMA LooseFrom ==
    ASSUME NEW s, Struct(s), NEW t \in Threads, Step(t), NEW n \in Nodes, Loose(n)'
    PROVE  Loose(n) \/ n \notin heap
<1>0. /\ pc \in [Threads -> Pcs] /\ new \in [Threads -> Nodes \cup {Null}] /\ tail \in CountedPtrs
      /\ next \in [Nodes -> Nodes \cup {Null}] /\ heap \subseteq Nodes /\ Kinds /\ n # Null
  BY QueueAssumption DEF Struct, TypeOK
<1>1. CASE Carried(n)'
  <2>1. PICK u \in Threads : Carries(u)' /\ new'[u] = n
    BY <1>1 DEF Carried
  <2>2. CASE u # t
    <3>1. pc'[u] = pc[u]
      BY <2>2, PcMoves
    <3>2. new'[u] = new[u]
      BY <1>0, <2>2 DEF Step, PushStart, CountTail, SetData, Link, Help, Swing, FreeExternalCounter, ReleaseRef,
              CountHead, ReadTail, ReadNext, MoveHead, TakeData, local
    <3> QED BY <2>1, <3>1, <3>2 DEF Carries, Loose, Carried
  <2>3. CASE u = t
    <3>1. CASE PushStart(t) \/ (Help(t) /\ next[old[t].ptr] = Null)
      <4>1. new'[t] \notin heap
        BY <1>0, <3>1 DEF PushStart, Help, NewNode
      <4> QED BY <2>1, <2>3, <4>1
    <3>2. CASE ~PushStart(t) /\ ~(Help(t) /\ next[old[t].ptr] = Null)
      <4>1. pc[t] \in {"count tail", "set data", "help", "help swing", "help free", "help release"}
              /\ ~Link(t) /\ ~ReadNext(t)
        <5>1. pc'[t] \in {"count tail", "set data", "link", "help", "help swing", "help free", "help release"}
          BY <2>1, <2>3 DEF Carries
        <5> QED BY <1>0, <3>2, <5>1, ZenonT(60) DEF Step, PushStart, CountTail, SetData, Link, Help, Swing,
              FreeExternalCounter, ReleaseRef, CountHead, ReadTail, ReadNext, MoveHead, TakeData, After, Goto
      <4>2. new'[t] = new[t]
        BY <1>0, <3>2, <4>1 DEF Step, CountTail, SetData, Help, Swing, FreeExternalCounter, ReleaseRef,
              CountHead, ReadTail, MoveHead, TakeData, local, nodes
      <4> QED BY <2>1, <2>3, <4>1, <4>2 DEF Carries, Loose, Carried
    <3> QED BY <3>1, <3>2
  <2> QED BY <2>2, <2>3
<1>2. CASE Linked(n)'
  <2>0. tail.ptr \in heap /\ tail.ptr \in Nodes
    BY <1>0, LineTail DEF Struct, Shape, Line, In
  <2>1. CASE PushStart(t)
    <3>1. PICK m \in Nodes : m \notin heap /\ next' = [next EXCEPT ![m] = Null] /\ tail' = tail
      BY <2>1 DEF PushStart, NewNode
    <3> QED BY <1>0, <1>2, <2>0, <3>1 DEF Linked, Loose
  <2>2. CASE Help(t) /\ next[old[t].ptr] = Null
    <3>1. PICK m \in Nodes \ heap : next' = [next EXCEPT ![old[t].ptr] = new[t], ![m] = Null] /\ tail' = tail
      BY <2>2 DEF Help
    <3>2. Carries(t)
      BY <2>2 DEF Help, Carries
    <3>3. next'[tail.ptr] = next[tail.ptr] \/ next'[tail.ptr] = new[t]
      BY <1>0, <2>0, <3>1
    <3> QED BY <1>2, <3>1, <3>2, <3>3 DEF Linked, Loose, Carried
  <2>3. CASE Link(t)
    <3>1. tail' = tail /\ (next' = next \/ next' = [next EXCEPT ![old[t].ptr] = new[t]])
      BY <2>3 DEF Link
    <3>2. Carries(t)
      BY <2>3 DEF Link, Carries
    <3>3. next'[tail.ptr] = next[tail.ptr] \/ next'[tail.ptr] = new[t]
      BY <1>0, <2>0, <3>1
    <3> QED BY <1>2, <3>1, <3>2, <3>3 DEF Linked, Loose, Carried
  <2>4. CASE Swing(t) /\ AtOldTail(t)
    <3>1. next' = next /\ tail'.ptr = aim[t]
      <4>1. next' = next /\ tail' = Counted(aim[t], 1)
        BY <2>4 DEF Swing, nodes
      <4> QED BY <4>1 DEF Counted
    <3>2. aim[t] = next[tail.ptr] /\ aim[t] # Null
      BY <2>4 DEF Swing, AtOldTail, Holding, Struct, Shape, Held, HeldBy
    <3>3. aim[t] \in Nodes /\ Linked(aim[t])
      BY <1>0, <2>0, <3>2 DEF Linked
    <3>4. next[aim[t]] = Null
      BY <3>3 DEF Struct, Shape, LooseNew, Loose
    <3> QED BY <1>0, <1>2, <3>1, <3>4 DEF Linked
  <2>5. CASE ~PushStart(t) /\ ~(Help(t) /\ next[old[t].ptr] = Null) /\ ~Link(t) /\ ~(Swing(t) /\ AtOldTail(t))
    <3>1. next' = next
      BY <2>5 DEF Step, CountTail, SetData, Help, Swing, FreeExternalCounter, ReleaseRef,
              CountHead, ReadTail, ReadNext, MoveHead, TakeData, nodes
    <3>2. tail'.ptr = tail.ptr
      BY <1>0, <2>5 DEF Step, CountTail, SetData, Help, Swing, FreeExternalCounter, ReleaseRef,
              CountHead, ReadTail, ReadNext, MoveHead, TakeData, CountedPtrs
    <3> QED BY <1>2, <3>1, <3>2 DEF Linked, Loose
  <2> QED BY <2>1, <2>2, <2>3, <2>4, <2>5
<1> QED BY <1>1, <1>2 DEF Loose


LEMMA TakenGrows ==
    ASSUME NewIsNull, NEW s, Struct(s), taken \in Seq(Pushers), NEW t \in Threads, Step(t)
    PROVE  \A v : Took(v) => Took(v)'
<1>1. CASE taken' = taken
  BY <1>1 DEF Took
<1>2. CASE taken' = Append(taken, data[head.ptr])
  <2>1. \A i \in DOMAIN taken : i \in DOMAIN taken' /\ taken'[i] = taken[i]
    BY <1>2
  <2> QED BY <2>1 DEF Took
<1> QED BY <1>1, <1>2, DataMoves

LEMMA FilledKeeps ==
    ASSUME Enough, NewIsNull, NEW s, Struct(s), Values(s), NEW t \in Threads, Step(t)
    PROVE  \E r : Shape(r)' /\ Filled(r)'
<1>0. /\ heap \subseteq Nodes /\ pc \in [Threads -> Pcs] /\ Filled(s) /\ Once
      /\ Line(s) /\ In(s, tail.ptr) /\ tail.ptr \in heap
      /\ Len(s) \in Nat \ {0} /\ DOMAIN s = 1 .. Len(s) /\ s \in Seq(Nodes)
  BY LineTail DEF Struct, TypeOK, Values, Shape, Line, In
<1>1. PICK r : /\ Shape(r)'
               /\ \/ r = s
                  \/ Swing(t) /\ AtOldTail(t) /\ r = Append(s, tail'.ptr)
                  \/ MoveHead(t) /\ SameHead(t) /\ r = Tail(s)
  BY StepShape
<1>2. /\ \A n \in heap : \/ data'[n] = data[n]
                         \/ SetData(t) /\ n = old[t].ptr /\ data[n] = Null /\ data'[n] = t
                         \/ TakeData(t) /\ n = old[t].ptr /\ data'[n] = Null
      /\ \A n \in heap' \ heap : data'[n] = Null
      /\ \/ tail'.ptr = tail.ptr
         \/ Swing(t) /\ AtOldTail(t) /\ tail'.ptr = aim[t]
  BY DataMoves
<1>3. /\ SetData(t) => t \in Pushers /\ t # Null /\ ~Loose(old[t].ptr)
      /\ TakeData(t) => ~In(s, old[t].ptr)
      /\ \A n : Took(n) => Took(n)'
  <2>1. SetData(t) => t \in Pushers /\ t # Null /\ ~Loose(old[t].ptr)
    <3> SUFFICES ASSUME SetData(t) PROVE t \in Pushers /\ t # Null /\ ~Loose(old[t].ptr)
      OBVIOUS
    <3>1. pc[t] = "set data" /\ Holding(t)
      BY DEF SetData, Holding
    <3>2. t \in Pushers
      BY <3>1 DEF Struct, Kinds, PopPcs, Threads
    <3> QED BY <3>1, <3>2, HeldNode, QueueAssumption
  <2>2. TakeData(t) => ~In(s, old[t].ptr)
    BY DEF TakeData, LeavesHead, Struct, Shape, Left
  <2> QED BY <1>0, <2>1, <2>2, TakenGrows DEF Once
<1>4. \A n \in Nodes : Loose(n)' => data'[n] = Null
  <2> SUFFICES ASSUME NEW n \in Nodes, Loose(n)' PROVE data'[n] = Null
    OBVIOUS
  <2>1. CASE Loose(n)
    <3>1. data[n] = Null /\ n \in heap
      BY <1>0, <2>1 DEF Filled, Struct, Shape, LooseNew
    <3> QED BY <1>2, <1>3, <2>1, <3>1
  <2>2. CASE n \notin heap
    <3>1. n \in heap'
      BY <1>1 DEF Shape, LooseNew
    <3> QED BY <1>2, <2>2, <3>1
  <2> QED BY <2>1, <2>2, LooseFrom
<1>5. \A n \in heap' : data'[n] \in Pushers \cup {Null}
  BY <1>0, <1>2, <1>3 DEF Filled
<1>6. \A n \in heap : In(s, n) /\ data[n] # Null => data'[n] # Null
  BY <1>2, <1>3
<1>7. \A i \in 1 .. Len(s) - 1 : data'[s[i]] # Null
  <2> SUFFICES ASSUME NEW i \in 1 .. Len(s) - 1 PROVE data'[s[i]] # Null
    OBVIOUS
  <2>1. i \in DOMAIN s
    BY <1>0
  <2>2. s[i] \in heap /\ In(s, s[i])
    BY <1>0, <2>1 DEF Line, In
  <2> QED BY <1>0, <1>6, <2>2 DEF Filled
<1>8. \A i \in 1 .. Len(r) - 1 : data'[r[i]] # Null
  <2>1. CASE r = s
    BY <1>7, <2>1
  <2>2. CASE Swing(t) /\ AtOldTail(t) /\ r = Append(s, tail'.ptr)
    <3>1. data'[tail.ptr] # Null
      <4>1. data[tail.ptr] # Null
        BY <1>0, <2>2 DEF Swing, AtOldTail, Filled, FilledFor
      <4> QED BY <1>0, <1>6, <4>1
    <3>2. s[Len(s)] = tail.ptr
      BY <1>0 DEF Line
    <3>3. \A i \in 1 .. Len(r) - 1 : i \in 1 .. Len(s) /\ r[i] = s[i] /\ (i = Len(s) \/ i \in 1 .. Len(s) - 1)
      <4>1. r \in Seq(Nodes) /\ r # <<>> /\ r[Len(r)] = tail'.ptr
        BY <1>1 DEF Shape, Line
      <4>2. tail'.ptr \in Nodes
        BY <4>1, LenProperties, ElementOfSeq
      <4>3. Len(r) = Len(s) + 1 /\ \A i \in 1 .. Len(s) : r[i] = s[i]
        BY <1>0, <2>2, <4>2, AppendProperties
      <4>4. Len(r) - 1 = Len(s) /\ Len(s) \in Nat
        BY <1>0, <4>3
      <4>5. \A i \in 1 .. Len(s) : i = Len(s) \/ i \in 1 .. Len(s) - 1
        BY <4>4
      <4> QED BY <4>3, <4>4, <4>5
    <3> QED BY <1>7, <3>1, <3>2, <3>3
  <2>3. CASE MoveHead(t) /\ SameHead(t) /\ r = Tail(s)
    <3>1. s # <<>>
      BY <1>0 DEF Line
    <3>2. \A i \in 1 .. Len(r) - 1 : i + 1 \in 1 .. Len(s) - 1 /\ r[i] = s[i + 1]
      BY <1>0, <2>3, <3>1
    <3> QED BY <1>7, <3>2
  <2> QED BY <1>1, <2>1, <2>2, <2>3
<1>9. ASSUME NEW u \in Threads PROVE FilledFor(u)'
  <2>0. FilledFor(u)
    BY <1>0 DEF Filled
  <2>1. ASSUME pc'[u] \in {"link", "help", "swing", "help swing"}, old'[u].ptr = tail'.ptr
        PROVE  data'[tail'.ptr] # Null
    <3>1. CASE tail'.ptr = tail.ptr
      <4>1. CASE u # t \/ pc[u] \in {"link", "help", "swing", "help swing"}
        <5>1. pc[u] \in {"link", "help", "swing", "help swing"} /\ old[u].ptr = old'[u].ptr
          <6>1. CASE u # t
            BY <2>1, <6>1, PcMoves
          <6>2. CASE u = t /\ pc[t] \in {"link", "help", "swing", "help swing"}
            <7>1. old'[t] = old[t] \/ (Swing(t) /\ AtOldTail(t) /\ old' = [old EXCEPT ![t] = tail])
              BY <6>2 DEF Step, PushStart, CountTail, SetData, Link, Help, Swing, FreeExternalCounter,
                ReleaseRef, CountHead, ReadTail, ReadNext, MoveHead, TakeData, local
            <7>2. old[t].ptr = old'[t].ptr
              BY <7>1 DEF AtOldTail, Struct, TypeOK
            <7> QED BY <6>2, <7>2
          <6> QED BY <4>1, <6>1, <6>2
        <5>2. data[tail.ptr] # Null
          BY <2>0, <2>1, <3>1, <5>1 DEF FilledFor
        <5> QED BY <1>0, <1>6, <3>1, <5>2
      <4>2. CASE u = t /\ pc[t] \notin {"link", "help", "swing", "help swing"}
        <5>1. SetData(t) /\ old' = old
          BY <1>0, <2>1, <4>2 DEF Step, PushStart, CountTail, SetData, Link, Help, Swing, FreeExternalCounter,
                ReleaseRef, CountHead, ReadTail, ReadNext, MoveHead, TakeData, local, Goto, After
        <5>2. old[t].ptr = tail.ptr
          BY <2>1, <3>1, <4>2, <5>1
        <5>3. data'[old[t].ptr] # Null
          <6>1. data \in [Nodes -> Pushers \cup {Null, Garbage}]
            BY DEF Struct, TypeOK
          <6> QED BY <1>0, <1>3, <5>1, <5>2, <6>1 DEF SetData, DataFree
        <5> QED BY <3>1, <5>2, <5>3
      <4> QED BY <4>1, <4>2
    <3>2. CASE Swing(t) /\ AtOldTail(t) /\ tail'.ptr = aim[t]
      <4>1. aim[t] = next[tail.ptr] /\ aim[t] # Null
        BY <3>2 DEF Swing, AtOldTail, Holding, Struct, Shape, Held, HeldBy
      <4>2. aim[t] \in Nodes /\ Loose(aim[t])
        BY <1>0, <4>1 DEF Struct, TypeOK, Loose, Linked
      <4>3. Holding(u) /\ old[u].ptr = old'[u].ptr
        <5>1. CASE u # t
          BY <2>1, <5>1, PcMoves DEF Holding
        <5>2. CASE u = t
          <6>1. old' = [old EXCEPT ![t] = tail] /\ Holding(t) /\ old[t].ptr = tail.ptr
            BY <3>2 DEF Swing, AtOldTail, Holding
          <6> QED BY <5>2, <6>1 DEF Struct, TypeOK
        <5> QED BY <5>1, <5>2
      <4>4. ~Loose(old[u].ptr)
        BY <4>3, HeldNode
      <4> QED BY <2>1, <3>2, <4>2, <4>3, <4>4
    <3> QED BY <1>2, <3>1, <3>2
  <2>2. ASSUME pc'[u] = "take data" PROVE data'[old'[u].ptr] # Null /\ Took(data[old[u].ptr])'
    <3>1. CASE u = t
      <4>1. MoveHead(t) /\ SameHead(t)
        BY <2>2, <3>1, PcMoves
      <4>2. data' = data /\ old' = old /\ old[t] = head
        BY <4>1 DEF MoveHead, SameHead, nodes, local
      <4>3. s[1] = head.ptr /\ 1 \in 1 .. Len(s) - 1
        BY <1>0, <4>1, <4>2, MoveHeadShape
      <4>4. data[head.ptr] # Null
        BY <1>0, <4>3 DEF Filled
      <4>5. taken' = Append(taken, data[head.ptr]) /\ taken \in Seq(Pushers)
        BY <1>0, <4>1, <4>2 DEF MoveHead, Once
      <4>6. taken'[Len(taken) + 1] = data[head.ptr] /\ Len(taken) + 1 \in DOMAIN taken'
        BY <4>5
      <4> QED BY <3>1, <4>2, <4>4, <4>6 DEF Took
    <3>2. CASE u # t
      <4>1. pc[u] = "take data" /\ old'[u] = old[u]
        BY <2>2, <3>2, PcMoves
      <4>2. data[old[u].ptr] # Null /\ Took(data[old[u].ptr]) /\ old[u].ptr \in heap
        BY <2>0, <4>1, HeldNode DEF FilledFor, Holding
      <4>3. ~(TakeData(t) /\ old[u].ptr = old[t].ptr)
        BY <3>2, <4>1 DEF TakeData, LeavesHead, Struct, Shape, Left
      <4>4. data'[old[u].ptr] = data[old[u].ptr]
        BY <1>2, <4>2, <4>3
      <4>5. PICK v : v = data[old[u].ptr]
        OBVIOUS
      <4>6. Took(v)'
        BY <1>3, <4>2, <4>5
      <4> QED BY <4>1, <4>2, <4>4, <4>5, <4>6 DEF Took
    <3> QED BY <3>1, <3>2
  <2> QED BY <2>1, <2>2 DEF FilledFor
<1> QED BY <1>1, <1>4, <1>5, <1>8, <1>9 DEF Filled


LEMMA OnceMoves ==
    ASSUME Enough, NewIsNull, NEW s, Struct(s), Values(s), NEW t \in Threads, Step(t)
    PROVE  Once'
<1>0. Filled(s) /\ Once
  BY DEF Values
<1>1. /\ \A n \in heap : \/ data'[n] = data[n]
                         \/ SetData(t) /\ n = old[t].ptr /\ data[n] = Null /\ data'[n] = t
                         \/ TakeData(t) /\ n = old[t].ptr /\ data'[n] = Null
      /\ \A n \in heap' \ heap : data'[n] = Null
      /\ \/ taken' = taken
         \/ MoveHead(t) /\ SameHead(t) /\ taken' = Append(taken, data[head.ptr])
  BY DataMoves
<1>2. /\ \A u \in Threads \ {t} : pc'[u] = pc[u] /\ old'[u] = old[u]
      /\ \A v \in Pushers : Unset(v)' => Unset(v)
      /\ pc[t] = "take data" => TakeData(t)
  BY PcMoves
<1>3. CASE SetData(t)
  <2>1. pc[t] = "set data" /\ heap' = heap /\ taken' = taken
    BY <1>3 DEF SetData
  <2>2. t \in Pushers /\ Unset(t) /\ t # Null
    BY <2>1, QueueAssumption DEF Unset, Struct, Kinds, PopPcs, Threads
  <2>3. ~Took(t) /\ ~Lies(t)
    BY <1>0, <2>2 DEF Once
  <2>4. \A v : Took(v)' <=> Took(v)
    BY <2>1 DEF Took
  <2>5. \A n \in heap : data'[n] = data[n] \/ (n = old[t].ptr /\ data[n] = Null /\ data'[n] = t)
    <3>1. ~TakeData(t)
      BY <2>1 DEF TakeData
    <3> QED BY <1>1, <3>1
  <2>6. \A v \in Pushers : Lies(v)' => Lies(v) \/ (v = t /\ ~Unset(t)')
    <3> SUFFICES ASSUME NEW v \in Pushers, Lies(v)', ~Lies(v) PROVE v = t /\ ~Unset(t)'
      OBVIOUS
    <3>1. PICK n \in heap : data'[n] = v
      BY <2>1 DEF Lies
    <3>2. data[n] # v
      BY <3>1 DEF Lies
    <3>3. n = old[t].ptr /\ data[n] = Null /\ v = t
      BY <2>5, <3>1, <3>2
    <3>4. pc'[t] = "link"
      BY <1>3, <3>3 DEF SetData, DataFree, Goto, Struct, TypeOK
    <3> QED BY <3>3, <3>4 DEF Unset
  <2>7. ASSUME NEW m \in heap, NEW n \in heap, data'[m] = data'[n], data'[m] # Null PROVE m = n
    <3>1. data[m] # t /\ data[n] # t
      BY <2>3 DEF Lies
    <3>2. CASE data'[m] = t
      BY <2>5, <2>7, <3>1, <3>2
    <3>3. CASE data'[m] # t
      BY <1>0, <2>5, <2>7, <3>3, ZenonT(60) DEF Once
    <3> QED BY <3>2, <3>3
  <2>8. ASSUME NEW n \in heap, Took(data[n])' PROVE \E u \in Threads : pc'[u] = "take data" /\ old'[u].ptr = n
    <3>1. Took(data'[n])
      BY <2>1, <2>8 DEF Took
    <3>2. data'[n] = data[n]
      BY <2>3, <2>5, <3>1
    <3>3. PICK u \in Threads : pc[u] = "take data" /\ old[u].ptr = n
      BY <1>0, <3>1, <3>2 DEF Once
    <3> QED BY <1>2, <2>1, <3>3
  <2>9. \A v \in Pushers : Unset(v)' => ~Took(v)' /\ ~Lies(v)'
    BY <1>0, <1>2, <2>4, <2>6 DEF Once
  <2>10. (taken \in Seq(Pushers) /\ \A i, j \in DOMAIN taken : taken[i] = taken[j] => i = j)'
    BY <1>0, <2>1 DEF Once
  <2> QED BY <2>1, <2>7, <2>8, <2>9, <2>10, ZenonT(60) DEF Once
<1>4. CASE MoveHead(t) /\ SameHead(t)
  <2>1. UNCHANGED <<heap, data, old>> /\ pc'[t] = "take data" /\ pc[t] = "move head" /\ old[t] = head
    BY <1>4 DEF MoveHead, SameHead, Goto, nodes, local, Struct, TypeOK
  <2>2. PICK v : v = data[head.ptr]
    OBVIOUS
  <2>3. s[1] = head.ptr /\ Len(s) >= 2 /\ Len(s) \in Nat /\ In(s, head.ptr)
    BY <1>4, <2>1, MoveHeadShape, LineTail DEF Struct, Shape
  <2>4. head.ptr \in heap /\ v \in Pushers
    <3>1. 1 \in 1 .. Len(s) - 1
      BY <2>3
    <3>2. data[s[1]] # Null
      BY <1>0, <3>1 DEF Filled
    <3>3. head.ptr \in heap
      BY <2>3 DEF Struct, Shape, Line, In
    <3> QED BY <1>0, <2>2, <2>3, <3>2, <3>3 DEF Filled
  <2>5. ~Took(v)
    <3> SUFFICES ASSUME Took(v) PROVE FALSE
      OBVIOUS
    <3>1. PICK u \in Threads : pc[u] = "take data" /\ old[u].ptr = head.ptr
      BY <1>0, <2>2, <2>4 DEF Once
    <3> QED BY <2>3, <3>1 DEF LeavesHead, Struct, Shape, Left
  <2>6. taken' = Append(taken, v) /\ taken \in Seq(Pushers)
    BY <1>0, <1>4, <2>1, <2>2 DEF MoveHead, Once
  <2>7. /\ taken' \in Seq(Pushers) /\ Len(taken') = Len(taken) + 1 /\ Len(taken) \in Nat
        /\ taken'[Len(taken) + 1] = v /\ \A i \in 1 .. Len(taken) : taken'[i] = taken[i]
        /\ DOMAIN taken = 1 .. Len(taken) /\ DOMAIN taken' = 1 .. Len(taken) + 1
    BY <2>4, <2>6, AppendProperties, LenProperties
  <2>8. \A w : Took(w)' <=> Took(w) \/ w = v
    <3>1. \A i \in DOMAIN taken' : i \in DOMAIN taken \/ i = Len(taken) + 1
      BY <2>7
    <3>2. \A i \in DOMAIN taken : i \in DOMAIN taken' /\ taken'[i] = taken[i]
      BY <2>7
    <3>3. Len(taken) + 1 \in DOMAIN taken' /\ taken'[Len(taken) + 1] = v
      BY <2>7
    <3> QED BY <3>1, <3>2, <3>3 DEF Took
  <2>9. \A i, j \in DOMAIN taken' : taken'[i] = taken'[j] => i = j
    <3>1. \A i \in DOMAIN taken' : i \in DOMAIN taken \/ i = Len(taken) + 1
      BY <2>7
    <3>2. \A i \in DOMAIN taken : taken'[i] = taken[i] /\ taken[i] # v
      BY <2>5, <2>7 DEF Took
    <3> QED BY <1>0, <2>7, <3>1, <3>2 DEF Once
  <2>10. ASSUME NEW n \in heap, Took(data[n])' PROVE \E u \in Threads : pc'[u] = "take data" /\ old'[u].ptr = n
    <3>0. Took(data[n]) \/ data[n] = v
      <4>1. PICK w : w = data[n]
        OBVIOUS
      <4>2. Took(w)'
        BY <2>1, <2>10, <4>1 DEF Took
      <4> QED BY <2>8, <4>1, <4>2
    <3>1. CASE data[n] = v
      <4>1. n = head.ptr
        <5>1. data[head.ptr] = data[n] /\ data[n] # Null
          BY <2>2, <2>4, <3>1, QueueAssumption
        <5> QED BY <1>0, <2>4, <5>1 DEF Once
      <4> QED BY <2>1, <4>1
    <3>2. CASE Took(data[n])
      <4>1. PICK u \in Threads : pc[u] = "take data" /\ old[u].ptr = n
        BY <1>0, <3>2 DEF Once
      <4> QED BY <1>2, <2>1, <4>1
    <3> QED BY <3>0, <3>1, <3>2
  <2>11. \A w \in Pushers : Unset(w)' => ~Took(w)' /\ ~Lies(w)'
    <3>1. \A w : Lies(w)' <=> Lies(w)
      BY <2>1 DEF Lies
    <3>2. Lies(v)
      BY <2>2, <2>4 DEF Lies
    <3> QED BY <1>0, <1>2, <2>8, <3>1, <3>2 DEF Once
  <2>12. \A m, n \in heap' : data'[m] = data'[n] /\ data'[m] # Null => m = n
    BY <1>0, <2>1 DEF Once
  <2> QED BY <2>7, <2>9, <2>10, <2>11, <2>12, <2>1 DEF Once
<1>5. CASE ~SetData(t) /\ ~(MoveHead(t) /\ SameHead(t))
  <2>1. \A n \in heap' : (n \in heap /\ data'[n] = data[n]) \/ data'[n] = Null
    BY <1>1, <1>5
  <2>2. pc[t] = "take data" => data'[old[t].ptr] = Null
    <3> SUFFICES ASSUME pc[t] = "take data" PROVE data'[old[t].ptr] = Null
      OBVIOUS
    <3>1. TakeData(t) /\ old[t].ptr \in Nodes
      BY <1>2, HeldNode DEF Holding
    <3> QED BY <3>1 DEF TakeData, Struct, TypeOK
  <2> QED BY <1>0, <1>1, <1>5, <2>1, <2>2, OnceKeeps
<1> QED BY <1>3, <1>4, <1>5


LEMMA ReturnedMoves ==
    ASSUME Enough, NewIsNull, NEW s, Struct(s), Values(s), NEW t \in Threads, Step(t)
    PROVE  Returned'
<1>0. Filled(s) /\ Once /\ Returned
  BY DEF Values
<1>1. /\ \A n \in heap : \/ data'[n] = data[n]
                         \/ SetData(t) /\ n = old[t].ptr /\ data[n] = Null /\ data'[n] = t
                         \/ TakeData(t) /\ n = old[t].ptr /\ data'[n] = Null
      /\ \A n \in heap' \ heap : data'[n] = Null
  BY DataMoves
<1>2. \A v : Took(v) => Took(v)'
  BY <1>0, TakenGrows DEF Once
<1>3. \A v \in Pushers : Took(v) /\ Lies(v)' => Lies(v)
  <2> SUFFICES ASSUME NEW v \in Pushers, Took(v), Lies(v)' PROVE Lies(v)
    OBVIOUS
  <2>1. PICK n \in heap' : data'[n] = v
    BY DEF Lies
  <2>2. v # Null
    BY QueueAssumption
  <2>3. n \in heap
    BY <1>1, <2>1, <2>2
  <2>4. ASSUME SetData(t) PROVE v # t
    <3>1. Unset(t)
      BY <2>4 DEF SetData, Unset
    <3> QED BY <1>0, <3>1 DEF Once
  <2>5. data'[n] = data[n]
    BY <1>1, <2>1, <2>2, <2>3, <2>4
  <2> QED BY <2>1, <2>3, <2>5 DEF Lies
<1>4. \A u \in Poppers \ {t} : ReturnedBy(u) /\ (Returning(u)' <=> Returning(u))
  <2> SUFFICES ASSUME NEW u \in Poppers \ {t} PROVE Returning(u)' <=> Returning(u)
    BY <1>0 DEF Returned
  <2>1. u \in Threads
    BY DEF Threads
  <2> QED BY <2>1, PcMoves DEF Returning
<1>5. ASSUME ~TakeData(t), ~(ReleaseRef(t) /\ pc[t] = "give up") PROVE Returned'
  <2>1. ret' = ret
    BY <1>5 DEF Step, PushStart, CountTail, SetData, Link, Help, Swing, FreeExternalCounter, ReleaseRef,
              CountHead, ReadTail, ReadNext, MoveHead, local
  <2>2. \A u \in Poppers : Returning(u)' <=> Returning(u)
    BY <1>5, PcMoves
  <2> QED BY <1>0, <1>2, <1>3, <2>1, <2>2, ReturnedKeeps
<1>6. ASSUME NEW u \in Poppers \ {t}, Own(u), ret'[u] = ret[u],
             \A w \in Poppers \ {t} : ret'[w] = ret[w],
             t \in Poppers => ret'[t] # ret[u]
      PROVE  Own(u)'
  <2>1. PICK v \in Pushers : v = ret[u]
    BY <1>6 DEF Own
  <2>2. Took(v)' /\ ~Lies(v)'
    BY <1>2, <1>3, <1>6, <2>1 DEF Own
  <2>3. (Took(ret[u]) /\ ~Lies(ret[u]))'
    BY <1>6, <2>1, <2>2 DEF Took, Lies
  <2> QED BY <1>6, <2>1, <2>3 DEF Own
<1>7. ret \in [Poppers -> Pushers \cup {Null, Garbage, Empty}] /\ pc \in [Threads -> Pcs]
      /\ data \in [Nodes -> Pushers \cup {Null, Garbage}] /\ heap \subseteq Nodes
  BY DEF Struct, TypeOK
<1>8. CASE ReleaseRef(t) /\ pc[t] = "give up"
  <2>1. t \in Poppers /\ ret' = [ret EXCEPT ![t] = Empty] /\ pc'[t] = "end"
    BY <1>7, <1>8 DEF ReleaseRef, Struct, Kinds, PushPcs, Threads, Goto, After
  <2> SUFFICES ASSUME NEW u \in Poppers PROVE ReturnedBy(u)'
    BY DEF Returned
  <2>2. CASE u = t
    <3>1. ret'[t] = Empty
      BY <1>7, <2>1
    <3>2. Returning(t)'
      BY <2>1 DEF Returning
    <3> QED BY <2>2, <3>1, <3>2 DEF ReturnedBy
  <2>3. CASE u # t
    <3>1. ret'[u] = ret[u] /\ (\A w \in Poppers \ {t} : ret'[w] = ret[w]) /\ ret'[t] = Empty
      BY <1>7, <2>1, <2>3
    <3>2. ReturnedBy(u) /\ (Returning(u)' <=> Returning(u))
      BY <1>4, <2>3
    <3>3. ret[u] # Empty /\ Own(u) => Own(u)'
      BY <1>6, <2>3, <3>1
    <3> QED BY <3>1, <3>2, <3>3 DEF ReturnedBy
  <2> QED BY <2>2, <2>3
<1>9. CASE TakeData(t)
  <2>1. /\ pc[t] = "take data" /\ pc'[t] = "pop free" /\ heap' = heap /\ taken' = taken
        /\ ret' = [ret EXCEPT ![t] = data[old[t].ptr]] /\ data' = [data EXCEPT ![old[t].ptr] = Null]
    BY <1>7, <1>9 DEF TakeData, Goto
  <2>2. t \in Poppers
    BY <2>1 DEF Struct, Kinds, PushPcs, Threads
  <2>3. PICK v : v = data[old[t].ptr]
    OBVIOUS
  <2>4. old[t].ptr \in heap /\ v \in Pushers /\ Took(v) /\ v # Null
    <3>1. old[t].ptr \in heap
      BY <2>1, HeldNode DEF Holding
    <3>2. data[old[t].ptr] # Null /\ Took(data[old[t].ptr])
      BY <1>0, <2>1 DEF Filled, FilledFor
    <3> QED BY <1>0, <2>3, <3>1, <3>2 DEF Filled
  <2>5. Lies(v)
    BY <2>3, <2>4 DEF Lies
  <2>6. \A u \in Poppers \ {t} : ret[u] = v => ret[u] = Empty
    BY <1>4, <2>4, <2>5 DEF ReturnedBy, Own
  <2>7. ~Lies(v)'
    <3>1. \A n \in heap : data[n] = v => n = old[t].ptr
      BY <1>0, <2>3, <2>4 DEF Once
    <3>2. \A n \in heap : data'[n] # v
      BY <1>7, <2>1, <2>4, <3>1
    <3> QED BY <2>1, <3>2 DEF Lies
  <2>8. ret'[t] = v /\ \A w \in Poppers \ {t} : ret'[w] = ret[w]
    BY <1>7, <2>1, <2>2, <2>3
  <2> SUFFICES ASSUME NEW u \in Poppers PROVE ReturnedBy(u)'
    BY DEF Returned
  <2>9. CASE u = t
    <3>1. Took(v)'
      BY <1>2, <2>4
    <3>2. (Took(ret[t]) /\ ~Lies(ret[t]))'
      BY <2>7, <2>8, <3>1 DEF Took, Lies
    <3>3. v # Empty => \A w \in Poppers : ret'[w] = ret'[t] => w = t
      BY <2>6, <2>8
    <3> QED BY <2>1, <2>4, <2>8, <2>9, <3>2, <3>3 DEF ReturnedBy, Own, Returning
  <2>10. CASE u # t
    <3>1. ReturnedBy(u) /\ (Returning(u)' <=> Returning(u)) /\ ret'[u] = ret[u]
      BY <1>4, <2>8, <2>10
    <3>2. ret[u] # Empty /\ Own(u) => Own(u)'
      <4>1. ret[u] # Empty => ret'[t] # ret[u]
        BY <2>6, <2>8, <2>10
      <4> QED BY <1>6, <2>8, <2>10, <3>1, <4>1
    <3> QED BY <3>1, <3>2 DEF ReturnedBy
  <2> QED BY <2>9, <2>10
<1> QED BY <1>5, <1>8, <1>9


LEMMA InitValues ==
    ASSUME Enough, NewIsNull, Init, NEW s, s = <<head.ptr>> PROVE Values(s)
<1>0. QueueAssumption
  BY QueueAssumption
<1>1. PICK n \in Nodes, x \in FreshData :
        /\ heap = {n} /\ data = [m \in Nodes |-> IF m = n THEN x ELSE Null]
        /\ pc = [t \in Threads |-> "start"] /\ ret = [t \in Poppers |-> Null]
        /\ taken = <<>>
  BY DEF Init
<1>2. x = Null
  BY DEF NewIsNull
<1>3. \A m \in Nodes : data[m] = Null
  BY <1>1, <1>2
<1>4. Len(s) - 1 = 0
  OBVIOUS
<1>5. \A t \in Threads : pc[t] = "start"
  BY <1>1
<1>6. Filled(s)
  <2>1. \A t \in Threads : FilledFor(t)
    BY <1>5 DEF FilledFor
  <2>2. \A i \in 1 .. Len(s) - 1 : FALSE
    BY <1>4
  <2> QED BY <1>1, <1>3, <2>1, <2>2 DEF Filled
<1>7. \A v : ~Took(v)
  BY <1>1 DEF Took
<1>8. \A v \in Pushers : ~Lies(v)
  BY <1>0, <1>1, <1>3 DEF Lies, QueueAssumption
<1>9. Once
  <2>1. taken \in Seq(Pushers) /\ \A i, j \in DOMAIN taken : taken[i] = taken[j] => i = j
    BY <1>1
  <2> QED BY <1>1, <1>7, <1>8, <2>1 DEF Once
<1>10. Returned
  <2>1. Poppers \subseteq Threads
    BY DEF Threads
  <2> QED BY <1>1, <1>5, <2>1 DEF Returned, ReturnedBy, Returning
<1> QED BY <1>6, <1>9, <1>10 DEF Values

LEMMA StutterValues ==
    ASSUME NEW s, Struct(s), Values(s), UNCHANGED vars PROVE Values(s)'
<1>0. UNCHANGED <<heap, data, next, inner, outer, head, tail, pc, old, new, aim, ret, taken, fault>>
  BY DEF vars, nodes, local
<1>1. \A n : Loose(n)' <=> Loose(n)
  BY <1>0 DEF Loose, Carried, Linked, Carries
<1>2. \A v : (Took(v)' <=> Took(v)) /\ (Lies(v)' <=> Lies(v))
  BY <1>0 DEF Took, Lies
<1>3. Filled(s)'
  <2>1. ASSUME NEW u \in Threads PROVE FilledFor(u)'
    BY <1>0 DEF Values, Filled, FilledFor, Took
  <2> QED BY <1>0, <1>1, <2>1 DEF Values, Filled
<1>4. Once'
  BY <1>0 DEF Values, Once, Took, Lies, Unset
<1>5. Returned'
  BY <1>0 DEF Values, Returned, ReturnedBy, Returning, Own, Took, Lies
<1> QED BY <1>3, <1>4, <1>5 DEF Values

Filling == \E s : Struct(s) /\ Values(s)

LEMMA FillingAlways == ASSUME Enough, NewIsNull PROVE Spec => []Filling
<1>1. ASSUME Init PROVE Filling
  BY <1>1, InitSound, InitValues DEF Filling
<1>2. ASSUME Filling, [Next]_vars PROVE Filling'
  <2>1. PICK s : Struct(s) /\ Values(s)
    BY <1>2 DEF Filling
  <2>2. CASE UNCHANGED vars
    BY <2>1, <2>2, StutterShape, StutterValues DEF Filling
  <2>3. CASE Next
    <3>1. PICK t \in Threads : Step(t)
      BY <2>3 DEF Next
    <3>2. PICK r : Shape(r)' /\ Filled(r)'
      BY <2>1, <3>1, FilledKeeps
    <3>3. Struct(r)'
      BY <2>1, <3>1, <3>2, TypeKeeps DEF Struct
    <3>4. Values(r)'
      BY <2>1, <3>1, <3>2, OnceMoves, ReturnedMoves DEF Values
    <3> QED BY <3>3, <3>4 DEF Filling
  <2> QED BY <1>2, <2>2, <2>3
<1> QED BY <1>1, <1>2, PTL DEF Spec

(* A pop returns nothing or a value that was at the front when it moved the*)
(* head, and no two pops return the same one.                              *)
THEOREM PopsReturnWhatTheyTook ==
    ASSUME Enough, NewIsNull PROVE Spec => []PopsReturnTaken
<1>1. ASSUME Filling PROVE PopsReturnTaken
  <2>1. \A t \in Poppers : ReturnedBy(t)
    BY <1>1 DEF Filling, Values, Returned
  <2> QED BY <2>1 DEF PopsReturnTaken, ReturnedBy, Returning, Own, Took
<1> QED BY <1>1, FillingAlways, PTL

-----------------------------------------------------------------------------
(* The values in the list are a FIFO queue. They are the data of the line's*)
(* nodes but the last: the tail takes effect as Add, the head as Remove,   *)
(* and every other step leaves them as they are.                           *)
DataOf(s) == [i \in 1 .. Len(s) - 1 |-> data[s[i]]]
StoredIsData == \A s : Struct(s) => Stored = DataOf(s)

LEMMA StoredData == ASSUME Enough PROVE StoredIsData
<1> SUFFICES ASSUME NEW s, Struct(s) PROVE Stored = DataOf(s)
  BY DEF StoredIsData
<1>1. PICK N : N = Cardinality(Nodes)
  OBVIOUS
<1>2. PICK k \in Nat \ {0} : k = Len(s)
  BY LineTail DEF Struct, Shape
<1>3. /\ N \in Nat /\ k <= N /\ DOMAIN s = 1 .. k /\ s[k] = tail.ptr /\ tail.ptr \in Nodes
      /\ \A i \in 1 .. k : s[i] = tail.ptr => i = k
  <2>1. Line(s)
    BY DEF Struct, Shape
  <2>2. DOMAIN s = 1 .. k /\ s \in Seq(Nodes)
    BY <1>2, <2>1, LineTail DEF Line
  <2>3. N \in Nat /\ k <= N
    BY <1>1, <1>2, <2>1, LineFits
  <2>4. \A i \in 1 .. k : s[i] \in Nodes
    BY <1>2, <2>2
  <2>5. \A i \in DOMAIN s : s[i] = tail.ptr <=> i = Len(s)
    BY <2>1, LineTail
  <2>6. s[k] = tail.ptr /\ tail.ptr \in Nodes
    BY <1>2, <2>1, <2>4 DEF Line
  <2> QED BY <1>2, <2>2, <2>3, <2>5, <2>6
<1>4. /\ DOMAIN Behind = 0 .. N
      /\ \A i \in 0 .. N :
            Behind[i] = IF i < k THEN s[i + 1] ELSE IF i = k THEN next[tail.ptr] ELSE Null
  BY <1>1, <1>2, BehindIsLine
<1>5. next[tail.ptr] # tail.ptr
  <2>1. In(s, tail.ptr)
    BY LineTail DEF Struct, Shape
  <2> QED BY <1>3, <2>1 DEF Struct, Shape, LooseNew, Loose, Linked
<1>6. \A i \in 0 .. N : Behind[i] = tail.ptr <=> i = k - 1
  <2> SUFFICES ASSUME NEW i \in 0 .. N PROVE Behind[i] = tail.ptr <=> i = k - 1
    OBVIOUS
  <2>1. CASE i < k
    <3>1. i + 1 \in 1 .. k /\ Behind[i] = s[i + 1] /\ (i + 1 = k <=> i = k - 1)
      BY <1>4, <2>1
    <3> QED BY <1>3, <3>1
  <2>2. CASE i = k
    <3>1. Behind[i] = next[tail.ptr] /\ i # k - 1
      BY <1>4, <2>2
    <3> QED BY <1>5, <3>1
  <2>3. CASE i > k
    <3>1. Behind[i] = Null /\ i # k - 1
      BY <1>4, <2>3
    <3> QED BY <1>3, <3>1, QueueAssumption
  <2> QED BY <2>1, <2>2, <2>3
<1>7. (CHOOSE i \in DOMAIN Behind : Behind[i] = tail.ptr) = k - 1
  <2>1. k - 1 \in 0 .. N
    BY <1>3
  <2> QED BY <1>4, <1>6, <2>1
<1>8. Stored = [i \in 1 .. k - 1 |-> data[Behind[i - 1]]]
  BY <1>7 DEF Stored
<1>9. \A i \in 1 .. k - 1 : Behind[i - 1] = s[i]
  <2> SUFFICES ASSUME NEW i \in 1 .. k - 1 PROVE Behind[i - 1] = s[i]
    OBVIOUS
  <2>1. i - 1 \in 0 .. N /\ i - 1 < k /\ (i - 1) + 1 = i
    BY <1>3
  <2> QED BY <1>4, <2>1
<1> QED BY <1>2, <1>8, <1>9 DEF DataOf

(* Data that no step changes, but in which the line may.                   *)
LEMMA DataStays ==
    ASSUME NewIsNull, NEW s, Struct(s), Values(s), NEW t \in Threads, Step(t)
    PROVE  \A i \in 1 .. Len(s) - 1 : data'[s[i]] = data[s[i]]
<1> SUFFICES ASSUME NEW i \in 1 .. Len(s) - 1 PROVE data'[s[i]] = data[s[i]]
  OBVIOUS
<1>1. s[i] \in heap /\ In(s, s[i]) /\ data[s[i]] # Null
  <2>1. i \in DOMAIN s
    BY LineTail DEF Struct, Shape
  <2> QED BY <2>1 DEF Struct, Shape, Line, In, Values, Filled
<1>2. ~(TakeData(t) /\ s[i] = old[t].ptr)
  BY <1>1 DEF TakeData, LeavesHead, Struct, Shape, Left
<1> QED BY <1>1, <1>2, DataMoves

LEMMA DataIsSeq ==
    ASSUME NEW s, Struct(s), Values(s)
    PROVE  /\ DataOf(s) \in Seq(Pushers) /\ Len(DataOf(s)) = Len(s) - 1 /\ Len(s) \in Nat \ {0}
           /\ \A i \in 1 .. Len(s) - 1 : DataOf(s)[i] = data[s[i]]
<1>1. PICK k \in Nat \ {0} : k = Len(s)
  BY LineTail DEF Struct, Shape
<1>2. \A i \in 1 .. k - 1 : data[s[i]] \in Pushers
  <2> SUFFICES ASSUME NEW i \in 1 .. k - 1 PROVE data[s[i]] \in Pushers
    OBVIOUS
  <2>1. i \in DOMAIN s /\ s[i] \in heap
    BY <1>1, LineTail DEF Struct, Shape, Line
  <2> QED BY <1>1, <2>1 DEF Values, Filled
<1>3. DataOf(s) = [i \in 1 .. k - 1 |-> data[s[i]]] /\ k - 1 \in Nat
  BY <1>1 DEF DataOf
<1> QED BY <1>1, <1>2, <1>3

(* The tail moves on: the value of its node enters the queue.              *)
LEMMA SwingAdds ==
    ASSUME Enough, NewIsNull, NEW s, Struct(s), Values(s), NEW t \in Threads,
           Swing(t), AtOldTail(t), StoredIsData, StoredIsData'
    PROVE  \E v \in Pushers : Fifo!Add(v)
<1>1. PICK r : Shape(r)' /\ r = Append(s, tail'.ptr)
  BY SwingShape
<1>2. Step(t)
  BY DEF Step
<1>3. Struct(r)' /\ data' = data /\ taken' = taken
  BY <1>1, <1>2, TypeKeeps DEF Struct, Swing, nodes
<1>4. PICK k \in Nat \ {0} : k = Len(s)
  BY LineTail DEF Struct, Shape
<1>5. /\ Len(r) = k + 1 /\ \A i \in 1 .. k : r[i] = s[i]
      /\ s[k] = tail.ptr /\ In(s, tail.ptr) /\ tail.ptr \in heap /\ DOMAIN s = 1 .. k
  <2>1. r \in Seq(Nodes) /\ r # <<>> /\ r[Len(r)] = tail'.ptr /\ s \in Seq(Nodes)
    BY <1>1 DEF Shape, Line, Struct
  <2>2. tail'.ptr \in Nodes
    BY <2>1, LenProperties, ElementOfSeq
  <2>3. Len(r) = k + 1 /\ \A i \in 1 .. k : r[i] = s[i]
    BY <1>1, <1>4, <2>1, <2>2, AppendProperties
  <2>4. s[k] = tail.ptr /\ In(s, tail.ptr) /\ DOMAIN s = 1 .. k /\ \A i \in DOMAIN s : s[i] \in heap
    BY <1>4, LineTail DEF Struct, Shape, Line
  <2> QED BY <2>3, <2>4 DEF In
<1>6. PICK v \in Pushers : v = data[tail.ptr]
  <2>1. data[tail.ptr] # Null
    BY DEF Swing, AtOldTail, Values, Filled, FilledFor
  <2> QED BY <1>5, <2>1 DEF Values, Filled
<1>7. /\ Stored = DataOf(s) /\ DataOf(s) \in Seq(Pushers) /\ Len(DataOf(s)) = k - 1
      /\ \A i \in 1 .. k - 1 : DataOf(s)[i] = data[s[i]]
  BY <1>4, DataIsSeq DEF StoredIsData
<1>8. Stored' = [i \in 1 .. k |-> data[s[i]]]
  <2>1. Stored' = [i \in 1 .. Len(r) - 1 |-> data'[r[i]]]
    BY <1>3 DEF StoredIsData, DataOf
  <2>2. Len(r) - 1 = k
    BY <1>5
  <2> QED BY <1>3, <1>5, <2>1, <2>2
<1>9. Stored' = Append(Stored, v)
  <2>1. PICK a : a = Append(Stored, v)
    OBVIOUS
  <2>2. a \in Seq(Pushers) /\ Len(a) = k /\ a[k] = v /\ \A i \in 1 .. k - 1 : a[i] = data[s[i]]
    <3>1. Stored \in Seq(Pushers) /\ Len(Stored) = k - 1
      BY <1>7
    <3>2. a \in Seq(Pushers) /\ Len(a) = (k - 1) + 1 /\ a[(k - 1) + 1] = v
          /\ \A i \in 1 .. k - 1 : a[i] = Stored[i]
      BY <2>1, <3>1, AppendProperties
    <3>3. (k - 1) + 1 = k
      OBVIOUS
    <3> QED BY <1>7, <3>2, <3>3
  <2>3. \A i \in 1 .. k : a[i] = data[s[i]]
    <3>1. \A i \in 1 .. k : i = k \/ i \in 1 .. k - 1
      OBVIOUS
    <3> QED BY <1>5, <1>6, <2>2, <3>1
  <2>4. a = [i \in 1 .. k |-> a[i]]
    BY <2>2
  <2> QED BY <1>8, <2>1, <2>3, <2>4
<1>10. \A i \in DOMAIN Stored : Stored[i] # v
  <2>1. DOMAIN Stored = 1 .. k - 1
    BY <1>7, LenProperties
  <2>2. ASSUME NEW i \in 1 .. k - 1, data[s[i]] = v PROVE FALSE
    <3>1. i \in DOMAIN s /\ k \in DOMAIN s /\ i # k
      BY <1>5
    <3>2. s[i] \in heap /\ s[i] # s[k]
      BY <3>1 DEF Struct, Shape, Line
    <3>3. v # Null
      BY QueueAssumption
    <3>4. data[s[i]] = data[s[k]] /\ data[s[i]] # Null /\ s[k] \in heap
      BY <1>5, <1>6, <2>2, <3>3
    <3> QED BY <3>2, <3>4 DEF Values, Once
  <2> QED BY <1>7, <2>1, <2>2
<1>11. \A i \in DOMAIN taken : taken[i] # v
  <2> SUFFICES ASSUME NEW i \in DOMAIN taken, taken[i] = v PROVE FALSE
    OBVIOUS
  <2>1. Took(data[tail.ptr])
    BY <1>6 DEF Took
  <2>2. PICK u \in Threads : pc[u] = "take data" /\ old[u].ptr = tail.ptr
    BY <1>5, <2>1 DEF Values, Once
  <2> QED BY <1>5, <2>2 DEF LeavesHead, Struct, Shape, Left
<1> QED BY <1>3, <1>9, <1>10, <1>11 DEF Fifo!Add

(* The head moves on: the value at the front leaves the queue.             *)
LEMMA MoveHeadRemoves ==
    ASSUME Enough, NewIsNull, NEW s, Struct(s), Values(s), NEW t \in Threads,
           MoveHead(t), SameHead(t), StoredIsData, StoredIsData'
    PROVE  Fifo!Remove
<1>1. PICK r : Shape(r)' /\ r = Tail(s)
  BY MoveHeadShape
<1>2. Step(t) /\ s[1] = old[t].ptr /\ Len(s) >= 2
  BY MoveHeadShape DEF Step
<1>3. Struct(r)' /\ data' = data /\ taken' = Append(taken, data[s[1]])
  BY <1>1, <1>2, TypeKeeps DEF Struct, MoveHead, nodes
<1>4. PICK k \in Nat : k = Len(s) /\ k >= 2
  BY <1>2, LineTail DEF Struct, Shape
<1>5. Len(r) = k - 1 /\ \A i \in 1 .. k - 1 : r[i] = s[i + 1]
  <2>1. s \in Seq(Nodes) /\ s # <<>>
    BY DEF Struct, Shape, Line
  <2> QED BY <1>1, <1>4, <2>1, HeadTailProperties
<1>6. /\ Stored = DataOf(s) /\ DataOf(s) \in Seq(Pushers) /\ Len(DataOf(s)) = k - 1
      /\ \A i \in 1 .. k - 1 : DataOf(s)[i] = data[s[i]]
  BY <1>4, DataIsSeq DEF StoredIsData
<1>7. Stored # <<>> /\ Head(Stored) = data[s[1]]
  <2>1. Len(DataOf(s)) # 0 /\ 1 \in 1 .. k - 1
    BY <1>4, <1>6
  <2>2. DataOf(s) # <<>>
    BY <2>1
  <2>3. Head(DataOf(s)) = DataOf(s)[1]
    BY <1>6, <2>2
  <2> QED BY <1>6, <2>1, <2>2, <2>3
<1>8. Stored' = [i \in 1 .. k - 2 |-> data[s[i + 1]]]
  <2>1. Stored' = [i \in 1 .. Len(r) - 1 |-> data'[r[i]]]
    BY <1>3 DEF StoredIsData, DataOf
  <2>2. Len(r) - 1 = k - 2 /\ \A i \in 1 .. k - 2 : i \in 1 .. k - 1
    BY <1>4, <1>5
  <2> QED BY <1>3, <1>5, <2>1, <2>2
<1>9. Stored' = Tail(Stored)
  <2>1. PICK b : b = Tail(DataOf(s))
    OBVIOUS
  <2>2. b \in Seq(Pushers) /\ Len(b) = k - 2 /\ \A i \in 1 .. k - 2 : b[i] = DataOf(s)[i + 1]
    <3>1. DataOf(s) # <<>>
      BY <1>6, <1>7
    <3>2. b \in Seq(Pushers) /\ Len(b) = (k - 1) - 1 /\ \A i \in 1 .. Len(b) : b[i] = DataOf(s)[i + 1]
      BY <1>6, <2>1, <3>1, HeadTailProperties
    <3>3. (k - 1) - 1 = k - 2
      BY <1>4
    <3> QED BY <3>2, <3>3
  <2>3. \A i \in 1 .. k - 2 : DataOf(s)[i + 1] = data[s[i + 1]]
    <3>1. \A i \in 1 .. k - 2 : i + 1 \in 1 .. k - 1
      BY <1>4
    <3> QED BY <1>6, <3>1
  <2>4. b = [i \in 1 .. k - 2 |-> b[i]]
    BY <2>2
  <2> QED BY <1>6, <1>8, <2>1, <2>2, <2>3, <2>4
<1> QED BY <1>3, <1>7, <1>9 DEF Fifo!Remove

(* All other steps.                                                        *)
LEMMA ElseStutters ==
    ASSUME Enough, NewIsNull, NEW s, Struct(s), Values(s), NEW t \in Threads, Step(t),
           ~(MoveHead(t) /\ SameHead(t)), ~(Swing(t) /\ AtOldTail(t)), StoredIsData, StoredIsData'
    PROVE  UNCHANGED <<Stored, taken>>
<1>1. Shape(s)'
  BY StepShape
<1>2. Struct(s)'
  BY <1>1, TypeKeeps DEF Struct
<1>3. Stored = DataOf(s) /\ Stored' = [i \in 1 .. Len(s) - 1 |-> data'[s[i]]]
  BY <1>2 DEF StoredIsData, DataOf
<1>4. Stored' = Stored
  BY <1>3, DataStays DEF DataOf
<1>5. taken' = taken
  BY DataMoves
<1> QED BY <1>4, <1>5

(* The values in the list leave it in the order in which they entered it,  *)
(* each one once, and only by a pop: the queue is a FifoQueue.             *)
THEOREM QueueIsFifo == ASSUME Enough, NewIsNull PROVE Spec => ImplementsFifo
<1>1. ASSUME Init PROVE Fifo!Init
  <2>1. PICK s : Struct(s) /\ s = <<head.ptr>>
    BY <1>1, InitSound
  <2>2. Stored = DataOf(s)
    BY <2>1, StoredData DEF StoredIsData
  <2>3. Len(s) - 1 = 0
    BY <2>1
  <2>4. Stored = <<>>
    <3>1. Stored = [i \in 1 .. 0 |-> data[s[i]]]
      BY <2>2, <2>3 DEF DataOf
    <3> QED BY <3>1
  <2> QED BY <1>1, <2>4 DEF Init, Fifo!Init
<1>2. ASSUME Filling, StoredIsData, StoredIsData', [Next]_vars PROVE [Fifo!Next]_Fifo!vars
  <2>1. PICK s : Struct(s) /\ Values(s)
    BY <1>2 DEF Filling
  <2>2. CASE UNCHANGED vars
    <3>1. UNCHANGED <<Stored, taken>>
      BY <2>2 DEF vars, nodes, Stored, Behind
    <3> QED BY <3>1 DEF Fifo!vars
  <2>3. CASE Next
    <3>1. PICK t \in Threads : Step(t)
      BY <2>3 DEF Next
    <3>2. CASE Swing(t) /\ AtOldTail(t)
      BY <1>2, <2>1, <3>2, SwingAdds DEF Fifo!Next
    <3>3. CASE MoveHead(t) /\ SameHead(t)
      BY <1>2, <2>1, <3>3, MoveHeadRemoves DEF Fifo!Next
    <3>4. CASE ~(MoveHead(t) /\ SameHead(t)) /\ ~(Swing(t) /\ AtOldTail(t))
      BY <1>2, <2>1, <3>1, <3>4, ElseStutters DEF Fifo!vars
    <3> QED BY <3>2, <3>3, <3>4
  <2> QED BY <1>2, <2>2, <2>3
<1>3. StoredIsData
  BY StoredData
<1> QED BY <1>1, <1>2, <1>3, FillingAlways, PTL DEF Spec, ImplementsFifo, Fifo!Spec

=============================================================================
