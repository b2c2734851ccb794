----------------------------- MODULE FileProofs -----------------------------
(***************************************************************************)
(* That every open descriptor of File belongs to one object, whatever the  *)
(* user does and whatever fails; and that a file with its two buffers is a *)
(* sequence of bytes with one position, for buffers of any size.           *)
(***************************************************************************)
EXTENDS File, SequenceTheorems, WellFoundedInduction, TLAPS

(* The invalid handle is none that the kernel gives out.                   *)
Distinct == NoHandle \notin Handles

Typed ==
    /\ handle \in [Objects -> Handles \cup {NoHandle}]
    /\ opened \in [Objects -> BOOLEAN]

Inv == Typed /\ DescriptorsOwned

-----------------------------------------------------------------------------
(* The three things a step may do with descriptors.                        *)

Same == UNCHANGED <<handle, opened>> /\ DOMAIN offset' = DOMAIN offset

(* o drops its descriptor and gets h, a new one or none.                   *)
Gets(o, h) ==
    /\ h \notin DOMAIN offset \ {handle[o]}
    /\ handle' = [handle EXCEPT ![o] = h]
    /\ opened' = [opened EXCEPT ![o] = (h # NoHandle)]
    /\ DOMAIN offset' = (DOMAIN offset \ {handle[o]}) \cup ({h} \ {NoHandle})

(* p drops its descriptor and takes that of o.                             *)
Passes(o, p) ==
    /\ o # p
    /\ handle' = [handle EXCEPT ![p] = handle[o], ![o] = NoHandle]
    /\ opened' = [opened EXCEPT ![p] = opened[o], ![o] = FALSE]
    /\ DOMAIN offset' = DOMAIN offset \ {handle[p]}

LEMMA SameKeeps == ASSUME Inv, Same PROVE Inv'
BY DEF Inv, Typed, DescriptorsOwned, Same

LEMMA GetsKeeps ==
    ASSUME Distinct, Inv, NEW o \in Objects, NEW h \in Handles \cup {NoHandle}, Gets(o, h)
    PROVE  Inv'
<1>1. Typed'
  BY DEF Inv, Typed, Gets
<1>2. \A x \in Objects : handle'[x] = IF x = o THEN h ELSE handle[x]
  BY DEF Inv, Typed, Gets
<1>3. \A x \in Objects : opened'[x] <=> handle'[x] # NoHandle
  BY <1>2 DEF Inv, Typed, DescriptorsOwned, Gets
<1>4. \A x, y \in Objects : handle'[x] = handle'[y] /\ handle'[x] # NoHandle => x = y
  BY <1>2 DEF Inv, DescriptorsOwned, Gets
<1>5. DOMAIN offset' = {handle'[x] : x \in Objects} \ {NoHandle}
  BY <1>2 DEF Inv, DescriptorsOwned, Gets
<1> QED BY <1>1, <1>3, <1>4, <1>5 DEF Inv, DescriptorsOwned

LEMMA PassesKeeps ==
    ASSUME Inv, NEW o \in Objects, NEW p \in Objects, Passes(o, p) PROVE Inv'
<1>1. Typed'
  BY DEF Inv, Typed, Passes
<1>2. \A x \in Objects : handle'[x] = IF x = p THEN handle[o] ELSE IF x = o THEN NoHandle ELSE handle[x]
  BY DEF Inv, Typed, Passes
<1>3. \A x \in Objects : opened'[x] <=> handle'[x] # NoHandle
  BY <1>2 DEF Inv, Typed, DescriptorsOwned, Passes
<1>4. \A x, y \in Objects : handle'[x] = handle'[y] /\ handle'[x] # NoHandle => x = y
  BY <1>2 DEF Inv, DescriptorsOwned, Passes
<1>5. DOMAIN offset' = {handle'[x] : x \in Objects} \ {NoHandle}
  <2>1. ASSUME NEW h \in DOMAIN offset' PROVE h # NoHandle /\ \E x \in Objects : handle'[x] = h
    <3>1. PICK x \in Objects : handle[x] = h /\ x # p /\ h # NoHandle
      BY DEF Inv, DescriptorsOwned, Passes
    <3>2. CASE x = o
      BY <1>2, <3>1, <3>2
    <3>3. CASE x # o
      BY <1>2, <3>1, <3>3
    <3> QED BY <3>1, <3>2, <3>3
  <2>2. ASSUME NEW x \in Objects, handle'[x] # NoHandle PROVE handle'[x] \in DOMAIN offset'
    <3>1. handle[o] # handle[p] \/ handle[o] = NoHandle
      BY DEF Inv, DescriptorsOwned, Passes
    <3>2. x # p => handle'[x] = handle[x] /\ handle[x] # handle[p]
      BY <1>2, <2>2 DEF Inv, DescriptorsOwned
    <3> QED BY <1>2, <2>2, <3>1, <3>2 DEF Inv, DescriptorsOwned, Passes
  <2> QED BY <2>1, <2>2
<1> QED BY <1>1, <1>3, <1>4, <1>5 DEF Inv, DescriptorsOwned

-----------------------------------------------------------------------------

LEMMA OthersDomain == \A o \in Objects : DOMAIN Others(o) = DOMAIN offset \ {handle[o]}
BY DEF Others

LEMMA StepKeeps == ASSUME Distinct, Inv, Next PROVE Inv'
<1> USE DEF Inv
<1>1. ASSUME NEW o \in Objects, NEW t \in BOOLEAN, NEW a \in BOOLEAN, Open(o, t, a) PROVE Inv'
  <2>1. CASE opened' = [opened EXCEPT ![o] = TRUE]
    <3>1. PICK h \in Handles \ DOMAIN Others(o) :
             /\ handle' = [handle EXCEPT ![o] = h]
             /\ DOMAIN offset' = DOMAIN Others(o) \cup {h}
      BY <1>1, <2>1 DEF Open, Typed
    <3>2. Gets(o, h)
      BY <2>1, <3>1, OthersDomain DEF Gets, Distinct
    <3> QED BY <3>2, GetsKeeps
  <2>2. CASE opened' # [opened EXCEPT ![o] = TRUE]
    <3>1. /\ handle' = [handle EXCEPT ![o] = NoHandle] /\ opened' = [opened EXCEPT ![o] = FALSE]
          /\ DOMAIN offset' = DOMAIN Others(o)
      BY <1>1, <2>2 DEF Open
    <3>2. Gets(o, NoHandle)
      BY <3>1, OthersDomain DEF Gets, DescriptorsOwned
    <3> QED BY <3>2, GetsKeeps
  <2> QED BY <2>1, <2>2
<1>2. ASSUME NEW o \in Objects, Close(o) PROVE Inv'
  <2>1. Gets(o, NoHandle)
    BY <1>2, OthersDomain DEF Close, Gets, DescriptorsOwned
  <2> QED BY <2>1, GetsKeeps
<1>3. ASSUME NEW o \in Objects, NEW p \in Objects, Move(o, p) PROVE Inv'
  <2>1. Passes(o, p)
    BY <1>3, OthersDomain DEF Move, Handover, Passes
  <2> QED BY <2>1, PassesKeeps
<1>4. ASSUME NEW o \in Objects, NEW n \in Counts, Read(o, n) \/ Truncate(o, n) PROVE Same
  BY <1>4 DEF Read, Consume, Keep, Truncate, Same
<1>5. ASSUME NEW o \in Objects, ReadLine(o) \/ Prefetch(o) \/ Tell(o) PROVE Same
  BY <1>5 DEF ReadLine, Prefetch, Tell, Consume, Keep, Same
<1>6. ASSUME NEW o \in Objects, NEW n \in Distances, NEW w \in {"begin", "current", "end"}, Seek(o, w, n)
      PROVE  Same
  BY <1>6 DEF Seek, Apply, Same
<1>7. ASSUME NEW o \in Objects, NEW d \in Inputs, Write(o, d) PROVE Same
  BY <1>7 DEF Write, WriteDirect, WriteBuffered, Apply, Same
<1>8. ASSUME NEW o \in Objects, ReadAll(o) \/ Flush(o) \/ Size(o) PROVE Same
  BY <1>8 DEF ReadAll, Flush, Size, Apply, Same
<1> QED BY <1>1, <1>2, <1>3, <1>4, <1>5, <1>6, <1>7, <1>8, SameKeeps DEF Next

\* No open descriptor leaks or has two objects, for any number of objects and
\* buffers of any size, with or without short writes and the user's rules.
THEOREM DescriptorsStayOwned == ASSUME Distinct PROVE Spec => []DescriptorsOwned
<1>1. Init => Inv
  BY DEF Init, Inv, Typed, DescriptorsOwned
<1>2. Inv /\ [Next]_vars => Inv'
  <2>1. ASSUME Inv, UNCHANGED vars PROVE Inv'
    BY <2>1, SameKeeps DEF vars, Same
  <2> QED BY <2>1, StepKeeps
<1>3. Inv => DescriptorsOwned
  BY DEF Inv
<1> QED BY <1>1, <1>2, <1>3, PTL DEF Spec

-----------------------------------------------------------------------------
(* Sequences of bytes.                                                     *)

LEMMA FunctionSeq ==
    ASSUME NEW S, NEW n \in Nat, NEW f \in [1 .. n -> S]
    PROVE  f \in Seq(S) /\ Len(f) = n
<1>1. f \in Seq(S)
  BY SeqDef
<1> QED BY <1>1, LenProperties

(* What Overwrite yields, byte by byte.                                    *)
Written(w, s, p, d) ==
    /\ Len(w) = IF Len(d) # 0 /\ Len(s) < p + Len(d) THEN p + Len(d) ELSE Len(s)
    /\ \A i \in 1 .. Len(w) : w[i] = IF i \in p + 1 .. p + Len(d) THEN d[i - p]
                                     ELSE IF i <= Len(s) THEN s[i] ELSE Zero

LEMMA Overwritten ==
    ASSUME NEW S, Zero \in S, NEW s \in Seq(S), NEW p \in Nat, NEW d \in Seq(S)
    PROVE  Overwrite(s, p, d) \in Seq(S) /\ Written(Overwrite(s, p, d), s, p, d)
<1>1. /\ Len(s) \in Nat /\ DOMAIN s = 1 .. Len(s) /\ \A i \in 1 .. Len(s) : s[i] \in S
      /\ Len(d) \in Nat /\ DOMAIN d = 1 .. Len(d) /\ \A i \in 1 .. Len(d) : d[i] \in S
  BY LenProperties
<1>2. CASE d = <<>>
  <2>1. Len(d) = 0
    BY <1>2
  <2> QED BY <1>1, <1>2, <2>1 DEF Overwrite, Written
<1>3. CASE d # <<>>
  <2>0. Len(d) # 0
    BY <1>3, EmptySeq
  <2> DEFINE n == IF Len(s) < p + Len(d) THEN p + Len(d) ELSE Len(s)
             e == [i \in 1 .. n |-> IF i \in p + 1 .. p + Len(d) THEN d[i - p]
                                    ELSE IF i \in 1 .. Len(s) THEN s[i] ELSE Zero]
  <2>1. n \in Nat /\ DOMAIN s \cup 1 .. p + Len(d) = 1 .. n
    BY <1>1
  <2>2. Overwrite(s, p, d) = e
    BY <1>1, <1>3, <2>1 DEF Overwrite
  <2>3. e \in [1 .. n -> S]
    <3>1. ASSUME NEW i \in 1 .. n PROVE e[i] \in S
      BY <1>1, <2>1, <3>1
    <3> QED BY <3>1
  <2>4. e \in Seq(S) /\ Len(e) = n
    BY <2>1, <2>3, FunctionSeq
  <2>5. \A i \in 1 .. n : e[i] = IF i \in p + 1 .. p + Len(d) THEN d[i - p]
                                ELSE IF i <= Len(s) THEN s[i] ELSE Zero
    BY <1>1, <2>1
  <2> HIDE DEF e
  <2> QED BY <2>0, <2>2, <2>4, <2>5 DEF Written
<1> QED BY <1>2, <1>3

(* Two writes in a row are one write of both.                              *)
Joins(c, a, b) == c = a \o b

LEMMA OverwriteTwice ==
    ASSUME NEW S, Zero \in S, NEW s \in Seq(S), NEW p \in Nat, NEW a \in Seq(S), NEW b \in Seq(S),
           NEW c \in Seq(S), Joins(c, a, b), NEW m, m = Overwrite(s, p, a)
    PROVE  Overwrite(m, p + Len(a), b) = Overwrite(s, p, c)
<1>1. Len(s) \in Nat /\ Len(a) \in Nat /\ Len(b) \in Nat /\ p + Len(a) \in Nat
  BY LenProperties
<1>2. /\ a \o b \in Seq(S) /\ Len(a \o b) = Len(a) + Len(b)
      /\ \A i \in 1 .. Len(a) + Len(b) : (a \o b)[i] = IF i <= Len(a) THEN a[i] ELSE b[i - Len(a)]
  BY ConcatProperties
<1>3. m = Overwrite(s, p, a)
  OBVIOUS
<1>4. m \in Seq(S) /\ Written(m, s, p, a)
  BY <1>3, Overwritten
<1>5. PICK l : l = Overwrite(m, p + Len(a), b)
  OBVIOUS
<1>6. l \in Seq(S) /\ Written(l, m, p + Len(a), b)
  BY <1>1, <1>4, <1>5, Overwritten
<1>7. c = a \o b
  BY DEF Joins
<1>8. PICK r : r = Overwrite(s, p, c)
  OBVIOUS
<1>9. r \in Seq(S) /\ Written(r, s, p, c)
  BY <1>7, <1>8, Overwritten
<1>10. Len(c) = Len(a) + Len(b)
  BY <1>2, <1>7
<1>11. Len(l) = Len(r) /\ Len(l) \in Nat /\ Len(m) <= Len(l) /\ Len(m) \in Nat
  <2>1. Len(m) = IF Len(a) # 0 /\ Len(s) < p + Len(a) THEN p + Len(a) ELSE Len(s)
    BY <1>4 DEF Written
  <2>2. Len(l) = IF Len(b) # 0 /\ Len(m) < (p + Len(a)) + Len(b) THEN (p + Len(a)) + Len(b) ELSE Len(m)
    BY <1>6 DEF Written
  <2>3. Len(r) = IF Len(c) # 0 /\ Len(s) < p + Len(c) THEN p + Len(c) ELSE Len(s)
    BY <1>9 DEF Written
  <2>4. Len(m) \in Nat /\ Len(m) >= Len(s)
    BY <1>1, <2>1
  <2>5. Len(l) \in Nat /\ Len(l) >= Len(m)
    BY <1>1, <2>2, <2>4
  <2>6. CASE Len(a) = 0
    BY <1>1, <1>10, <2>1, <2>2, <2>3, <2>4, <2>5, <2>6
  <2>7. CASE Len(b) = 0
    BY <1>1, <1>10, <2>1, <2>2, <2>3, <2>4, <2>5, <2>7
  <2>8. CASE Len(a) # 0 /\ Len(b) # 0
    BY <1>1, <1>10, <2>1, <2>2, <2>3, <2>4, <2>5, <2>8
  <2> QED BY <2>6, <2>7, <2>8
<1>12. ASSUME NEW i \in 1 .. Len(l) PROVE l[i] = r[i]
  <2>0. i \in Nat /\ i >= 1
    BY <1>11
  <2>1. CASE i \in p + 1 .. p + Len(a)
    <3>1. i \in 1 .. Len(m) /\ l[i] = m[i] /\ m[i] = a[i - p]
      BY <1>1, <1>4, <1>6, <1>11, <2>0, <2>1, SMTT(30) DEF Written
    <3>2. i - p \in 1 .. Len(a) + Len(b) /\ c[i - p] = a[i - p]
      BY <1>1, <1>2, <1>7, <2>0, <2>1
    <3>3. r[i] = c[i - p]
      BY <1>1, <1>9, <1>10, <1>11, <2>1 DEF Written
    <3> QED BY <3>1, <3>2, <3>3
  <2>2. CASE i \in (p + Len(a)) + 1 .. (p + Len(a)) + Len(b)
    <3>1. l[i] = b[i - (p + Len(a))]
      BY <1>6, <2>2 DEF Written
    <3>2. i - p \in 1 .. Len(a) + Len(b) /\ ~(i - p <= Len(a)) /\ (i - p) - Len(a) = i - (p + Len(a))
      BY <1>1, <2>0, <2>2
    <3>3. c[i - p] = b[i - (p + Len(a))]
      BY <1>2, <1>7, <3>2
    <3>4. r[i] = c[i - p]
      BY <1>1, <1>9, <1>10, <1>11, <2>2 DEF Written
    <3> QED BY <3>1, <3>3, <3>4
  <2>3. CASE i \notin p + 1 .. p + Len(a) + Len(b)
    <3>1. r[i] = IF i <= Len(s) THEN s[i] ELSE Zero
      BY <1>1, <1>9, <1>10, <1>11, <2>0, <2>3 DEF Written
    <3>2. l[i] = IF i <= Len(m) THEN m[i] ELSE Zero
      BY <1>1, <1>6, <2>0, <2>3, SMTT(30) DEF Written
    <3>3. i <= Len(m) => m[i] = IF i <= Len(s) THEN s[i] ELSE Zero
      BY <1>1, <1>4, <2>0, <2>3 DEF Written
    <3>4. i <= Len(s) => i <= Len(m)
      BY <1>1, <1>4, <2>0 DEF Written
    <3> QED BY <3>1, <3>2, <3>3, <3>4
  <2> QED BY <1>1, <2>0, <2>1, <2>2, <2>3
<1>13. l = r
  BY <1>6, <1>9, <1>11, <1>12, SeqEqual
<1> QED BY <1>3, <1>5, <1>7, <1>8, <1>13

(* r is s without its first n bytes.                                       *)
Remains(r, s, n) ==
    /\ Len(r) = IF n < Len(s) THEN Len(s) - n ELSE 0
    /\ \A i \in 1 .. Len(r) : r[i] = s[n + i]

LEMMA DroppedSeq ==
    ASSUME NEW S, NEW s \in Seq(S), NEW n \in Nat
    PROVE  Dropped(s, n) \in Seq(S) /\ Remains(Dropped(s, n), s, n)
<1>1. Len(s) \in Nat /\ \A i \in 1 .. Len(s) : s[i] \in S
  BY LenProperties
<1>2. n + 1 \in Int /\ Len(s) \in Int /\ \A i \in n + 1 .. Len(s) : s[i] \in S
  BY <1>1
<1>3. /\ SubSeq(s, n + 1, Len(s)) \in Seq(S)
      /\ Len(SubSeq(s, n + 1, Len(s))) = IF n + 1 <= Len(s) THEN Len(s) - (n + 1) + 1 ELSE 0
      /\ \A i \in 1 .. Len(s) - (n + 1) + 1 : SubSeq(s, n + 1, Len(s))[i] = s[n + 1 + i - 1]
  BY <1>2, SubSeqProperties
<1>4. PICK r : r = SubSeq(s, n + 1, Len(s))
  OBVIOUS
<1>5. Len(r) = IF n < Len(s) THEN Len(s) - n ELSE 0
  BY <1>1, <1>3, <1>4
<1>6. ASSUME NEW i \in 1 .. Len(r) PROVE r[i] = s[n + i]
  <2>1. i \in 1 .. Len(s) - (n + 1) + 1 /\ n + 1 + i - 1 = n + i
    BY <1>1, <1>5
  <2> QED BY <1>3, <1>4, <2>1
<1> QED BY <1>3, <1>4, <1>5, <1>6 DEF Dropped, Remains

LEMMA LeastIs == ASSUME NEW m \in Nat, NEW n \in Nat
                 PROVE  Least(m, n) \in Nat /\ Least(m, n) <= m /\ Least(m, n) <= n
                        /\ Least(m, n) \in {m, n}
BY DEF Least

-----------------------------------------------------------------------------
(* The file as a stream. The user keeps to the rules, and the kernel takes *)
(* all of what it is given or, when it fails, nothing.                     *)

Bytes == {Zero} \cup UNION {{d[i] : i \in DOMAIN d} : d \in Inputs}

Usual ==
    /\ Distinct /\ Disciplined = TRUE /\ ShortWrites = FALSE
    /\ Inputs \subseteq Seq(Bytes) /\ Counts \subseteq Nat /\ Distances \subseteq Int
    /\ BufferSize \in Nat \ {0}

Stores ==
    /\ disk \in Seq(Bytes) /\ offset \in [DOMAIN offset -> Nat] /\ atEnd \subseteq DOMAIN offset
    /\ rbuf \in [Objects -> Seq(Bytes)] /\ wbuf \in [Objects -> Seq(Bytes)]
    /\ allocated \in [Objects -> BOOLEAN]
    /\ \A o \in Objects : Len(wbuf[o]) <= BufferSize

OneOpen == \A o, p \in Objects : opened[o] /\ opened[p] => o = p

(* The bytes b are those of the disk in front of x.                        *)
InFront(b, x) ==
    b # <<>> => /\ Len(b) <= x /\ x <= Len(disk)
                /\ \A i \in 1 .. Len(b) : b[i] = disk[(x - Len(b)) + i]

(* One buffer at a time holds something, and what was read ahead is still  *)
(* what the disk has there.                                                *)
Consistent(o) ==
    /\ allocated[o]
    /\ wbuf[o] = <<>> \/ rbuf[o] = <<>>
    /\ InFront(rbuf[o], offset[handle[o]])

StreamInv ==
    /\ Inv /\ Stores /\ OneOpen
    /\ \A o \in Objects : opened[o] => Consistent(o)

(* What the user sees of the one open object, or of none.                  *)
Shows(o) ==
    /\ InUse /\ User = o
    /\ Content = Overwrite(disk, At(o), wbuf[o])
    /\ Pending = (wbuf[o] # <<>>) /\ Appends = (handle[o] \in atEnd)
    /\ Position = PositionOf(o)

ShowsNone == ~InUse /\ Content = disk /\ ~Pending /\ ~Appends /\ Position = 0

LEMMA OpenShows == \A o \in Objects : OneOpen /\ opened[o] => Shows(o)
<1>1. ASSUME NEW o \in Objects, OneOpen, opened[o] PROVE Shows(o)
  <2>1. InUse
    BY <1>1 DEF InUse
  <2>2. User = o
    BY <1>1 DEF User, OneOpen
  <2> QED BY <2>1, <2>2 DEF Shows, Content, Pending, Appends, Position
<1> QED BY <1>1

LEMMA OpenShowsNext == \A o \in Objects : OneOpen' /\ opened'[o] => Shows(o)'
<1>1. (\A o \in Objects : OneOpen /\ opened[o] => Shows(o))'
  BY OpenShows, PTL
<1> QED BY <1>1

LEMMA ClosedShows == (\A o \in Objects : ~opened[o]) => ShowsNone
BY DEF ShowsNone, InUse, Content, Pending, Appends, Position

LEMMA ClosedShowsNext == (\A o \in Objects : ~opened'[o]) => ShowsNone'
<1>1. ((\A o \in Objects : ~opened[o]) => ShowsNone)'
  BY ClosedShows, PTL
<1> QED BY <1>1

(* The abstract file computes with the same operators.                     *)
LEMMA SameOperators ==
    /\ \A s, p, d : Stream!Overwrite(s, p, d) = Overwrite(s, p, d)
    /\ \A s, n : Stream!Dropped(s, n) = Dropped(s, n) /\ Stream!Resized(s, n) = Resized(s, n)
    /\ \A m, n : Stream!Least(m, n) = Least(m, n)
    /\ \A s : Stream!LineLength(s) = LineLength(s) /\ Stream!Text(s) = Text(s)
<1>1. \A s, p, d : Stream!Overwrite(s, p, d) = Overwrite(s, p, d)
  BY DEF Overwrite, Stream!Overwrite
<1>2. \A s, n : Stream!Dropped(s, n) = Dropped(s, n)
  BY DEF Dropped, Stream!Dropped
<1>3. \A s, n : Stream!Resized(s, n) = Resized(s, n)
  BY DEF Resized, Stream!Resized
<1>4. \A m, n : Stream!Least(m, n) = Least(m, n)
  BY DEF Least, Stream!Least
<1>5. \A s : Stream!LineLength(s) = LineLength(s)
  BY DEF LineLength, Stream!LineLength
<1>6. \A s : Stream!Text(s) = Text(s)
  BY DEF Text, Stream!Text
<1> QED BY <1>1, <1>2, <1>3, <1>4, <1>5, <1>6

LEMMA OpenFacts ==
    ASSUME StreamInv, NEW o \in Objects, opened[o]
    PROVE  /\ handle[o] \in DOMAIN offset /\ handle[o] # NoHandle /\ offset[handle[o]] \in Nat
           /\ disk \in Seq(Bytes) /\ rbuf[o] \in Seq(Bytes) /\ wbuf[o] \in Seq(Bytes)
           /\ Len(disk) \in Nat /\ Len(rbuf[o]) \in Nat /\ Len(wbuf[o]) \in Nat
           /\ (rbuf[o] = <<>> <=> Len(rbuf[o]) = 0) /\ (wbuf[o] = <<>> <=> Len(wbuf[o]) = 0)
           /\ At(o) \in Nat /\ PositionOf(o) \in Nat
           /\ Consistent(o) /\ Shows(o) /\ Zero \in Bytes
<1>1. handle[o] \in DOMAIN offset /\ handle[o] # NoHandle
  BY DEF StreamInv, Inv, DescriptorsOwned
<1>2. offset[handle[o]] \in Nat
  BY <1>1 DEF StreamInv, Stores
<1>3. disk \in Seq(Bytes) /\ rbuf[o] \in Seq(Bytes) /\ wbuf[o] \in Seq(Bytes)
  BY DEF StreamInv, Stores
<1>4. Len(disk) \in Nat /\ Len(rbuf[o]) \in Nat /\ Len(wbuf[o]) \in Nat
  BY <1>3, LenProperties
<1>5. (rbuf[o] = <<>> <=> Len(rbuf[o]) = 0) /\ (wbuf[o] = <<>> <=> Len(wbuf[o]) = 0)
  BY <1>3, EmptySeq
<1>6. At(o) \in Nat
  BY <1>2, <1>4 DEF At
<1>7. Consistent(o) /\ Shows(o)
  BY OpenShows DEF StreamInv
<1>8. PositionOf(o) \in Nat
  <2>1. Len(rbuf[o]) <= offset[handle[o]]
    BY <1>2, <1>4, <1>5, <1>7 DEF Consistent, InFront
  <2> QED BY <1>2, <1>4, <1>6, <2>1 DEF PositionOf
<1>9. Zero \in Bytes
  BY DEF Bytes
<1> QED BY <1>1, <1>2, <1>3, <1>4, <1>5, <1>6, <1>7, <1>8, <1>9

(* A step on the open object keeps the invariant if it keeps its part.     *)
LEMMA KeepsInv ==
    ASSUME StreamInv, NEW o \in Objects, opened[o], UNCHANGED <<handle, opened>>,
           DOMAIN offset' = DOMAIN offset, Stores', Consistent(o)'
    PROVE  StreamInv' /\ Shows(o)'
<1>1. Inv'
  BY SameKeeps DEF Same, StreamInv
<1>2. OneOpen'
  BY DEF StreamInv, OneOpen
<1>3. \A p \in Objects : opened'[p] => p = o
  BY DEF StreamInv, OneOpen
<1> QED BY <1>1, <1>2, <1>3, OpenShowsNext DEF StreamInv

-----------------------------------------------------------------------------
(* Reading.                                                                *)

LEMMA RestFromBuffer ==
    ASSUME NEW S, NEW s \in Seq(S), NEW x \in Nat, NEW b \in Seq(S),
           Len(b) <= x, x <= Len(s) \/ b = <<>>,
           \A i \in 1 .. Len(b) : b[i] = s[(x - Len(b)) + i]
    PROVE  b \o Dropped(s, x) = Dropped(s, x - Len(b))
<1>1. Len(s) \in Nat /\ Len(b) \in Nat
  BY LenProperties
<1>2. CASE b = <<>>
  <2>1. b \o Dropped(s, x) = Dropped(s, x)
    BY <1>2, DroppedSeq, ConcatEmptySeq
  <2>2. x - Len(b) = x
    BY <1>2
  <2> QED BY <2>1, <2>2
<1>3. CASE b # <<>>
  <2>0. x - Len(b) \in Nat
    BY <1>1
  <2>1. PICK y \in Nat : y = x - Len(b)
    BY <2>0
  <2>2. PICK d : d = Dropped(s, x)
    OBVIOUS
  <2>3. PICK r : r = Dropped(s, y)
    OBVIOUS
  <2>4. Len(b) # 0
    BY <1>3, EmptySeq
  <2>5. d \in Seq(S) /\ Len(d) = Len(s) - x /\ \A i \in 1 .. Len(s) - x : d[i] = s[x + i]
    <3>1. d \in Seq(S) /\ Remains(d, s, x)
      BY <2>2, DroppedSeq
    <3>2. Len(d) = Len(s) - x
      BY <1>1, <1>3, <3>1 DEF Remains
    <3> QED BY <3>1, <3>2 DEF Remains
  <2>6. r \in Seq(S) /\ Len(r) = Len(s) - y /\ \A i \in 1 .. Len(s) - y : r[i] = s[y + i]
    <3>1. r \in Seq(S) /\ Remains(r, s, y)
      BY <2>1, <2>3, DroppedSeq
    <3>2. Len(r) = Len(s) - y
      BY <1>1, <1>3, <2>1, <2>4, <3>1 DEF Remains
    <3> QED BY <3>1, <3>2 DEF Remains
  <2>7. PICK c : c = b \o d
    OBVIOUS
  <2>8. /\ c \in Seq(S) /\ Len(c) = Len(b) + Len(d)
        /\ \A i \in 1 .. Len(b) + Len(d) : c[i] = IF i <= Len(b) THEN b[i] ELSE d[i - Len(b)]
    <3>1. /\ b \o d \in Seq(S) /\ Len(b \o d) = Len(b) + Len(d)
          /\ \A i \in 1 .. Len(b) + Len(d) : (b \o d)[i] = IF i <= Len(b) THEN b[i] ELSE d[i - Len(b)]
      <4>1. b \in Seq(S) /\ d \in Seq(S)
        BY <2>5
      <4> QED BY <4>1, ConcatProperties
    <3> QED BY <2>7, <3>1
  <2>9. Len(c) = Len(r) /\ Len(c) = Len(s) - y
    BY <1>1, <2>1, <2>5, <2>6, <2>8
  <2>10. ASSUME NEW i \in 1 .. Len(c) PROVE c[i] = r[i]
    <3>1. i \in Nat /\ i >= 1 /\ i <= Len(s) - y
      BY <1>1, <2>1, <2>9
    <3>2. CASE i <= Len(b)
      BY <1>1, <2>1, <2>6, <2>8, <2>9, <3>1, <3>2
    <3>3. CASE ~(i <= Len(b))
      <4>1. i - Len(b) \in 1 .. Len(s) - x /\ x + (i - Len(b)) = y + i
        BY <1>1, <2>1, <3>1, <3>3
      <4>2. c[i] = d[i - Len(b)] /\ d[i - Len(b)] = s[x + (i - Len(b))]
        BY <1>1, <2>5, <2>8, <2>9, <3>1, <3>3, <4>1
      <4> QED BY <1>1, <2>1, <2>6, <3>1, <4>1, <4>2
    <3> QED BY <3>2, <3>3
  <2>11. c = r
    BY <2>6, <2>8, <2>9, <2>10, SeqEqual
  <2> QED BY <2>1, <2>2, <2>3, <2>7, <2>11
<1> QED BY <1>2, <1>3

(* What is ahead in buffer and disk is the rest from the position on.      *)
LEMMA AheadIsRest ==
    ASSUME StreamInv, NEW o \in Objects, opened[o], wbuf[o] = <<>>
    PROVE  Ahead(o) = Dropped(disk, PositionOf(o))
<1>1. Unread(o) = Dropped(disk, offset[handle[o]])
  BY OpenFacts DEF Unread, Consistent
<1>2. PositionOf(o) = offset[handle[o]] - Len(rbuf[o])
  BY DEF PositionOf
<1>3. /\ Len(rbuf[o]) <= offset[handle[o]]
      /\ offset[handle[o]] <= Len(disk) \/ rbuf[o] = <<>>
      /\ \A i \in 1 .. Len(rbuf[o]) : rbuf[o][i] = disk[(offset[handle[o]] - Len(rbuf[o])) + i]
  BY OpenFacts DEF Consistent, InFront
<1>4. rbuf[o] \o Dropped(disk, offset[handle[o]]) = Dropped(disk, offset[handle[o]] - Len(rbuf[o]))
  <2>1. disk \in Seq(Bytes) /\ rbuf[o] \in Seq(Bytes) /\ offset[handle[o]] \in Nat
    BY OpenFacts
  <2> QED BY <1>3, <2>1, RestFromBuffer, ZenonT(60)
<1> QED BY <1>1, <1>2, <1>4 DEF Ahead

(* A read leaves bytes b in the buffer and the kernel's offset at x.       *)
LEMMA MovesOn ==
    ASSUME StreamInv, NEW o \in Objects, opened[o], wbuf[o] = <<>>,
           NEW b \in Seq(Bytes), NEW x \in Nat, NEW n \in Nat,
           InFront(b, x), x - Len(b) = PositionOf(o) + n,
           rbuf' = [rbuf EXCEPT ![o] = b], offset' = [offset EXCEPT ![handle[o]] = x], Keep
    PROVE  /\ StreamInv' /\ UNCHANGED <<Content, Pending, Appends, InUse>>
           /\ Position' = Position + n
<1>1. /\ handle[o] \in DOMAIN offset /\ rbuf'[o] = b /\ offset'[handle[o]] = x
      /\ DOMAIN offset' = DOMAIN offset
  BY OpenFacts DEF StreamInv, Stores
<1>2. Stores'
  BY OpenFacts DEF StreamInv, Stores, Keep
<1>3. Consistent(o)'
  <2>1. InFront(rbuf[o], offset[handle[o]])'
    BY <1>1 DEF InFront, Keep
  <2>2. allocated[o]
    BY OpenFacts DEF Consistent
  <2> QED BY <2>1, <2>2 DEF Consistent, Keep
<1>4. StreamInv' /\ Shows(o)' /\ Shows(o)
  BY <1>1, <1>2, <1>3, OpenFacts, KeepsInv DEF Keep
<1>5. PositionOf(o)' = PositionOf(o) + n
  BY <1>1 DEF PositionOf, Keep
<1>6. Content = disk /\ Content' = disk'
  BY <1>4 DEF Shows, Overwrite, Keep
<1> QED BY <1>4, <1>5, <1>6 DEF Shows, Keep

(* Buffers enough for the bytes that are needed.                           *)
LEMMA WholeBuffers ==
    ASSUME Usual, NEW n \in Nat
    PROVE  /\ BufferSize * ((n + BufferSize - 1) \div BufferSize) \in Nat
           /\ BufferSize * ((n + BufferSize - 1) \div BufferSize) >= n
<1>1. n + BufferSize - 1 \in Nat /\ BufferSize \in Nat /\ BufferSize > 0
  BY DEF Usual
<1>2. PICK a \in Nat : a = n + BufferSize - 1
  BY <1>1
<1>3. a \div BufferSize \in Nat /\ a % BufferSize \in 0 .. BufferSize - 1
  BY <1>1, SMT
<1>4. a = (BufferSize * (a \div BufferSize)) + (a % BufferSize)
  BY <1>1, SMT
<1>5. PICK q \in Nat : q = a \div BufferSize
  BY <1>3
<1>6. BufferSize * q \in Nat
  BY <1>1, SMT
<1>7. BufferSize * q >= n
  BY <1>1, <1>2, <1>3, <1>4, <1>5, <1>6
<1> QED BY <1>2, <1>5, <1>6, <1>7

LEMMA Consumed ==
    ASSUME Usual, StreamInv, NEW o \in Objects, opened[o], wbuf[o] = <<>>,
           NEW n \in 0 .. Len(Ahead(o)), Consume(o, n)
    PROVE  \E b \in Seq(Bytes), x \in Nat :
              /\ InFront(b, x) /\ x - Len(b) = PositionOf(o) + n
              /\ rbuf' = [rbuf EXCEPT ![o] = b] /\ offset' = [offset EXCEPT ![handle[o]] = x]
<1>1. PICK c \in Seq(Bytes) : c = rbuf[o]
  BY OpenFacts
<1>2. PICK y \in Nat : y = offset[handle[o]]
  BY OpenFacts
<1>3. PICK u : u = Unread(o)
  OBVIOUS
<1>4. u = Dropped(disk, y)
  BY <1>2, <1>3, OpenFacts DEF Unread, Consistent
<1>5. u \in Seq(Bytes) /\ Remains(u, disk, y)
  BY <1>4, OpenFacts, DroppedSeq
<1>6. Len(disk) \in Nat /\ Len(c) \in Nat /\ Len(u) \in Nat /\ disk \in Seq(Bytes)
  BY <1>5, OpenFacts, LenProperties
<1>7. Len(Ahead(o)) = Len(c) + Len(u)
  BY <1>1, <1>3, <1>5, ConcatProperties DEF Ahead
<1>8. InFront(c, y) /\ PositionOf(o) = y - Len(c) /\ (c = <<>> <=> Len(c) = 0)
  BY <1>1, <1>2, OpenFacts DEF Consistent, PositionOf
<1>9. n \in Nat /\ n <= Len(c) + Len(u)
  BY <1>6, <1>7
<1>10. CASE n <= Len(c)
  <2>1. PICK b \in Seq(Bytes) : b = Dropped(c, n) /\ Remains(b, c, n)
    BY <1>9, DroppedSeq
  <2>2. Len(b) = Len(c) - n
    BY <1>6, <1>9, <1>10, <2>1 DEF Remains
  <2>3. y - Len(b) = PositionOf(o) + n
    BY <1>6, <1>8, <1>9, <2>2
  <2>4. ASSUME b # <<>>
        PROVE  /\ Len(b) <= y /\ y <= Len(disk)
               /\ \A i \in 1 .. Len(b) : b[i] = disk[(y - Len(b)) + i]
    <3>1. Len(b) # 0
      BY <2>4, EmptySeq
    <3>2. c # <<>>
      BY <1>6, <1>8, <1>9, <2>2, <3>1
    <3>3. /\ Len(c) <= y /\ y <= Len(disk)
          /\ \A i \in 1 .. Len(c) : c[i] = disk[(y - Len(c)) + i]
      BY <1>8, <3>2 DEF InFront
    <3>4. ASSUME NEW i \in 1 .. Len(b) PROVE b[i] = disk[(y - Len(b)) + i]
      <4>1. n + i \in 1 .. Len(c) /\ (y - Len(c)) + (n + i) = (y - Len(b)) + i
        BY <1>6, <1>9, <2>2
      <4>2. b[i] = c[n + i]
        BY <2>1 DEF Remains
      <4> QED BY <3>3, <4>1, <4>2
    <3> QED BY <1>6, <1>9, <2>2, <3>3, <3>4
  <2>5. rbuf' = [rbuf EXCEPT ![o] = b] /\ UNCHANGED offset
    BY <1>1, <1>10, <2>1 DEF Consume
  <2>6. offset' = [offset EXCEPT ![handle[o]] = y]
    BY <1>2, <2>5 DEF StreamInv, Stores
  <2> QED BY <2>3, <2>4, <2>5, <2>6 DEF InFront
<1>11. CASE ~(n <= Len(c))
  <2>1. PICK k \in Nat : k = n - Len(c) /\ k > 0 /\ k <= Len(u)
    <3>1. n - Len(c) \in Nat /\ n - Len(c) > 0 /\ n - Len(c) <= Len(u)
      BY <1>6, <1>9, <1>11
    <3> QED BY <3>1
  <2>2. PICK m \in Nat : m = Least(Len(u), BufferSize * ((k + BufferSize - 1) \div BufferSize))
    BY <1>6, WholeBuffers, LeastIs
  <2>3. k <= m /\ m <= Len(u)
    <3>1. PICK q \in Nat : q = BufferSize * ((k + BufferSize - 1) \div BufferSize) /\ q >= k
      BY WholeBuffers
    <3> QED BY <1>6, <2>1, <2>2, <3>1 DEF Least
  <2>4. Len(u) = Len(disk) - y
    BY <1>5, <1>6, <2>1 DEF Remains
  <2>5. PICK b : b = SubSeq(u, k + 1, m)
    OBVIOUS
  <2>6. /\ SubSeq(u, k + 1, m) \in Seq(Bytes)
        /\ Len(SubSeq(u, k + 1, m)) = IF k + 1 <= m THEN m - (k + 1) + 1 ELSE 0
        /\ \A i \in 1 .. m - (k + 1) + 1 : SubSeq(u, k + 1, m)[i] = u[k + 1 + i - 1]
    <3>1. \A i \in 1 .. Len(u) : u[i] \in Bytes
      BY <1>5, LenProperties
    <3>2. k + 1 \in Int /\ m \in Int /\ \A i \in k + 1 .. m : u[i] \in Bytes
      BY <1>6, <2>3, <3>1
    <3> QED BY <3>2, SubSeqProperties
  <2>7. Len(b) = m - k
    BY <2>3, <2>5, <2>6
  <2>8. ASSUME NEW i \in 1 .. Len(b) PROVE b[i] = disk[((y + m) - Len(b)) + i]
    <3>1. i \in 1 .. m - (k + 1) + 1 /\ k + 1 + i - 1 = k + i
      BY <2>7
    <3>2. b[i] = u[k + i]
      BY <2>5, <2>6, <3>1
    <3>3. k + i \in 1 .. Len(u) /\ ((y + m) - Len(b)) + i = y + (k + i)
      BY <1>6, <2>3, <2>7
    <3> QED BY <1>5, <3>2, <3>3 DEF Remains
  <2>9. InFront(b, y + m)
    BY <1>6, <2>3, <2>4, <2>7, <2>8 DEF InFront
  <2>10. (y + m) - Len(b) = PositionOf(o) + n
    BY <1>6, <1>8, <1>9, <2>1, <2>7
  <2>11. rbuf' = [rbuf EXCEPT ![o] = b] /\ offset' = [offset EXCEPT ![handle[o]] = y + m]
    BY <1>1, <1>2, <1>3, <1>11, <2>1, <2>2, <2>5 DEF Consume
  <2>12. b \in Seq(Bytes) /\ y + m \in Nat
    BY <2>5, <2>6
  <2> QED BY <2>9, <2>10, <2>11, <2>12
<1> QED BY <1>10, <1>11

LEMMA RestIsAhead ==
    ASSUME StreamInv, NEW o \in Objects, opened[o], wbuf[o] = <<>>
    PROVE  /\ Stream!Rest = Ahead(o) /\ Content = disk
           /\ Ahead(o) \in Seq(Bytes) /\ Len(Ahead(o)) \in Nat
<1>1. Content = disk /\ Position = PositionOf(o)
  BY OpenFacts DEF Shows, Overwrite
<1>2. Ahead(o) = Dropped(disk, PositionOf(o))
  BY AheadIsRest
<1>3. disk \in Seq(Bytes) /\ PositionOf(o) \in Nat
  BY OpenFacts
<1>4. Ahead(o) \in Seq(Bytes)
  BY <1>2, <1>3, DroppedSeq
<1> QED BY <1>1, <1>2, <1>4, SameOperators, LenProperties DEF Stream!Rest

LEMMA ReadStep ==
    ASSUME Usual, StreamInv, NEW o \in Objects, NEW n \in Counts, Read(o, n)
    PROVE  StreamInv' /\ Stream!Read(n)
<1>1. opened[o] /\ wbuf[o] = <<>> /\ n \in Nat
  BY DEF Read, MayRead, Usual
<1>2. Stream!Rest = Ahead(o) /\ Content = disk /\ Len(Ahead(o)) \in Nat
  BY <1>1, RestIsAhead
<1>3. PICK m \in 0 .. Len(Ahead(o)) : m = Least(n, Len(Ahead(o)))
  BY <1>1, <1>2, LeastIs
<1>4. Consume(o, m) /\ out' = <<"read", n, SubSeq(Ahead(o), 1, m)>> /\ Keep
  BY <1>3 DEF Read
<1>5. PICK b \in Seq(Bytes), x \in Nat :
         /\ InFront(b, x) /\ x - Len(b) = PositionOf(o) + m
         /\ rbuf' = [rbuf EXCEPT ![o] = b] /\ offset' = [offset EXCEPT ![handle[o]] = x]
  BY <1>1, <1>4, Consumed
<1>6. /\ StreamInv' /\ UNCHANGED <<Content, Pending, Appends, InUse>>
      /\ Position' = Position + m
  <2>1. m \in Nat
    BY <1>2
  <2> QED BY <1>1, <1>4, <1>5, <2>1, MovesOn
<1>7. InUse
  BY <1>1, OpenFacts DEF Shows
<1>8. Stream!Least(n, Len(Stream!Rest)) = m
  BY <1>2, <1>3, SameOperators
<1> QED BY <1>2, <1>4, <1>6, <1>7, <1>8 DEF Stream!Read, Keep

LEMMA LeastNumber ==
    ASSUME NEW T \in SUBSET Nat, T # {} PROVE \E x \in T : \A y \in T : x <= y
<1>1. IsWellFoundedOn({p \in Nat \X Nat : p[1] < p[2]}, Nat)
  BY NatLessThanWellFounded DEF OpToRel
<1>2. PICK x \in T : \A y \in T : ~(<<y, x>> \in {p \in Nat \X Nat : p[1] < p[2]})
  BY <1>1, WFMin
<1>3. ASSUME NEW y \in T PROVE x <= y
  <2>1. x \in Nat /\ y \in Nat /\ <<y, x>> \in Nat \X Nat
    OBVIOUS
  <2> QED BY <1>2, <2>1
<1> QED BY <1>3

LEMMA LineLengthIs == ASSUME NEW S, NEW s \in Seq(S) PROVE LineLength(s) \in 0 .. Len(s)
<1>1. Len(s) \in Nat /\ DOMAIN s = 1 .. Len(s)
  BY LenProperties
<1>2. CASE \E i \in DOMAIN s : s[i] = Newline
  <2>1. {i \in DOMAIN s : s[i] = Newline} \in SUBSET Nat
    BY <1>1
  <2>2. PICK i \in {j \in DOMAIN s : s[j] = Newline} : \A l \in {j \in DOMAIN s : s[j] = Newline} : i <= l
    BY <1>2, <2>1, LeastNumber
  <2>3. i \in DOMAIN s /\ s[i] = Newline /\ \A j \in 1 .. i - 1 : s[j] # Newline
    BY <1>1, <2>2
  <2>4. \E e \in DOMAIN s : s[e] = Newline /\ \A j \in 1 .. e - 1 : s[j] # Newline
    BY <2>3
  <2>5. LineLength(s) \in DOMAIN s
    BY <1>2, <2>4 DEF LineLength
  <2> QED BY <1>1, <2>5
<1>3. CASE ~\E i \in DOMAIN s : s[i] = Newline
  BY <1>1, <1>3 DEF LineLength
<1> QED BY <1>2, <1>3

LEMMA ReadLineStep ==
    ASSUME Usual, StreamInv, NEW o \in Objects, ReadLine(o)
    PROVE  StreamInv' /\ Stream!ReadLine
<1>1. opened[o] /\ wbuf[o] = <<>>
  BY DEF ReadLine, MayRead, Usual
<1>2. Stream!Rest = Ahead(o) /\ Content = disk /\ Ahead(o) \in Seq(Bytes)
  BY <1>1, RestIsAhead
<1>3. PICK m \in 0 .. Len(Ahead(o)) : m = LineLength(Ahead(o))
  BY <1>2, LineLengthIs
<1>4. Consume(o, m) /\ out' = <<"line", Text(SubSeq(Ahead(o), 1, m)), m > 0>> /\ Keep
  BY <1>3 DEF ReadLine
<1>5. PICK b \in Seq(Bytes), x \in Nat :
         /\ InFront(b, x) /\ x - Len(b) = PositionOf(o) + m
         /\ rbuf' = [rbuf EXCEPT ![o] = b] /\ offset' = [offset EXCEPT ![handle[o]] = x]
  BY <1>1, <1>4, Consumed
<1>6. m \in Nat
  BY <1>2, LenProperties
<1>7. /\ StreamInv' /\ UNCHANGED <<Content, Pending, Appends, InUse>>
      /\ Position' = Position + m
  BY <1>1, <1>4, <1>5, <1>6, MovesOn
<1>8. InUse
  BY <1>1, OpenFacts DEF Shows
<1>9. Stream!LineLength(Stream!Rest) = m /\ Stream!Text(SubSeq(Stream!Rest, 1, m)) = Text(SubSeq(Ahead(o), 1, m))
  BY <1>2, <1>3, SameOperators
<1> QED BY <1>4, <1>7, <1>8, <1>9 DEF Stream!ReadLine, Keep

LEMMA PrefetchStep ==
    ASSUME Usual, StreamInv, NEW o \in Objects, Prefetch(o)
    PROVE  StreamInv' /\ Stream!Look
<1>1. opened[o] /\ wbuf[o] = <<>>
  BY DEF Prefetch, MayRead, Usual
<1>2. /\ Stream!Rest = Ahead(o) /\ Content = disk
      /\ Ahead(o) \in Seq(Bytes)
  BY <1>1, RestIsAhead
<1>3. PICK c \in Seq(Bytes) : c = rbuf[o]
  BY <1>1, OpenFacts
<1>4. PICK y \in Nat : y = offset[handle[o]]
  BY <1>1, OpenFacts
<1>5. PICK u : u = Dropped(disk, y)
  OBVIOUS
<1>6. u \in Seq(Bytes) /\ Remains(u, disk, y) /\ Unread(o) = u
  BY <1>1, <1>4, <1>5, OpenFacts, DroppedSeq DEF Unread, Consistent
<1>7. /\ Len(disk) \in Nat /\ Len(c) \in Nat /\ Len(u) \in Nat /\ (c = <<>> <=> Len(c) = 0)
      /\ (u = <<>> <=> Len(u) = 0) /\ BufferSize \in Nat \ {0}
  BY <1>1, <1>3, <1>6, OpenFacts, LenProperties, EmptySeq DEF Usual
<1>8. PICK m \in Nat : m = IF c = <<>> THEN Least(BufferSize, Len(u)) ELSE 0
  BY <1>7, LeastIs
<1>9. m <= Len(u) /\ (c # <<>> => m = 0) /\ (c = <<>> => (m = 0 <=> u = <<>>))
  BY <1>7, <1>8 DEF Least
<1>10. PICK b : b = c \o SubSeq(u, 1, m)
  OBVIOUS
<1>11. /\ rbuf' = [rbuf EXCEPT ![o] = b] /\ out' = <<"prefetch", rbuf'[o] # <<>>>> /\ Keep
       /\ offset' = [h \in DOMAIN offset |-> offset[h] + (IF h = handle[o] THEN m ELSE 0)]
  BY <1>3, <1>6, <1>8, <1>10 DEF Prefetch
<1>12. /\ SubSeq(u, 1, m) \in Seq(Bytes) /\ Len(SubSeq(u, 1, m)) = m
       /\ \A i \in 1 .. m : SubSeq(u, 1, m)[i] = u[i]
  <2>1. \A i \in 1 .. m : u[i] \in Bytes
    BY <1>6, <1>7, <1>9, LenProperties
  <2>2. /\ SubSeq(u, 1, m) \in Seq(Bytes)
        /\ Len(SubSeq(u, 1, m)) = IF 1 <= m THEN m - 1 + 1 ELSE 0
        /\ \A i \in 1 .. m - 1 + 1 : SubSeq(u, 1, m)[i] = u[1 + i - 1]
    BY <2>1, SubSeqProperties
  <2> QED BY <2>2
<1>13. b \in Seq(Bytes) /\ Len(b) = Len(c) + m
  BY <1>10, <1>12, ConcatProperties
<1>14. InFront(b, y + m)
  <2>1. CASE c = <<>>
    <3>1. b = SubSeq(u, 1, m)
      BY <1>10, <1>12, <2>1, ConcatEmptySeq
    <3>2. ASSUME m # 0 PROVE y + m <= Len(disk)
      BY <1>6, <1>7, <1>9, <3>2 DEF Remains
    <3>3. ASSUME NEW i \in 1 .. Len(b) PROVE b[i] = disk[((y + m) - Len(b)) + i]
      <4>1. i \in 1 .. m /\ i \in 1 .. Len(u) /\ ((y + m) - Len(b)) + i = y + i
        BY <1>7, <1>9, <1>13, <2>1
      <4> QED BY <1>6, <1>12, <3>1, <4>1 DEF Remains
    <3>4. Len(b) = m /\ (b # <<>> => m # 0)
      BY <1>7, <1>13, <2>1, EmptySeq
    <3> QED BY <3>2, <3>3, <3>4 DEF InFront
  <2>2. CASE c # <<>>
    <3>1. m = 0 /\ y + m = y
      BY <1>9, <2>2
    <3>2. SubSeq(u, 1, m) = <<>>
      BY <1>12, <3>1, EmptySeq
    <3>3. b = c
      BY <1>10, <3>2, ConcatEmptySeq
    <3> QED BY <1>1, <1>3, <1>4, <3>1, <3>3, OpenFacts DEF Consistent
  <2> QED BY <2>1, <2>2
<1>15. offset' = [offset EXCEPT ![handle[o]] = y + m]
  <2>1. PICK g : g = handle[o]
    OBVIOUS
  <2>2. offset \in [DOMAIN offset -> Nat] /\ g \in DOMAIN offset
    BY <1>1, <2>1, OpenFacts DEF StreamInv, Stores
  <2>3. \A h \in DOMAIN offset : offset[h] + 0 = offset[h]
    BY <2>2
  <2>4. \A h \in DOMAIN offset : offset[h] + (IF h = g THEN m ELSE 0) = IF h = g THEN y + m ELSE offset[h]
    BY <1>4, <2>1, <2>3
  <2>5. offset' = [h \in DOMAIN offset |-> IF h = g THEN y + m ELSE offset[h]]
    BY <1>11, <2>1, <2>4
  <2> QED BY <2>1, <2>2, <2>5
<1>16. (y + m) - Len(b) = PositionOf(o) + 0
  BY <1>1, <1>3, <1>4, <1>7, <1>13 DEF PositionOf
<1>17. /\ StreamInv' /\ UNCHANGED <<Content, Pending, Appends, InUse>>
       /\ Position' = Position + 0
  <2>1. PICK x \in Nat : x = y + m
    OBVIOUS
  <2>2. InFront(b, x) /\ x - Len(b) = PositionOf(o) + 0 /\ offset' = [offset EXCEPT ![handle[o]] = x]
    BY <1>14, <1>15, <1>16, <2>1
  <2>3. rbuf' = [rbuf EXCEPT ![o] = b] /\ Keep /\ b \in Seq(Bytes) /\ 0 \in Nat
    BY <1>11, <1>13
  <2> QED BY <1>1, <2>2, <2>3, MovesOn
<1>18. Position + 0 = Position /\ InUse
  BY <1>1, OpenFacts DEF Shows
<1>19. rbuf'[o] = b /\ (b # <<>> <=> Ahead(o) # <<>>)
  <2>1. b # <<>> <=> Len(c) + m # 0
    BY <1>13, EmptySeq
  <2>2. Ahead(o) = c \o u /\ Len(c \o u) = Len(c) + Len(u)
    BY <1>3, <1>6, ConcatProperties DEF Ahead
  <2>3. Ahead(o) # <<>> <=> Len(c) + Len(u) # 0
    BY <1>2, <2>2, EmptySeq
  <2>4. rbuf'[o] = b
    BY <1>11 DEF StreamInv, Stores
  <2> QED BY <1>7, <1>9, <2>1, <2>3, <2>4
<1>20. out' = <<"prefetch", Stream!Rest # <<>>>>
  BY <1>2, <1>11, <1>19
<1>21. Stream!Stores
  BY <1>2, <1>11, <1>17 DEF Stream!Stores, Keep
<1> QED BY <1>17, <1>18, <1>20, <1>21 DEF Stream!Look, Keep

-----------------------------------------------------------------------------
(* Writing.                                                                *)

(* The disk m has of the content c what an earlier disk s had, or more.    *)
Partly(m, c, s) ==
    /\ Len(m) <= Len(c)
    /\ \A i \in DOMAIN m : m[i] \in {c[i], IF i \in DOMAIN s THEN s[i] ELSE Zero}

LEMMA StoredPartly ==
    ASSUME NEW S, Zero \in S, NEW s \in Seq(S), NEW p \in Nat, NEW u \in Seq(S), NEW l \in Seq(S),
           NEW m, m = Overwrite(s, p, u), NEW c, c = Overwrite(m, p + Len(u), l)
    PROVE  Partly(m, c, s)
<1>1. Len(s) \in Nat /\ Len(u) \in Nat /\ Len(l) \in Nat /\ p + Len(u) \in Nat /\ DOMAIN s = 1 .. Len(s)
  BY LenProperties
<1>2. m \in Seq(S) /\ Written(m, s, p, u)
  BY Overwritten
<1>3. c \in Seq(S) /\ Written(c, m, p + Len(u), l)
  BY <1>1, <1>2, Overwritten
<1>4. Len(m) \in Nat /\ DOMAIN m = 1 .. Len(m) /\ Len(c) \in Nat
  BY <1>2, <1>3, LenProperties
<1>5. Len(m) <= Len(c)
  BY <1>1, <1>3, <1>4 DEF Written
<1>6. ASSUME NEW i \in DOMAIN m PROVE m[i] \in {c[i], IF i \in DOMAIN s THEN s[i] ELSE Zero}
  <2>0. i \in Nat /\ i >= 1 /\ i <= Len(m) /\ i \in 1 .. Len(c) /\ i \in 1 .. Len(m)
    BY <1>4, <1>5
  <2>1. CASE i \in (p + Len(u)) + 1 .. (p + Len(u)) + Len(l)
    <3>1. i \notin p + 1 .. p + Len(u)
      BY <1>1, <2>0, <2>1
    <3>2. m[i] = IF i <= Len(s) THEN s[i] ELSE Zero
      BY <1>2, <2>0, <3>1 DEF Written
    <3> QED BY <1>1, <2>0, <3>2
  <2>2. CASE i \notin (p + Len(u)) + 1 .. (p + Len(u)) + Len(l)
    BY <1>3, <2>0, <2>2 DEF Written
  <2> QED BY <2>1, <2>2
<1> QED BY <1>5, <1>6 DEF Partly

LEMMA PartlyStores ==
    ASSUME Pending' \/ disk' = Content', Partly(disk', Content', disk) PROVE Stream!Stores
BY DEF Stream!Stores, Partly

(* u goes to the disk and l stays in the buffer, when the user writes e.   *)
Puts(o, u, l, e) ==
    /\ u \o l = wbuf[o] \o e /\ Len(l) <= BufferSize
    /\ disk' = Overwrite(disk, At(o), u)
    /\ offset' = [offset EXCEPT ![handle[o]] = IF u = <<>> THEN offset[handle[o]] ELSE At(o) + Len(u)]
    /\ wbuf' = [wbuf EXCEPT ![o] = l]
    /\ UNCHANGED <<atEnd, handle, opened, rbuf, allocated>>

LEMMA PutsKeeps ==
    ASSUME StreamInv, NEW o \in Objects, opened[o], rbuf[o] = <<>>,
           NEW u \in Seq(Bytes), NEW l \in Seq(Bytes), NEW e, Puts(o, u, l, e)
    PROVE  /\ StreamInv' /\ Shows(o)' /\ Shows(o)
           /\ At(o)' = At(o) + Len(u) /\ wbuf'[o] = l /\ rbuf'[o] = <<>>
           /\ offset'[handle[o]] = IF u = <<>> THEN offset[handle[o]] ELSE At(o) + Len(u)
<1>1. PICK y \in Nat : y = IF u = <<>> THEN offset[handle[o]] ELSE At(o) + Len(u)
  BY OpenFacts, LenProperties
<1>2. /\ disk' = Overwrite(disk, At(o), u) /\ offset' = [offset EXCEPT ![handle[o]] = y]
      /\ wbuf' = [wbuf EXCEPT ![o] = l] /\ Len(l) <= BufferSize
      /\ UNCHANGED <<atEnd, handle, opened, rbuf, allocated>>
  BY <1>1 DEF Puts
<1>3. /\ wbuf'[o] = l /\ offset'[handle[o]] = y /\ DOMAIN offset' = DOMAIN offset
      /\ handle[o] \in DOMAIN offset
  BY <1>2, OpenFacts DEF StreamInv, Stores
<1>4. disk \in Seq(Bytes) /\ At(o) \in Nat /\ Zero \in Bytes
  BY OpenFacts
<1>5. disk' \in Seq(Bytes) /\ Written(disk', disk, At(o), u)
  BY <1>2, <1>4, Overwritten
<1>6. Stores'
  <2>1. offset' \in [DOMAIN offset' -> Nat] /\ atEnd' \subseteq DOMAIN offset'
    BY <1>2, <1>3 DEF StreamInv, Stores
  <2>2. wbuf' \in [Objects -> Seq(Bytes)] /\ \A p \in Objects : Len(wbuf'[p]) <= BufferSize
    BY <1>2 DEF StreamInv, Stores
  <2> QED BY <1>2, <1>5, <2>1, <2>2 DEF StreamInv, Stores
<1>7. Consistent(o)'
  BY <1>2, OpenFacts DEF Consistent, InFront
<1>8. StreamInv' /\ Shows(o)'
  BY <1>2, <1>3, <1>6, <1>7, KeepsInv
<1>9. At(o)' = At(o) + Len(u)
  <2>1. Len(u) \in Nat /\ (u = <<>> <=> Len(u) = 0) /\ Len(disk) \in Nat /\ offset[handle[o]] \in Nat
    BY OpenFacts, LenProperties, EmptySeq
  <2>2. CASE handle[o] \in atEnd
    <3>1. At(o) = Len(disk) /\ At(o)' = Len(disk')
      BY <1>2, <2>2 DEF At
    <3>2. Len(disk') = IF Len(u) # 0 /\ Len(disk) < At(o) + Len(u) THEN At(o) + Len(u) ELSE Len(disk)
      BY <1>5 DEF Written
    <3>3. Len(disk') = Len(disk) + Len(u)
      BY <2>1, <3>1, <3>2
    <3> QED BY <3>1, <3>3
  <2>3. CASE handle[o] \notin atEnd
    BY <1>1, <1>2, <1>3, <2>1, <2>3 DEF At
  <2> QED BY <2>2, <2>3
<1> QED BY <1>1, <1>2, <1>3, <1>8, <1>9, OpenFacts

(* Where the next byte goes: the end of the file, or the position.         *)
Target(o) == At(o) + Len(wbuf[o])

LEMMA TargetIs ==
    ASSUME StreamInv, NEW o \in Objects, opened[o], rbuf[o] = <<>>
    PROVE  Target(o) = (IF Appends THEN Len(Content) ELSE Position) /\ Target(o) \in Nat
<1>1. /\ Len(disk) \in Nat /\ Len(wbuf[o]) \in Nat /\ offset[handle[o]] \in Nat /\ At(o) \in Nat
      /\ (wbuf[o] = <<>> <=> Len(wbuf[o]) = 0) /\ Shows(o) /\ Len(rbuf[o]) = 0
      /\ disk \in Seq(Bytes) /\ wbuf[o] \in Seq(Bytes) /\ Zero \in Bytes
  BY OpenFacts
<1>2. CASE Appends
  <2>1. At(o) = Len(disk)
    BY <1>1, <1>2 DEF Shows, At
  <2>2. Written(Content, disk, At(o), wbuf[o])
    BY <1>1, Overwritten DEF Shows
  <2> QED BY <1>1, <1>2, <2>1, <2>2 DEF Written, Target
<1>3. CASE ~Appends
  <2>1. At(o) = offset[handle[o]]
    BY <1>1, <1>3 DEF Shows, At
  <2> QED BY <1>1, <1>3, <2>1 DEF Shows, PositionOf, Target
<1> QED BY <1>2, <1>3

(* A write moves the position by what it took, and stores in order.        *)
LEMMA PutsWrites ==
    ASSUME StreamInv, NEW o \in Objects, opened[o], rbuf[o] = <<>>, Zero \in Bytes,
           NEW u \in Seq(Bytes), NEW l \in Seq(Bytes), NEW e \in Seq(Bytes), Puts(o, u, l, e)
    PROVE  /\ StreamInv' /\ InUse /\ UNCHANGED <<InUse, Appends>> /\ Stream!Stores
           /\ Content' = Overwrite(Content, IF Appends THEN Len(Content) ELSE Position, e)
           /\ Position' = IF e = <<>> THEN Position
                          ELSE (IF Appends THEN Len(Content) ELSE Position) + Len(e)
<1>1. /\ StreamInv' /\ Shows(o)' /\ Shows(o)
      /\ At(o)' = At(o) + Len(u) /\ wbuf'[o] = l /\ rbuf'[o] = <<>>
      /\ offset'[handle[o]] = IF u = <<>> THEN offset[handle[o]] ELSE At(o) + Len(u)
  BY PutsKeeps
<1>2. /\ disk' = Overwrite(disk, At(o), u) /\ u \o l = wbuf[o] \o e
      /\ UNCHANGED <<atEnd, handle, opened, rbuf, allocated>>
  BY DEF Puts
<1>3. PICK p \in Nat : p = At(o)
  BY OpenFacts
<1>4. PICK w \in Seq(Bytes) : w = wbuf[o]
  BY OpenFacts
<1>5. disk \in Seq(Bytes) /\ Len(w) \in Nat /\ Len(u) \in Nat /\ Len(l) \in Nat /\ Len(e) \in Nat
  BY OpenFacts, LenProperties
<1>6. Content' = Overwrite(disk', p + Len(u), l) /\ Content = Overwrite(disk, p, w)
  BY <1>1, <1>3, <1>4 DEF Shows
<1>7. Target(o) = p + Len(w) /\ Target(o) = (IF Appends THEN Len(Content) ELSE Position)
  BY <1>3, <1>4, TargetIs DEF Target
<1>8. Content' = Overwrite(Content, Target(o), e)
  <2>0. disk \in Seq(Bytes) /\ p \in Nat /\ w \in Seq(Bytes)
    BY <1>3, <1>4, <1>5
  <2>1. PICK c \in Seq(Bytes) : Joins(c, u, l) /\ Joins(c, w, e)
    BY <1>2, <1>4, ConcatProperties DEF Joins
  <2>2. Overwrite(disk', p + Len(u), l) = Overwrite(disk, p, c)
    BY <1>2, <1>3, <2>0, <2>1, OverwriteTwice
  <2>3. Overwrite(Content, p + Len(w), e) = Overwrite(disk, p, c)
    BY <1>6, <2>0, <2>1, OverwriteTwice
  <2> QED BY <1>2, <1>3, <1>4, <1>6, <1>7, <2>2, <2>3
<1>9. Len(u) + Len(l) = Len(w) + Len(e)
  <2>1. Len(u \o l) = Len(u) + Len(l) /\ Len(w \o e) = Len(w) + Len(e)
    BY ConcatProperties
  <2> QED BY <1>2, <1>4, <2>1
<1>10. /\ (u = <<>> <=> Len(u) = 0) /\ (l = <<>> <=> Len(l) = 0)
       /\ (w = <<>> <=> Len(w) = 0) /\ (e = <<>> <=> Len(e) = 0)
  BY EmptySeq
<1>11. Position' = IF e = <<>> THEN Position ELSE Target(o) + Len(e)
  <2>1. offset[handle[o]] \in Nat /\ Len(<<>>) = 0
    BY OpenFacts
  <2>2. Position = IF w = <<>> THEN offset[handle[o]] ELSE p + Len(w)
    BY <1>1, <1>3, <1>4, <2>1 DEF Shows, PositionOf
  <2>3. Position' = PositionOf(o)'
    BY <1>1 DEF Shows
  <2>4. PositionOf(o)' = IF wbuf'[o] = <<>> THEN offset'[handle'[o]] - Len(rbuf'[o]) ELSE At(o)' + Len(wbuf'[o])
    BY DEF PositionOf
  <2>5. PositionOf(o)' = IF l = <<>> THEN offset'[handle[o]] - 0 ELSE (p + Len(u)) + Len(l)
    BY <1>1, <1>2, <1>3, <2>1, <2>4
  <2>6. offset'[handle[o]] = IF u = <<>> THEN offset[handle[o]] ELSE p + Len(u)
    BY <1>1, <1>3
  <2>7. p = offset[handle[o]] \/ Appends
    BY <1>1, <1>3 DEF At, Shows
  <2>8. CASE l = <<>> /\ u = <<>>
    BY <1>5, <1>9, <1>10, <2>1, <2>2, <2>3, <2>5, <2>6, <2>8
  <2>9. CASE l = <<>> /\ u # <<>>
    <3>1. Position' = p + Len(u)
      BY <1>3, <1>5, <2>3, <2>5, <2>6, <2>9
    <3>2. e = <<>> => Position = p + Len(w) /\ Len(u) = Len(w)
      BY <1>5, <1>9, <1>10, <2>2, <2>9
    <3>3. p + Len(u) = Target(o) + Len(e)
      <4>1. Len(l) = 0 /\ Target(o) = p + Len(w)
        BY <1>7, <1>10, <2>9
      <4>2. Len(u) = Len(w) + Len(e)
        BY <1>5, <1>9, <4>1
      <4> QED BY <1>3, <1>5, <4>1, <4>2
    <3> QED BY <1>5, <3>1, <3>2, <3>3
  <2>10. CASE l # <<>>
    <3>1. Position' = (p + Len(u)) + Len(l)
      BY <2>3, <2>5, <2>10
    <3>2. e = <<>> => Position = p + Len(w) /\ Len(u) + Len(l) = Len(w)
      BY <1>5, <1>9, <1>10, <2>2, <2>10
    <3>3. (p + Len(u)) + Len(l) = Target(o) + Len(e)
      BY <1>3, <1>5, <1>7, <1>9, SMTT(30)
    <3>4. (p + Len(u)) + Len(l) = p + (Len(u) + Len(l))
      BY <1>3, <1>5
    <3> QED BY <3>1, <3>2, <3>3, <3>4
  <2> QED BY <2>8, <2>9, <2>10
<1>12. Stream!Stores
  <2>1. Pending' \/ disk' = Content'
    BY <1>1, <1>6 DEF Shows, Overwrite
  <2>2. Partly(disk', Content', disk)
    BY <1>2, <1>3, <1>5, <1>6, StoredPartly
  <2> QED BY <2>1, <2>2, PartlyStores
<1>13. InUse /\ UNCHANGED <<InUse, Appends>>
  BY <1>1, <1>2 DEF Shows
<1> QED BY <1>1, <1>7, <1>8, <1>11, <1>12, <1>13

-----------------------------------------------------------------------------
(* Flushing.                                                               *)

LEMMA Untouched ==
    ASSUME StreamInv, NEW o \in Objects, opened[o],
           UNCHANGED <<disk, offset, atEnd, handle, opened, rbuf, wbuf, allocated>>
    PROVE  /\ StreamInv' /\ InUse /\ Stream!Stores
           /\ UNCHANGED <<Content, Pending, Appends, InUse, Position>>
<1>1. Stores' /\ Consistent(o)'
  BY OpenFacts DEF StreamInv, Stores, Consistent, InFront
<1>2. StreamInv' /\ Shows(o)' /\ Shows(o)
  BY <1>1, OpenFacts, KeepsInv
<1>3. InUse /\ UNCHANGED <<Content, Pending, Appends, InUse, Position>>
  BY <1>2 DEF Shows, At, PositionOf
<1>4. Pending' \/ disk' = Content'
  BY <1>2 DEF Shows, Overwrite
<1>5. Partly(disk', Content', disk)
  <2>1. /\ disk \in Seq(Bytes) /\ wbuf[o] \in Seq(Bytes) /\ Zero \in Bytes /\ At(o) \in Nat
        /\ Len(disk) \in Nat /\ DOMAIN disk = 1 .. Len(disk)
    BY OpenFacts, LenProperties
  <2>2. Content' = Overwrite(disk, At(o), wbuf[o])
    BY <1>2, <1>3 DEF Shows
  <2>3. Len(disk) <= Len(Content')
    <3>1. Written(Content', disk, At(o), wbuf[o])
      BY <2>1, <2>2, Overwritten
    <3>2. Len(wbuf[o]) \in Nat
      BY OpenFacts
    <3> QED BY <2>1, <3>1, <3>2 DEF Written
  <2> QED BY <2>1, <2>3 DEF Partly
<1> QED BY <1>2, <1>3, <1>4, <1>5, PartlyStores

(* The write buffer reaches the disk, the kernel's offset becomes x, and   *)
(* the read buffer b.                                                      *)
LEMMA Flushed ==
    ASSUME Usual, StreamInv, NEW o \in Objects, opened[o], NEW x \in Nat, NEW b,
           b = <<>> \/ (b = rbuf[o] /\ wbuf[o] = <<>> /\ x = offset[handle[o]]),
           disk' = Overwrite(disk, At(o), wbuf[o]),
           offset' = [offset EXCEPT ![handle[o]] = x],
           wbuf' = [wbuf EXCEPT ![o] = <<>>], rbuf' = [rbuf EXCEPT ![o] = b],
           UNCHANGED <<atEnd, handle, opened, allocated>>
    PROVE  /\ StreamInv' /\ InUse /\ UNCHANGED <<Content, InUse, Appends>> /\ ~Pending'
           /\ disk' = Content /\ Stream!Stores /\ Position' = x - Len(b)
<1>1. /\ disk \in Seq(Bytes) /\ wbuf[o] \in Seq(Bytes) /\ rbuf[o] \in Seq(Bytes)
      /\ Zero \in Bytes /\ At(o) \in Nat /\ handle[o] \in DOMAIN offset
  BY OpenFacts
<1>2. b \in Seq(Bytes) /\ <<>> \in Seq(Bytes) /\ Len(<<>>) = 0
  BY <1>1, EmptySeq
<1>3. disk' \in Seq(Bytes)
  BY <1>1, Overwritten
<1>4. /\ wbuf'[o] = <<>> /\ rbuf'[o] = b /\ offset'[handle[o]] = x
      /\ DOMAIN offset' = DOMAIN offset
  BY <1>1, <1>2 DEF StreamInv, Stores
<1>5. Stores'
  <2>1. offset' \in [DOMAIN offset' -> Nat] /\ atEnd' \subseteq DOMAIN offset'
    BY <1>4 DEF StreamInv, Stores
  <2>2. BufferSize \in Nat
    BY DEF Usual
  <2>3. wbuf' \in [Objects -> Seq(Bytes)] /\ \A p \in Objects : Len(wbuf'[p]) <= BufferSize
    BY <1>2, <2>2 DEF StreamInv, Stores
  <2> QED BY <1>2, <1>3, <2>1, <2>3 DEF StreamInv, Stores
<1>6. Consistent(o)'
  <2>1. InFront(rbuf[o], offset[handle[o]])'
    <3>1. CASE b = <<>>
      BY <1>4, <3>1 DEF InFront
    <3>2. CASE b # <<>>
      <4>1. b = rbuf[o] /\ x = offset[handle[o]] /\ disk' = disk
        BY <3>2 DEF Overwrite
      <4> QED BY <1>4, <4>1, OpenFacts DEF InFront, Consistent
    <3> QED BY <3>1, <3>2
  <2> QED BY <1>4, <2>1, OpenFacts DEF Consistent
<1>7. StreamInv' /\ Shows(o)' /\ Shows(o)
  BY <1>4, <1>5, <1>6, OpenFacts, KeepsInv
<1>8. Content' = disk' /\ Content = disk' /\ ~Pending'
  BY <1>4, <1>7 DEF Shows, Overwrite
<1>9. Position' = x - Len(b)
  BY <1>4, <1>7 DEF Shows, PositionOf
<1>10. Partly(disk', Content', disk)
  <2>1. Len(disk') \in Nat
    BY <1>3, LenProperties
  <2> QED BY <1>8, <2>1 DEF Partly
<1> QED BY <1>7, <1>8, <1>9, <1>10, PartlyStores DEF Shows

(* The two ends of a flush.                                                *)
Went(o, r) ==
    /\ r.ok = TRUE /\ r.disk = Overwrite(disk, At(o), wbuf[o]) /\ r.left = <<>>
    /\ r.at \in Nat /\ r.at - Len(rbuf[o]) = PositionOf(o)
    /\ wbuf[o] = <<>> => r.at = offset[handle[o]]

Failed(o, r) ==
    /\ r.ok = FALSE /\ wbuf[o] # <<>> /\ r.disk = disk /\ r.left = wbuf[o]
    /\ r.at = offset[handle[o]]

LEMMA FlushEnds ==
    ASSUME Usual, StreamInv, NEW o \in Objects, opened[o], NEW r \in FlushBuffer(o)
    PROVE  (Went(o, r) \/ Failed(o, r)) /\ DOMAIN r = {"ok", "disk", "left", "at", "cost"}
<1>1. r = Stored(o, wbuf[o], <<>>, TRUE) \/ (wbuf[o] # <<>> /\ r = Stored(o, <<>>, wbuf[o], FALSE))
  BY DEF FlushBuffer, Short, Usual
<1>2. DOMAIN r = {"ok", "disk", "left", "at", "cost"}
  BY <1>1 DEF Stored
<1>3. CASE r = Stored(o, wbuf[o], <<>>, TRUE)
  <2>1. /\ r.ok = TRUE /\ r.disk = Overwrite(disk, At(o), wbuf[o]) /\ r.left = <<>>
        /\ r.at = IF wbuf[o] = <<>> THEN offset[handle[o]] ELSE At(o) + Len(wbuf[o])
    BY <1>3 DEF Stored
  <2>2. /\ offset[handle[o]] \in Nat /\ At(o) \in Nat /\ Len(wbuf[o]) \in Nat
        /\ (wbuf[o] # <<>> => Len(rbuf[o]) = 0)
    BY OpenFacts DEF Consistent
  <2> QED BY <1>2, <2>1, <2>2 DEF Went, PositionOf
<1>4. CASE wbuf[o] # <<>> /\ r = Stored(o, <<>>, wbuf[o], FALSE)
  BY <1>2, <1>4 DEF Stored, Failed, Overwrite
<1> QED BY <1>1, <1>2, <1>3, <1>4

(* What a failed flush puts back is what was there.                        *)
LEMMA FailedApplies ==
    ASSUME StreamInv, NEW o \in Objects, opened[o],
           disk' = disk, offset' = [offset EXCEPT ![handle[o]] = offset[handle[o]]],
           wbuf' = [wbuf EXCEPT ![o] = wbuf[o]]
    PROVE  UNCHANGED <<disk, offset, wbuf>>
BY OpenFacts DEF StreamInv, Stores

LEMMA Flushes ==
    ASSUME Usual, StreamInv, NEW o \in Objects, opened[o], NEW r \in FlushBuffer(o),
           disk' = r.disk, offset' = [offset EXCEPT ![handle[o]] = r.at],
           wbuf' = [wbuf EXCEPT ![o] = r.left],
           UNCHANGED <<atEnd, handle, opened, rbuf, allocated>>
    PROVE  /\ StreamInv' /\ InUse /\ Stream!Stores
           /\ UNCHANGED <<Content, InUse, Appends, Position>>
           /\ \/ r.ok = TRUE /\ ~Pending' /\ r.disk = Content
              \/ r.ok = FALSE /\ Pending
<1>1. Went(o, r) \/ Failed(o, r)
  BY FlushEnds
<1>2. CASE Went(o, r)
  <2>1. rbuf' = [rbuf EXCEPT ![o] = rbuf[o]]
    BY DEF StreamInv, Stores
  <2>2. rbuf[o] = <<>> \/ (wbuf[o] = <<>> /\ r.at = offset[handle[o]])
    BY <1>2, OpenFacts DEF Consistent, Went
  <2>3. /\ StreamInv' /\ InUse /\ UNCHANGED <<Content, InUse, Appends>> /\ ~Pending'
        /\ disk' = Content /\ Stream!Stores /\ Position' = r.at - Len(rbuf[o])
    BY <1>2, <2>1, <2>2, Flushed, ZenonT(60) DEF Went
  <2>4. Position' = Position
    BY <1>2, <2>3, OpenFacts DEF Went, Shows
  <2> QED BY <1>2, <2>3, <2>4 DEF Went
<1>3. CASE Failed(o, r)
  <2>1. UNCHANGED <<disk, offset, wbuf>>
    BY <1>3, FailedApplies DEF Failed
  <2>2. /\ StreamInv' /\ InUse /\ Stream!Stores
        /\ UNCHANGED <<Content, Pending, Appends, InUse, Position>>
    BY <2>1, Untouched
  <2>3. Pending
    BY <1>3, OpenFacts DEF Failed, Shows
  <2> QED BY <1>3, <2>2, <2>3 DEF Failed
<1> QED BY <1>1, <1>2, <1>3

LEMMA FlushStep ==
    ASSUME Usual, StreamInv, NEW o \in Objects, Flush(o)
    PROVE  StreamInv' /\ Stream!Flush
<1>1. PICK r \in FlushBuffer(o), synced \in BOOLEAN :
         Apply(o, IF synced THEN r ELSE [r EXCEPT !.cost = 1]) /\ out' = <<"flush", r.ok /\ synced>>
  BY DEF Flush
<1>2. opened[o] /\ UNCHANGED <<atEnd, handle, opened, rbuf, allocated>>
  BY DEF Flush
<1>3. /\ disk' = r.disk /\ offset' = [offset EXCEPT ![handle[o]] = r.at]
      /\ wbuf' = [wbuf EXCEPT ![o] = r.left]
  BY <1>1, <1>2, FlushEnds DEF Apply
<1>4. /\ StreamInv' /\ InUse /\ Stream!Stores /\ UNCHANGED <<Content, InUse, Appends, Position>>
      /\ (r.ok = TRUE /\ ~Pending') \/ r.ok = FALSE
  BY <1>2, <1>3, Flushes
<1>5. (r.ok /\ synced) \in BOOLEAN /\ ((r.ok /\ synced) => ~Pending')
  BY <1>4
<1> QED BY <1>1, <1>4, <1>5 DEF Stream!Flush

LEMMA SizeStep ==
    ASSUME Usual, StreamInv, NEW o \in Objects, Size(o)
    PROVE  StreamInv' /\ Stream!Look
<1>1. PICK r \in FlushBuffer(o) : Apply(o, r) /\ out' = <<"size", IF r.ok THEN Len(r.disk) ELSE 0>>
  BY DEF Size
<1>2. opened[o] /\ UNCHANGED <<atEnd, handle, opened, rbuf, allocated>>
  BY DEF Size
<1>3. /\ disk' = r.disk /\ offset' = [offset EXCEPT ![handle[o]] = r.at]
      /\ wbuf' = [wbuf EXCEPT ![o] = r.left]
  BY <1>1 DEF Apply
<1>4. /\ StreamInv' /\ InUse /\ Stream!Stores /\ UNCHANGED <<Content, InUse, Appends, Position>>
      /\ (r.ok = TRUE /\ r.disk = Content) \/ (r.ok = FALSE /\ Pending)
  BY <1>2, <1>3, Flushes
<1> QED BY <1>1, <1>4 DEF Stream!Look

LEMMA ReadAllStep ==
    ASSUME Usual, StreamInv, NEW o \in Objects, ReadAll(o)
    PROVE  StreamInv' /\ Stream!Look
<1>1. opened[o] /\ rbuf[o] = <<>> /\ UNCHANGED <<atEnd, handle, opened, allocated>>
  BY DEF ReadAll, MayWrite, Usual
<1>2. allocated[o] /\ rbuf = [rbuf EXCEPT ![o] = <<>>]
  BY <1>1, OpenFacts DEF Consistent, StreamInv, Stores
<1>3. PICK r \in FlushBuffer(o) :
         /\ Apply(o, r) /\ UNCHANGED rbuf
         /\ out' = <<"all", IF r.ok /\ r.disk # <<>> THEN r.disk ELSE <<>>>>
  BY <1>2 DEF ReadAll
<1>4. /\ disk' = r.disk /\ offset' = [offset EXCEPT ![handle[o]] = r.at]
      /\ wbuf' = [wbuf EXCEPT ![o] = r.left]
  BY <1>3 DEF Apply
<1>5. /\ StreamInv' /\ InUse /\ Stream!Stores /\ UNCHANGED <<Content, InUse, Appends, Position>>
      /\ (r.ok = TRUE /\ r.disk = Content) \/ (r.ok = FALSE /\ Pending)
  BY <1>1, <1>3, <1>4, Flushes
<1>6. out' = <<"all", Content>> \/ (Pending /\ out' = <<"all", <<>>>>)
  BY <1>3, <1>5
<1> QED BY <1>5, <1>6 DEF Stream!Look

LEMMA TellStep ==
    ASSUME Usual, StreamInv, NEW o \in Objects, Tell(o)
    PROVE  StreamInv' /\ Stream!Look
<1>1. /\ opened[o] /\ wbuf[o] = <<>> /\ rbuf[o] = <<>> /\ out' = <<"tell", offset[handle[o]]>>
      /\ UNCHANGED <<disk, offset, atEnd, handle, opened, rbuf, wbuf, allocated>>
  BY DEF Tell, Settled, MayRead, MayWrite, Keep, Usual
<1>2. /\ StreamInv' /\ InUse /\ Stream!Stores
      /\ UNCHANGED <<Content, Pending, Appends, InUse, Position>>
  BY <1>1, Untouched
<1>3. Position = offset[handle[o]]
  BY <1>1, OpenFacts DEF Shows, PositionOf
<1> QED BY <1>1, <1>2, <1>3 DEF Stream!Look

LEMMA SeekStep ==
    ASSUME Usual, StreamInv, NEW o \in Objects, NEW n \in Distances,
           NEW w \in {"begin", "current", "end"}, Seek(o, w, n)
    PROVE  StreamInv' /\ Stream!Seek(w, n)
<1> DEFINE Base(r) == CASE w = "begin" -> 0 [] w = "current" -> r.at [] w = "end" -> Len(r.disk)
<1> DEFINE Start == CASE w = "begin" -> 0 [] w = "current" -> Position [] w = "end" -> Len(Content)
<1>1. /\ opened[o] /\ (w = "current" => rbuf[o] = <<>>) /\ n \in Int
      /\ UNCHANGED <<atEnd, handle, opened, allocated>>
  BY DEF Seek, MayWrite, Usual
<1>2. PICK r \in FlushBuffer(o) :
         \/ ~r.ok /\ Apply(o, r) /\ UNCHANGED rbuf /\ out' = <<"seek", w, n, FALSE>>
         \/ /\ r.ok /\ (Base(r) + n < 0 => rbuf[o] = <<>>)
            /\ Apply(o, IF Base(r) + n < 0 THEN r ELSE [r EXCEPT !.at = Base(r) + n])
            /\ rbuf' = [rbuf EXCEPT ![o] = <<>>] /\ out' = <<"seek", w, n, Base(r) + n >= 0>>
  BY DEF Seek, MayWrite, Usual
<1>3. (Went(o, r) \/ Failed(o, r)) /\ DOMAIN r = {"ok", "disk", "left", "at", "cost"}
  BY <1>1, FlushEnds
<1>4. CASE Went(o, r)
  <2>0. r.at \in Nat /\ Len(r.disk) \in Nat
    BY <1>1, <1>4, OpenFacts, Overwritten, LenProperties DEF Went
  <2>1. Base(r) \in Nat
    BY <2>0
  <2>2. PICK x \in Int : x = Base(r) + n
    BY <1>1, <2>1
  <2>3. PICK y \in Nat : y = IF x < 0 THEN r.at ELSE x
    BY <2>0
  <2>4. /\ disk' = Overwrite(disk, At(o), wbuf[o]) /\ offset' = [offset EXCEPT ![handle[o]] = y]
        /\ wbuf' = [wbuf EXCEPT ![o] = <<>>] /\ rbuf' = [rbuf EXCEPT ![o] = <<>>]
        /\ out' = <<"seek", w, n, x >= 0>> /\ (x < 0 => rbuf[o] = <<>>)
    <3>1. PICK s : s = IF x < 0 THEN r ELSE [r EXCEPT !.at = x]
      OBVIOUS
    <3>2. s.at = y /\ s.disk = r.disk /\ s.left = r.left
      BY <1>3, <2>3, <3>1
    <3>3. /\ Apply(o, s) /\ rbuf' = [rbuf EXCEPT ![o] = <<>>]
          /\ out' = <<"seek", w, n, x >= 0>> /\ (x < 0 => rbuf[o] = <<>>)
      BY <1>2, <1>4, <2>2, <3>1 DEF Went
    <3> QED BY <1>4, <3>2, <3>3 DEF Apply, Went
  <2>5. /\ StreamInv' /\ InUse /\ UNCHANGED <<Content, InUse, Appends>>
        /\ disk' = Content /\ Stream!Stores /\ Position' = y - Len(<<>>)
    BY <1>1, <2>3, <2>4, Flushed
  <2>6. x = n + Start
    <3>1. r.disk = Content
      BY <1>4, <2>4, <2>5 DEF Went
    <3>2. w = "current" => r.at = Position
      BY <1>1, <1>4, OpenFacts DEF Went, Shows
    <3>3. Base(r) = Start
      BY <3>1, <3>2
    <3> HIDE DEF Base, Start
    <3> QED BY <1>1, <2>1, <2>2, <3>3
  <2>7. x < 0 => Position' = Position
    BY <1>1, <1>4, <2>0, <2>3, <2>4, <2>5, OpenFacts DEF Went, Shows
  <2>8. x >= 0 => Position' = x
    BY <2>3, <2>5
  <2>9. CASE x >= 0
    BY <2>4, <2>5, <2>6, <2>8, <2>9 DEF Stream!Seek
  <2>10. CASE x < 0
    <3>1. out' = <<"seek", w, n, FALSE>>
      <4>1. (x >= 0) = FALSE
        BY <2>10
      <4>2. out' = <<"seek", w, n, x >= 0>>
        BY <2>4
      <4> QED BY <4>1, <4>2
    <3>2. n + Start < 0
      BY <2>6, <2>10
    <3>3. opened[o] /\ InUse
      BY <1>1, <2>5
    <3> QED BY <2>5, <2>7, <2>10, <3>1, <3>2, <3>3 DEF Stream!Seek
  <2> QED BY <2>9, <2>10
<1>5. CASE Failed(o, r)
  <2>1. Apply(o, r) /\ UNCHANGED rbuf /\ out' = <<"seek", w, n, FALSE>>
    BY <1>2, <1>5 DEF Failed
  <2>2. UNCHANGED <<disk, offset, wbuf>>
    BY <1>1, <1>5, <2>1, FailedApplies DEF Failed, Apply
  <2>3. /\ StreamInv' /\ InUse /\ Stream!Stores
        /\ UNCHANGED <<Content, Pending, Appends, InUse, Position>>
    BY <1>1, <2>1, <2>2, Untouched
  <2>4. Pending
    BY <1>1, <1>5, OpenFacts DEF Failed, Shows
  <2> QED BY <2>1, <2>3, <2>4 DEF Stream!Seek
<1> QED BY <1>3, <1>4, <1>5

LEMMA ResizedSeq ==
    ASSUME NEW S, Zero \in S, NEW s \in Seq(S), NEW n \in Nat PROVE Resized(s, n) \in Seq(S)
<1>1. \A i \in DOMAIN s : s[i] \in S
  BY LenProperties
<1>2. [i \in 1 .. n |-> IF i \in DOMAIN s THEN s[i] ELSE Zero] \in [1 .. n -> S]
  BY <1>1
<1> QED BY <1>2, FunctionSeq DEF Resized

LEMMA TruncateStep ==
    ASSUME Usual, StreamInv, NEW o \in Objects, NEW n \in Counts, Truncate(o, n)
    PROVE  StreamInv' /\ Stream!Truncate(n)
<1>1. /\ opened[o] /\ wbuf[o] = <<>> /\ rbuf[o] = <<>> /\ n \in Nat
      /\ UNCHANGED <<offset, atEnd, handle, opened, rbuf, wbuf, allocated>>
  BY DEF Truncate, Settled, MayRead, MayWrite, Usual
<1>2. CASE disk' = Resized(disk, n) /\ out' = <<"truncate", n, TRUE>>
  <2>1. disk' \in Seq(Bytes)
    BY <1>1, <1>2, OpenFacts, ResizedSeq
  <2>2. Stores' /\ Consistent(o)'
    BY <1>1, <2>1, OpenFacts DEF StreamInv, Stores, Consistent, InFront
  <2>3. StreamInv' /\ Shows(o)' /\ Shows(o)
    BY <1>1, <2>2, OpenFacts, KeepsInv
  <2>4. Content = disk /\ Content' = disk' /\ ~Pending'
    BY <1>1, <2>3 DEF Shows, Overwrite
  <2>5. UNCHANGED <<Position, InUse, Appends>> /\ InUse
    BY <1>1, <2>3 DEF Shows, PositionOf
  <2> QED BY <1>2, <2>3, <2>4, <2>5, SameOperators DEF Stream!Truncate
<1>3. CASE disk' = disk /\ out' = <<"truncate", n, FALSE>>
  <2>1. /\ StreamInv' /\ InUse /\ UNCHANGED <<Content, Pending, Appends, InUse, Position>>
    BY <1>1, <1>3, Untouched
  <2> QED BY <1>3, <2>1 DEF Stream!Truncate
<1> QED BY <1>2, <1>3 DEF Truncate

-----------------------------------------------------------------------------
(* A write, cut where the buffer is full.                                  *)

LEMMA Part ==
    ASSUME NEW S, NEW s \in Seq(S), NEW a \in Nat, NEW b \in Nat, a <= b, b <= Len(s)
    PROVE  /\ SubSeq(s, a + 1, b) \in Seq(S) /\ Len(SubSeq(s, a + 1, b)) = b - a
           /\ \A i \in 1 .. b - a : SubSeq(s, a + 1, b)[i] = s[a + i]
<1>1. Len(s) \in Nat /\ \A i \in 1 .. Len(s) : s[i] \in S
  BY LenProperties
<1>2. a + 1 \in Int /\ b \in Int /\ \A i \in a + 1 .. b : s[i] \in S
  BY <1>1
<1>3. /\ SubSeq(s, a + 1, b) \in Seq(S)
      /\ Len(SubSeq(s, a + 1, b)) = IF a + 1 <= b THEN b - (a + 1) + 1 ELSE 0
      /\ \A i \in 1 .. b - (a + 1) + 1 : SubSeq(s, a + 1, b)[i] = s[a + 1 + i - 1]
  BY <1>2, SubSeqProperties
<1>4. ASSUME NEW i \in 1 .. b - a PROVE SubSeq(s, a + 1, b)[i] = s[a + i]
  <2>1. i \in 1 .. b - (a + 1) + 1 /\ a + 1 + i - 1 = a + i
    OBVIOUS
  <2> QED BY <1>3, <2>1
<1> QED BY <1>3, <1>4

LEMMA Prefix ==
    ASSUME NEW S, NEW s \in Seq(S), NEW n \in Nat, n <= Len(s)
    PROVE  /\ SubSeq(s, 1, n) \in Seq(S) /\ Len(SubSeq(s, 1, n)) = n
           /\ \A i \in 1 .. n : SubSeq(s, 1, n)[i] = s[i]
<1>1. 0 + 1 = 1 /\ n - 0 = n /\ 0 <= n /\ \A i \in 1 .. n : 0 + i = i
  OBVIOUS
<1>2. /\ SubSeq(s, 0 + 1, n) \in Seq(S) /\ Len(SubSeq(s, 0 + 1, n)) = n - 0
      /\ \A i \in 1 .. n - 0 : SubSeq(s, 0 + 1, n)[i] = s[0 + i]
  BY <1>1, Part
<1> QED BY <1>1, <1>2

LEMMA WholePrefix == ASSUME NEW S, NEW s \in Seq(S) PROVE SubSeq(s, 1, Len(s)) = s
<1>1. Len(s) \in Nat
  BY LenProperties
<1>2. PICK r : r = SubSeq(s, 1, Len(s))
  OBVIOUS
<1>3. r \in Seq(S) /\ Len(r) = Len(s) /\ \A i \in 1 .. Len(s) : r[i] = s[i]
  BY <1>1, <1>2, Prefix
<1>4. r = s
  BY <1>3, SeqEqual
<1> QED BY <1>2, <1>4

(* The first b bytes z of s, cut after a into x and y.                     *)
Cuts(s, a, b, x, y, z) ==
    x = SubSeq(s, 1, a) /\ y = SubSeq(s, a + 1, b) /\ z = SubSeq(s, 1, b)

LEMMA PrefixJoins ==
    ASSUME NEW S, NEW s \in Seq(S), NEW a \in Nat, NEW b \in Nat, a <= b, b <= Len(s),
           NEW x, NEW y, NEW z, Cuts(s, a, b, x, y, z)
    PROVE  Joins(z, x, y) /\ x \in Seq(S) /\ y \in Seq(S) /\ z \in Seq(S)
           /\ Len(x) = a /\ Len(y) = b - a /\ Len(z) = b
<1>1. Len(s) \in Nat
  BY LenProperties
<1>2. x \in Seq(S) /\ Len(x) = a /\ \A i \in 1 .. a : x[i] = s[i]
  BY <1>1, Prefix DEF Cuts
<1>3. y \in Seq(S) /\ Len(y) = b - a /\ \A i \in 1 .. b - a : y[i] = s[a + i]
  BY Part DEF Cuts
<1>4. z \in Seq(S) /\ Len(z) = b /\ \A i \in 1 .. b : z[i] = s[i]
  BY Prefix DEF Cuts
<1>5. PICK c : c = x \o y
  OBVIOUS
<1>6. /\ c \in Seq(S) /\ Len(c) = Len(x) + Len(y)
      /\ \A i \in 1 .. Len(x) + Len(y) : c[i] = IF i <= Len(x) THEN x[i] ELSE y[i - Len(x)]
  BY <1>2, <1>3, <1>5, ConcatProperties
<1>7. Len(c) = b
  BY <1>2, <1>3, <1>6
<1>8. ASSUME NEW i \in 1 .. b PROVE c[i] = z[i]
  <2>1. c[i] = IF i <= a THEN x[i] ELSE y[i - a]
    BY <1>2, <1>6, <1>7
  <2>2. CASE i <= a
    BY <1>2, <1>4, <2>1, <2>2
  <2>3. CASE ~(i <= a)
    <3>1. i - a \in 1 .. b - a /\ a + (i - a) = i
      BY <2>3
    <3> QED BY <1>3, <1>4, <2>1, <2>3, <3>1
  <2> QED BY <2>2, <2>3
<1>9. c = z
  BY <1>4, <1>6, <1>7, <1>8, SeqEqual
<1> QED BY <1>2, <1>3, <1>4, <1>5, <1>9 DEF Joins

(* A prefix that reaches into the second part.                             *)
LEMMA PrefixOfJoin ==
    ASSUME NEW S, NEW w \in Seq(S), NEW d \in Seq(S), NEW s, Joins(s, w, d),
           NEW m \in Nat, Len(w) <= m, m <= Len(w) + Len(d),
           NEW z, z = SubSeq(s, 1, m), NEW e, e = SubSeq(d, 1, m - Len(w))
    PROVE  Joins(z, w, e) /\ e \in Seq(S)
<1>1. Len(w) \in Nat /\ Len(d) \in Nat /\ m - Len(w) \in Nat /\ m - Len(w) <= Len(d)
  BY LenProperties
<1>2. /\ s \in Seq(S) /\ Len(s) = Len(w) + Len(d)
      /\ \A i \in 1 .. Len(w) + Len(d) : s[i] = IF i <= Len(w) THEN w[i] ELSE d[i - Len(w)]
  BY ConcatProperties DEF Joins
<1>3. z \in Seq(S) /\ Len(z) = m /\ \A i \in 1 .. m : z[i] = s[i]
  BY <1>2, Prefix
<1>4. e \in Seq(S) /\ Len(e) = m - Len(w) /\ \A i \in 1 .. m - Len(w) : e[i] = d[i]
  BY <1>1, Prefix
<1>5. PICK c : c = w \o e
  OBVIOUS
<1>6. /\ c \in Seq(S) /\ Len(c) = Len(w) + Len(e)
      /\ \A i \in 1 .. Len(w) + Len(e) : c[i] = IF i <= Len(w) THEN w[i] ELSE e[i - Len(w)]
  BY <1>4, <1>5, ConcatProperties
<1>7. Len(c) = m
  BY <1>1, <1>4, <1>6
<1>8. ASSUME NEW i \in 1 .. m PROVE c[i] = z[i]
  <2>1. i \in 1 .. Len(w) + Len(d) /\ i \in 1 .. Len(w) + Len(e)
    BY <1>1, <1>4
  <2>2. CASE i <= Len(w)
    BY <1>2, <1>3, <1>6, <2>1, <2>2
  <2>3. CASE ~(i <= Len(w))
    <3>1. i - Len(w) \in 1 .. m - Len(w)
      BY <1>1, <2>3
    <3> QED BY <1>2, <1>3, <1>4, <1>6, <2>1, <2>3, <3>1
  <2> QED BY <2>2, <2>3
<1>9. c = z
  BY <1>3, <1>6, <1>7, <1>8, SeqEqual
<1> QED BY <1>4, <1>5, <1>9 DEF Joins

(* The call takes the first n bytes of d.                                  *)
LEMMA Takes ==
    ASSUME StreamInv, NEW o \in Objects, opened[o], rbuf[o] = <<>>,
           NEW d \in Seq(Bytes), NEW n \in 0 .. Len(d), NEW e, e = SubSeq(d, 1, n),
           NEW u \in Seq(Bytes), NEW l \in Seq(Bytes), Puts(o, u, l, e), out' = <<"write", d, n>>
    PROVE  StreamInv' /\ Stream!Write(d)
<1>1. Len(d) \in Nat /\ n \in Nat /\ n <= Len(d)
  BY LenProperties
<1>2. e \in Seq(Bytes) /\ Len(e) = n
  BY <1>1, Prefix
<1>3. e = <<>> <=> n = 0
  BY <1>2, EmptySeq
<1>4. /\ StreamInv' /\ InUse /\ UNCHANGED <<InUse, Appends>> /\ Stream!Stores
      /\ Content' = Overwrite(Content, IF Appends THEN Len(Content) ELSE Position, e)
      /\ Position' = IF e = <<>> THEN Position
                     ELSE (IF Appends THEN Len(Content) ELSE Position) + Len(e)
  <2>1. Zero \in Bytes
    BY OpenFacts
  <2> QED BY <1>2, <2>1, PutsWrites
<1>5. Content' = Stream!Overwrite(Content, IF Appends THEN Len(Content) ELSE Position, SubSeq(d, 1, n))
  BY <1>4, SameOperators
<1>6. Position' = IF n = 0 THEN Position ELSE (IF Appends THEN Len(Content) ELSE Position) + n
  BY <1>2, <1>3, <1>4
<1> QED BY <1>4, <1>5, <1>6 DEF Stream!Write

(* A flush that fails before d is looked at.                               *)
LEMMA TakesNone ==
    ASSUME StreamInv, NEW o \in Objects, opened[o], NEW d \in Seq(Bytes),
           UNCHANGED <<disk, offset, atEnd, handle, opened, rbuf, wbuf, allocated>>,
           out' = <<"write", d, 0>>
    PROVE  StreamInv' /\ Stream!Write(d)
<1>1. /\ StreamInv' /\ InUse /\ Stream!Stores
      /\ UNCHANGED <<Content, Pending, Appends, InUse, Position>>
  BY Untouched
<1>2. SubSeq(d, 1, 0) = <<>> /\ 0 \in 0 .. Len(d)
  <2>1. Len(d) \in Nat /\ 0 <= Len(d)
    BY LenProperties
  <2>2. SubSeq(d, 1, 0) \in Seq(Bytes) /\ Len(SubSeq(d, 1, 0)) = 0
    BY <2>1, Prefix
  <2> QED BY <2>1, <2>2, EmptySeq
<1>3. \A p : Stream!Overwrite(Content, p, SubSeq(d, 1, 0)) = Content
  BY <1>2 DEF Stream!Overwrite
<1> QED BY <1>1, <1>2, <1>3 DEF Stream!Write

(* How often the buffer is full.                                           *)
LEMMA Buffers ==
    ASSUME Usual, NEW n \in Nat
    PROVE  /\ n \div BufferSize \in Nat /\ (n \div BufferSize) * BufferSize \in Nat
           /\ (n \div BufferSize) * BufferSize <= n
           /\ n - (n \div BufferSize) * BufferSize <= BufferSize
<1>1. BufferSize \in Nat /\ BufferSize > 0
  BY DEF Usual
<1>2. n \div BufferSize \in Nat /\ n % BufferSize \in 0 .. BufferSize - 1
  BY <1>1, SMT
<1>3. n = (BufferSize * (n \div BufferSize)) + (n % BufferSize)
  BY <1>1, SMT
<1>4. PICK q \in Nat : q = n \div BufferSize
  BY <1>2
<1>5. BufferSize * q \in Nat /\ BufferSize * q = q * BufferSize
  BY <1>1, SMT
<1>6. q * BufferSize <= n /\ n - q * BufferSize <= BufferSize
  BY <1>1, <1>2, <1>3, <1>4, <1>5
<1> QED BY <1>2, <1>4, <1>5, <1>6

LEMMA BuffersUpTo ==
    ASSUME Usual, NEW n \in Nat, NEW k \in 0 .. (n \div BufferSize) - 1
    PROVE  /\ k * BufferSize \in Nat /\ (k + 1) * BufferSize \in Nat
           /\ (k + 1) * BufferSize = k * BufferSize + BufferSize /\ (k + 1) * BufferSize <= n
<1>1. BufferSize \in Nat
  BY DEF Usual
<1>2. PICK q \in Nat : q = n \div BufferSize /\ q * BufferSize <= n
  BY Buffers
<1>3. k \in Nat /\ k + 1 <= q
  BY <1>2
<1>4. (k + 1) * BufferSize = k * BufferSize + BufferSize /\ k * BufferSize \in Nat
  BY <1>1, <1>3, SMT
<1>5. (k + 1) * BufferSize <= q * BufferSize
  BY <1>1, <1>2, <1>3, SMT
<1> QED BY <1>1, <1>2, <1>3, <1>4, <1>5

(* What Apply and Write change, given what a flush would come to.          *)
LEMMA StoredPuts ==
    ASSUME NEW o, NEW u, NEW l, NEW e, NEW ok, u \o l = wbuf[o] \o e, Len(l) <= BufferSize,
           Apply(o, Stored(o, u, l, ok)), UNCHANGED <<atEnd, handle, opened, rbuf, allocated>>
    PROVE  Puts(o, u, l, e)
BY DEF Apply, Stored, Puts

LEMMA DirectStep ==
    ASSUME Usual, StreamInv, NEW o \in Objects, opened[o], rbuf[o] = <<>>,
           NEW d \in Seq(Bytes), WriteDirect(o, d),
           UNCHANGED <<atEnd, handle, opened, rbuf, allocated>>
    PROVE  StreamInv' /\ Stream!Write(d)
<1>1. CASE \E r \in FlushBuffer(o) : ~r.ok /\ Apply(o, r) /\ out' = <<"write", d, 0>>
  <2>1. PICK r \in FlushBuffer(o) : ~r.ok /\ Apply(o, r) /\ out' = <<"write", d, 0>>
    BY <1>1
  <2>2. Failed(o, r)
    BY <2>1, FlushEnds DEF Went
  <2>3. UNCHANGED <<disk, offset, wbuf>>
    BY <2>1, <2>2, FailedApplies DEF Failed, Apply
  <2> QED BY <2>1, <2>3, TakesNone
<1>2. CASE \E n \in 0 .. Len(d) :
             /\ Apply(o, Stored(o, wbuf[o] \o SubSeq(d, 1, n), <<>>, n = Len(d)))
             /\ out' = <<"write", d, n>>
  <2>1. PICK n \in 0 .. Len(d) :
             /\ Apply(o, Stored(o, wbuf[o] \o SubSeq(d, 1, n), <<>>, n = Len(d)))
             /\ out' = <<"write", d, n>>
    BY <1>2
  <2>2. PICK e : e = SubSeq(d, 1, n)
    OBVIOUS
  <2>3. e \in Seq(Bytes) /\ wbuf[o] \in Seq(Bytes) /\ <<>> \in Seq(Bytes)
    <3>1. n \in Nat /\ n <= Len(d)
      BY LenProperties
    <3> QED BY <2>2, <3>1, Prefix, OpenFacts, EmptySeq
  <2>4. PICK u : u = wbuf[o] \o e
    OBVIOUS
  <2>5. u \in Seq(Bytes) /\ u \o <<>> = wbuf[o] \o e
    <3>1. u \in Seq(Bytes)
      BY <2>3, <2>4, ConcatProperties
    <3> QED BY <2>4, <3>1, ConcatEmptySeq
  <2>6. Len(<<>>) <= BufferSize
    BY DEF Usual
  <2>7. Puts(o, u, <<>>, e)
    BY <2>1, <2>2, <2>4, <2>5, <2>6, StoredPuts
  <2> QED BY <2>1, <2>2, <2>3, <2>5, <2>7, Takes
<1> QED BY <1>1, <1>2 DEF WriteDirect

LEMMA BufferedStep ==
    ASSUME Usual, StreamInv, NEW o \in Objects, opened[o], rbuf[o] = <<>>,
           NEW d \in Seq(Bytes), WriteBuffered(o, d),
           UNCHANGED <<atEnd, handle, opened, rbuf, allocated>>
    PROVE  StreamInv' /\ Stream!Write(d)
<1>1. PICK w \in Seq(Bytes) : w = wbuf[o] /\ Len(w) <= BufferSize
  BY OpenFacts DEF StreamInv, Stores
<1>2. PICK all : all = w \o d
  OBVIOUS
<1>3. /\ all \in Seq(Bytes) /\ Len(all) = Len(w) + Len(d) /\ Joins(all, w, d)
      /\ Len(all) \in Nat /\ Len(w) \in Nat /\ Len(d) \in Nat /\ BufferSize \in Nat
  BY <1>2, ConcatProperties, LenProperties DEF Joins, Usual
<1>4. PICK full : full = Len(all) \div BufferSize
  OBVIOUS
<1>5. CASE /\ Apply(o, Stored(o, SubSeq(all, 1, full * BufferSize), Dropped(all, full * BufferSize), TRUE))
           /\ out' = <<"write", d, Len(d)>>
  <2>1. PICK m \in Nat : m = full * BufferSize /\ m <= Len(all) /\ Len(all) - m <= BufferSize
    BY <1>3, <1>4, Buffers
  <2>2. PICK u : u = SubSeq(all, 1, m)
    OBVIOUS
  <2>3. PICK l : l = SubSeq(all, m + 1, Len(all))
    OBVIOUS
  <2>4. all = SubSeq(all, 1, Len(all)) /\ d = SubSeq(d, 1, Len(d))
    BY <1>3, WholePrefix
  <2>5. Joins(all, u, l) /\ u \in Seq(Bytes) /\ l \in Seq(Bytes) /\ Len(l) = Len(all) - m
    <3>1. all \in Seq(Bytes) /\ m \in Nat /\ Len(all) \in Nat /\ m <= Len(all) /\ Len(all) <= Len(all)
      BY <1>3, <2>1
    <3>2. Cuts(all, m, Len(all), u, l, all)
      BY <2>2, <2>3, <2>4 DEF Cuts
    <3> QED BY <3>1, <3>2, PrefixJoins
  <2>6. Puts(o, u, l, d)
    <3>1. u \o l = wbuf[o] \o d /\ Len(l) <= BufferSize
      BY <1>1, <1>2, <2>1, <2>5 DEF Joins
    <3>2. Apply(o, Stored(o, u, l, TRUE))
      BY <1>5, <2>1, <2>2, <2>3 DEF Dropped
    <3> QED BY <3>1, <3>2, StoredPuts
  <2>7. Len(d) \in 0 .. Len(d)
    BY <1>3
  <2> QED BY <1>5, <2>4, <2>5, <2>6, <2>7, Takes
<1>6. ASSUME NEW k \in 0 .. full - 1,
             NEW left, left = SubSeq(all, k * BufferSize + 1, (k + 1) * BufferSize),
             NEW part \in Short(left),
             Apply(o, Stored(o, SubSeq(all, 1, k * BufferSize) \o part, left, FALSE)),
             out' = <<"write", d, (k + 1) * BufferSize - Len(w)>>
      PROVE  StreamInv' /\ Stream!Write(d)
  <2>1. PICK a \in Nat, b \in Nat : /\ a = k * BufferSize /\ b = (k + 1) * BufferSize
                                    /\ b = a + BufferSize /\ b <= Len(all)
    BY <1>3, <1>4, BuffersUpTo
  <2>2. PICK u : u = SubSeq(all, 1, a)
    OBVIOUS
  <2>3. PICK z : z = SubSeq(all, 1, b)
    OBVIOUS
  <2>4. Joins(z, u, left) /\ u \in Seq(Bytes) /\ left \in Seq(Bytes) /\ Len(left) = BufferSize
    <3>1. a <= b /\ left = SubSeq(all, a + 1, b)
      BY <1>3, <1>6, <2>1
    <3>2. Joins(z, u, left) /\ u \in Seq(Bytes) /\ left \in Seq(Bytes) /\ Len(left) = b - a
      <4>1. all \in Seq(Bytes) /\ a \in Nat /\ b \in Nat /\ b <= Len(all)
        BY <1>3, <2>1
      <4>2. Cuts(all, a, b, u, left, z) /\ a <= b
        BY <2>2, <2>3, <3>1 DEF Cuts
      <4> QED BY <4>1, <4>2, PrefixJoins
    <3> QED BY <1>3, <2>1, <3>2, SMTT(30)
  <2>5. PICK e : e = SubSeq(d, 1, b - Len(w))
    OBVIOUS
  <2>6. b - Len(w) \in 0 .. Len(d) /\ Len(w) <= b
    BY <1>1, <1>3, <2>1, SMTT(30)
  <2>7. Joins(z, w, e)
    BY <1>3, <2>1, <2>3, <2>5, <2>6, PrefixOfJoin
  <2>8. u \o part = u
    BY <2>4, ConcatEmptySeq DEF Short, Usual
  <2>9. Puts(o, u, left, e)
    <3>1. u \o left = wbuf[o] \o e /\ Len(left) <= BufferSize
      BY <1>1, <1>3, <2>4, <2>7 DEF Joins
    <3>2. Apply(o, Stored(o, u, left, FALSE))
      BY <1>6, <2>1, <2>2, <2>8
    <3> QED BY <3>1, <3>2, StoredPuts
  <2> QED BY <1>6, <2>1, <2>4, <2>5, <2>6, <2>9, Takes
<1> QED BY <1>1, <1>2, <1>4, <1>5, <1>6 DEF WriteBuffered

LEMMA WriteStep ==
    ASSUME Usual, StreamInv, NEW o \in Objects, NEW d \in Inputs, Write(o, d)
    PROVE  StreamInv' /\ Stream!Write(d)
<1>1. /\ opened[o] /\ rbuf[o] = <<>> /\ d \in Seq(Bytes)
      /\ UNCHANGED <<atEnd, handle, opened, rbuf, allocated>>
  BY DEF Write, MayWrite, Usual
<1>2. WriteDirect(o, d) \/ WriteBuffered(o, d)
  BY DEF Write
<1> QED BY <1>1, <1>2, DirectStep, BufferedStep

-----------------------------------------------------------------------------
(* Opening, closing and moving. That Inv is kept was proved above.         *)

LEMMA Stutters ==
    ASSUME StreamInv, UNCHANGED <<disk, offset, atEnd, handle, opened, rbuf, wbuf, allocated>>
    PROVE  StreamInv' /\ UNCHANGED <<Content, disk, Pending, InUse, Appends, Position>>
<1>1. StreamInv'
  BY DEF StreamInv, Inv, Typed, DescriptorsOwned, Stores, OneOpen, Consistent, InFront
<1>2. UNCHANGED <<InUse, User>>
  BY DEF InUse, User
<1>3. UNCHANGED <<Content, Pending, Appends, Position>>
  BY <1>2 DEF Content, Pending, Appends, Position, PositionOf, At
<1> QED BY <1>1, <1>2, <1>3

LEMMA ClosingEnds ==
    ASSUME Usual, StreamInv, NEW o \in Objects, NEW r \in Closings(o)
    PROVE  /\ r.disk \in {Content, disk} /\ r.disk \in Seq(Bytes)
           /\ r.left \in Seq(Bytes) /\ Len(r.left) <= BufferSize
<1>1. CASE opened[o]
  <2>1. Went(o, r) \/ Failed(o, r)
    BY <1>1, FlushEnds DEF Closings
  <2>2. r.disk \in {Content, disk} /\ r.left \in {<<>>, wbuf[o]}
    BY <1>1, <2>1, OpenFacts DEF Went, Failed, Shows
  <2>3. Content \in Seq(Bytes)
    <3>1. Content = Overwrite(disk, At(o), wbuf[o])
      BY <1>1, OpenFacts DEF Shows
    <3>2. disk \in Seq(Bytes) /\ At(o) \in Nat /\ wbuf[o] \in Seq(Bytes) /\ Zero \in Bytes
      BY <1>1, OpenFacts
    <3> QED BY <3>1, <3>2, Overwritten
  <2>4. <<>> \in Seq(Bytes) /\ Len(<<>>) <= BufferSize
    BY EmptySeq DEF Usual
  <2>5. disk \in Seq(Bytes) /\ wbuf[o] \in Seq(Bytes) /\ Len(wbuf[o]) <= BufferSize
    BY DEF StreamInv, Stores
  <2> QED BY <2>2, <2>3, <2>4, <2>5
<1>2. CASE ~opened[o]
  BY <1>2 DEF Closings, StreamInv, Stores
<1> QED BY <1>1, <1>2

(* The one object closes, and nothing of it is left.                       *)
LEMMA Closes ==
    ASSUME Usual, StreamInv, Inv', NEW o \in Objects, \A p \in Objects : ~opened'[p],
           disk' \in {Content, disk}, disk' \in Seq(Bytes),
           offset' = Others(o), atEnd' = atEnd \ {handle[o]},
           rbuf' \in [Objects -> Seq(Bytes)], wbuf' \in [Objects -> Seq(Bytes)],
           \A p \in Objects : Len(wbuf'[p]) <= BufferSize, allocated' \in [Objects -> BOOLEAN],
           out' \in {out, <<"close">>, <<"open", FALSE>>}
    PROVE  StreamInv' /\ Stream!Close
<1>1. Stores'
  <2>1. \A h \in DOMAIN offset : offset[h] \in Nat
    BY DEF StreamInv, Stores
  <2>2. offset' \in [DOMAIN offset' -> Nat] /\ DOMAIN offset' = DOMAIN offset \ {handle[o]}
    BY <2>1 DEF Others
  <2>3. atEnd' \subseteq DOMAIN offset'
    BY <2>2 DEF StreamInv, Stores
  <2> QED BY <2>2, <2>3 DEF Stores
<1>2. StreamInv'
  BY <1>1 DEF StreamInv, OneOpen
<1>3. ShowsNone'
  BY ClosedShowsNext
<1> QED BY <1>2, <1>3 DEF ShowsNone, Stream!Close

LEMMA CloseStep ==
    ASSUME Usual, StreamInv, Inv', NEW o \in Objects, Close(o)
    PROVE  StreamInv' /\ Stream!Close
<1>1. PICK r \in Closings(o) : disk' = r.disk /\ wbuf' = [wbuf EXCEPT ![o] = r.left]
  BY DEF Close
<1>2. /\ opened[o] /\ offset' = Others(o) /\ atEnd' = atEnd \ {handle[o]}
      /\ opened' = [opened EXCEPT ![o] = FALSE] /\ out' = <<"close">> /\ UNCHANGED <<rbuf, allocated>>
  BY DEF Close
<1>3. /\ r.disk \in {Content, disk} /\ r.disk \in Seq(Bytes)
      /\ r.left \in Seq(Bytes) /\ Len(r.left) <= BufferSize
  BY ClosingEnds
<1>4. \A p \in Objects : ~opened'[p]
  BY <1>2 DEF StreamInv, OneOpen, Inv, Typed
<1>5. wbuf' \in [Objects -> Seq(Bytes)] /\ \A p \in Objects : Len(wbuf'[p]) <= BufferSize
  BY <1>1, <1>3 DEF StreamInv, Stores
<1>6. rbuf' \in [Objects -> Seq(Bytes)] /\ allocated' \in [Objects -> BOOLEAN]
  BY <1>2 DEF StreamInv, Stores
<1> QED BY <1>1, <1>2, <1>3, <1>4, <1>5, <1>6, Closes

LEMMA OpenStep ==
    ASSUME Usual, StreamInv, Inv', NEW o \in Objects, NEW t \in BOOLEAN, NEW a \in BOOLEAN,
           Open(o, t, a)
    PROVE  StreamInv' /\ (Stream!Open \/ Stream!Close)
<1>1. /\ \A p \in Objects \ {o} : ~opened[p]
      /\ rbuf' = [rbuf EXCEPT ![o] = <<>>] /\ wbuf' = [wbuf EXCEPT ![o] = <<>>]
      /\ allocated' = [allocated EXCEPT ![o] = TRUE]
  BY DEF Open, Alone, Usual
<1>2. /\ <<>> \in Seq(Bytes) /\ Len(<<>>) = 0 /\ Len(<<>>) <= BufferSize
  BY EmptySeq DEF Usual
<1>3. /\ rbuf' \in [Objects -> Seq(Bytes)] /\ wbuf' \in [Objects -> Seq(Bytes)]
      /\ allocated' \in [Objects -> BOOLEAN] /\ \A p \in Objects : Len(wbuf'[p]) <= BufferSize
      /\ rbuf'[o] = <<>> /\ wbuf'[o] = <<>> /\ allocated'[o]
  BY <1>1, <1>2 DEF StreamInv, Stores
<1>4. ASSUME NEW r \in Closings(o), NEW h \in Handles \ DOMAIN Others(o),
             disk' = IF t THEN <<>> ELSE r.disk,
             offset' = [x \in DOMAIN Others(o) \cup {h} |->
                          IF x # h THEN offset[x] ELSE IF a THEN Len(disk') ELSE 0],
             atEnd' = (atEnd \ {handle[o]}) \cup (IF a THEN {h} ELSE {}),
             handle' = [handle EXCEPT ![o] = h], opened' = [opened EXCEPT ![o] = TRUE],
             out' = <<"open", TRUE>>
      PROVE  StreamInv' /\ Stream!Open
  <2>1. disk' \in {Content, disk, <<>>} /\ disk' \in Seq(Bytes) /\ Len(disk') \in Nat
    <3>1. disk' \in {Content, disk, <<>>} /\ disk' \in Seq(Bytes)
      BY <1>2, <1>4, ClosingEnds
    <3> QED BY <3>1, LenProperties
  <2>2. /\ handle'[o] = h /\ opened'[o] /\ \A p \in Objects : opened'[p] => p = o
    BY <1>1, <1>4 DEF StreamInv, Inv, Typed
  <2>3. DOMAIN Others(o) = DOMAIN offset \ {handle[o]}
    BY OthersDomain
  <2>4. /\ DOMAIN offset' = DOMAIN Others(o) \cup {h} /\ offset' \in [DOMAIN offset' -> Nat]
        /\ offset'[h] = IF a THEN Len(disk') ELSE 0
    <3>1. \A x \in DOMAIN Others(o) : offset[x] \in Nat
      BY <2>3 DEF StreamInv, Stores
    <3> QED BY <1>4, <2>1, <3>1
  <2>5. atEnd' \subseteq DOMAIN offset' /\ (h \in atEnd' <=> a)
    BY <1>4, <2>3, <2>4 DEF StreamInv, Stores
  <2>6. Stores'
    BY <1>3, <2>1, <2>4, <2>5 DEF Stores
  <2>7. Consistent(o)'
    BY <1>3 DEF Consistent, InFront
  <2>8. OneOpen'
    BY <2>2 DEF OneOpen
  <2>9. StreamInv'
    BY <2>2, <2>6, <2>7, <2>8 DEF StreamInv
  <2>10. Shows(o)'
    BY <2>2, <2>8, OpenShowsNext
  <2>11. Content' = disk' /\ ~Pending'
    BY <1>3, <2>10 DEF Shows, Overwrite
  <2>12. InUse' /\ Appends' = a
    BY <2>2, <2>5, <2>10 DEF Shows
  <2>13. Position' = IF a THEN Len(disk') ELSE 0
    BY <1>2, <1>3, <2>1, <2>2, <2>4, <2>10 DEF Shows, PositionOf
  <2> QED BY <1>4, <2>1, <2>9, <2>11, <2>12, <2>13 DEF Stream!Open
<1>5. ASSUME NEW r \in Closings(o), disk' = r.disk, offset' = Others(o),
             atEnd' = atEnd \ {handle[o]}, opened' = [opened EXCEPT ![o] = FALSE],
             out' = <<"open", FALSE>>
      PROVE  StreamInv' /\ Stream!Close
  <2>1. disk' \in {Content, disk} /\ disk' \in Seq(Bytes)
    BY <1>5, ClosingEnds
  <2>2. \A p \in Objects : ~opened'[p]
    BY <1>1, <1>5 DEF StreamInv, Inv, Typed
  <2> QED BY <1>3, <1>5, <2>1, <2>2, Closes
<1> QED BY <1>4, <1>5 DEF Open

(* A move hands the descriptor on; what p had open is closed. Neither has  *)
(* anything in its buffers.                                                *)
LEMMA MoveStep ==
    ASSUME Usual, StreamInv, Inv', NEW o \in Objects, NEW p \in Objects, Move(o, p)
    PROVE  StreamInv' /\ (Stream!Close \/ UNCHANGED <<Content, disk, Pending, InUse, Appends, Position, out>>)
<1>1. /\ o # p /\ wbuf[o] = <<>> /\ rbuf[o] = <<>> /\ wbuf[p] = <<>> /\ rbuf[p] = <<>> /\ allocated[p]
      /\ offset' = Others(p) /\ atEnd' = atEnd \ {handle[p]}
      /\ handle' = [handle EXCEPT ![p] = handle[o], ![o] = NoHandle]
      /\ opened' = [opened EXCEPT ![p] = opened[o], ![o] = FALSE]
      /\ UNCHANGED <<rbuf, allocated, out>>
  BY DEF Move, MayMove, Settled, MayRead, MayWrite, Usual, Handover
<1>2. PICK r \in Closings(p) : disk' = r.disk /\ wbuf' = [wbuf EXCEPT ![p] = r.left]
  BY DEF Move
<1>3. r.disk = disk /\ r.left = <<>>
  <2>1. CASE opened[p]
    BY <1>1, <2>1, FlushEnds DEF Closings, Went, Failed, Overwrite
  <2>2. CASE ~opened[p]
    BY <1>1, <2>2 DEF Closings
  <2> QED BY <2>1, <2>2
<1>4. disk' = disk /\ wbuf' = wbuf
  BY <1>1, <1>2, <1>3 DEF StreamInv, Stores
<1>5. CASE opened[p]
  <2>1. \A x \in Objects : ~opened'[x]
    BY <1>1, <1>5 DEF StreamInv, OneOpen, Inv, Typed
  <2>2. disk \in Seq(Bytes) /\ \A x \in Objects : Len(wbuf[x]) <= BufferSize
    BY DEF StreamInv, Stores
  <2>3. /\ rbuf \in [Objects -> Seq(Bytes)] /\ wbuf \in [Objects -> Seq(Bytes)]
        /\ allocated \in [Objects -> BOOLEAN]
    BY DEF StreamInv, Stores
  <2> QED BY <1>1, <1>4, <2>1, <2>2, <2>3, Closes
<1>6. CASE ~opened[p]
  <2>1. handle[p] = NoHandle /\ NoHandle \notin DOMAIN offset
    BY <1>6 DEF StreamInv, Inv, DescriptorsOwned
  <2>2. offset' = offset /\ atEnd' = atEnd
    BY <1>1, <2>1 DEF Others, StreamInv, Stores
  <2>3. CASE opened[o]
    <3>1. handle'[p] = handle[o] /\ opened'[p] /\ \A x \in Objects : opened'[x] => x = p
      BY <1>1, <2>3 DEF StreamInv, OneOpen, Inv, Typed
    <3>2. Stores'
      BY <1>1, <1>4, <2>2 DEF StreamInv, Stores
    <3>3. Consistent(p)'
      BY <1>1, <1>4 DEF Consistent, InFront
    <3>4. StreamInv' /\ Shows(p)'
      <4>1. OneOpen'
        BY <3>1 DEF OneOpen
      <4> QED BY <3>1, <3>2, <3>3, <4>1, OpenShowsNext DEF StreamInv
    <3>5. Shows(o)
      BY <2>3, OpenFacts
    <3>6. UNCHANGED <<Content, Pending>>
      BY <1>1, <1>4, <3>4, <3>5 DEF Shows, Overwrite
    <3>7. UNCHANGED <<InUse, Appends, Position>>
      BY <1>1, <1>4, <2>2, <3>1, <3>4, <3>5 DEF Shows, PositionOf
    <3> QED BY <1>1, <1>4, <3>4, <3>6, <3>7
  <2>4. CASE ~opened[o]
    <3>1. handle[o] = NoHandle
      BY <2>4 DEF StreamInv, Inv, DescriptorsOwned
    <3>2. handle' = handle /\ opened' = opened
      BY <1>1, <1>6, <2>1, <2>4, <3>1 DEF StreamInv, Inv, Typed
    <3> QED BY <1>1, <1>4, <2>2, <3>2, Stutters
  <2> QED BY <2>3, <2>4
<1> QED BY <1>5, <1>6

-----------------------------------------------------------------------------

LEMMA StreamStep ==
    ASSUME Usual, StreamInv, Next PROVE StreamInv' /\ [Stream!Next]_(Stream!vars)
<1> USE DEF Stream!Next
<1>1. Inv'
  BY StepKeeps DEF StreamInv, Usual
<1>2. ASSUME NEW o \in Objects, NEW t \in BOOLEAN, NEW a \in BOOLEAN, Open(o, t, a)
      PROVE  StreamInv' /\ Stream!Next
  BY <1>1, <1>2, OpenStep
<1>3. ASSUME NEW o \in Objects, NEW p \in Objects, Move(o, p)
      PROVE  StreamInv' /\ [Stream!Next]_(Stream!vars)
  BY <1>1, <1>3, MoveStep DEF Stream!vars
<1>4. ASSUME NEW o \in Objects, NEW n \in Counts, Read(o, n) \/ Truncate(o, n)
      PROVE  StreamInv' /\ Stream!Next
  BY <1>4, ReadStep, TruncateStep
<1>5. ASSUME NEW o \in Objects, NEW n \in Distances, NEW w \in {"begin", "current", "end"}, Seek(o, w, n)
      PROVE  StreamInv' /\ Stream!Next
  BY <1>5, SeekStep
<1>6. ASSUME NEW o \in Objects, NEW d \in Inputs, Write(o, d)
      PROVE  StreamInv' /\ Stream!Next
  BY <1>6, WriteStep
<1>7. ASSUME NEW o \in Objects, Close(o) PROVE StreamInv' /\ Stream!Next
  BY <1>1, <1>7, CloseStep
<1>8. ASSUME NEW o \in Objects, ReadLine(o) PROVE StreamInv' /\ Stream!Next
  BY <1>8, ReadLineStep
<1>9. ASSUME NEW o \in Objects, ReadAll(o) \/ Prefetch(o) \/ Tell(o) \/ Size(o)
      PROVE  StreamInv' /\ Stream!Next
  BY <1>9, ReadAllStep, PrefetchStep, TellStep, SizeStep
<1>10. ASSUME NEW o \in Objects, Flush(o) PROVE StreamInv' /\ Stream!Next
  BY <1>10, FlushStep
<1> QED BY <1>2, <1>3, <1>4, <1>5, <1>6, <1>7, <1>8, <1>9, <1>10 DEF Next

\* A file is a sequence of bytes with one position: for any number of
\* objects, buffers and writes of any size and any number of failed calls, as
\* long as the user flushes before reading and seeks before writing and the
\* kernel stores all or nothing of what it is given.
THEOREM FileIsStream == ASSUME Usual PROVE Spec => ImplementsStream
<1>1. Init => StreamInv /\ Stream!Init
  <2>1. ASSUME Init PROVE StreamInv
    <3>1. Inv /\ OneOpen /\ \A o \in Objects : ~opened[o]
      BY <2>1 DEF Init, Inv, Typed, DescriptorsOwned, OneOpen
    <3>2. <<>> \in Seq(Bytes) /\ Len(<<>>) <= BufferSize
      BY EmptySeq DEF Usual
    <3>3. Stores
      BY <2>1, <3>2 DEF Init, Stores
    <3> QED BY <3>1, <3>3 DEF StreamInv
  <2>2. ASSUME Init PROVE Stream!Init
    <3>1. \A o \in Objects : ~opened[o]
      BY <2>2 DEF Init
    <3> QED BY <2>2, <3>1, ClosedShows DEF ShowsNone, Init, Stream!Init
  <2> QED BY <2>1, <2>2
<1>2. StreamInv /\ [Next]_vars => StreamInv' /\ [Stream!Next]_(Stream!vars)
  <2>1. ASSUME StreamInv, UNCHANGED vars PROVE StreamInv' /\ UNCHANGED Stream!vars
    BY <2>1, Stutters DEF vars, Stream!vars
  <2> QED BY <2>1, StreamStep
<1> QED BY <1>1, <1>2, PTL DEF Spec, ImplementsStream, Stream!Spec

=============================================================================
