--------------------------- MODULE ContainerProofs ---------------------------
(***************************************************************************)
(* That Vector and Bitmap are right, for every size of the buffers and of  *)
(* what a call inserts, and for every width of the words of a bitmap: what *)
(* a loop of copies leaves in a buffer, what each call makes of any vector *)
(* or bitmap, and from these that VectorSound and BitmapSound hold in      *)
(* every state.                                                            *)
(***************************************************************************)
EXTENDS Vector, Bitmap, SequenceTheorems, WellFoundedInduction, TLAPS

(* A vector and another one, of any elements.                              *)
Vectors == [cells : Seq(Int), n : Nat, ok : BOOLEAN]

LEMMA LeastNumber ==
    ASSUME NEW T \in SUBSET Nat, T # {} PROVE \E x \in T : \A y \in T : x <= y
<1>1. IsWellFoundedOn({p \in Nat \X Nat : p[1] < p[2]}, Nat)
  BY NatLessThanWellFounded DEF OpToRel
<1>2. PICK x \in T : \A y \in T : ~(<<y, x>> \in {p \in Nat \X Nat : p[1] < p[2]})
  BY <1>1, WFMin
<1>3. ASSUME NEW y \in T PROVE x <= y
  <2>1. x \in Nat /\ y \in Nat /\ <<y, x>> \in Nat \X Nat
    OBVIOUS
  <2> QED BY <1>2, <2>1
<1> QED BY <1>3

-----------------------------------------------------------------------------
(* The loop of assignments.                                                *)

(* What a loop has done after each of its assignments.                     *)
Traces(d, moves, m, e) ==
    /\ DOMAIN e = 0 .. m /\ e[0] = d
    /\ \A k \in 1 .. m : e[k] = Assigned(e[k - 1], moves[k])

LEMMA TraceExists ==
    ASSUME NEW d, NEW moves, NEW n \in Nat
    PROVE  \E e : Traces(d, moves, n, e)
<1> DEFINE T == {m \in Nat : ~\E e : Traces(d, moves, m, e)}
<1> SUFFICES ASSUME T # {} PROVE FALSE
  OBVIOUS
<1>1. PICK m \in T : \A y \in T : m <= y
  BY LeastNumber
<1>2. m # 0
  <2> DEFINE e == [k \in 0 .. 0 |-> d]
  <2>1. Traces(d, moves, 0, e)
    BY DEF Traces
  <2> QED BY <2>1
<1>3. m - 1 \in Nat /\ m - 1 \notin T
  BY <1>1, <1>2
<1>4. PICK e : Traces(d, moves, m - 1, e)
  BY <1>3
<1> DEFINE g == [k \in 0 .. m |-> IF k = m THEN Assigned(e[m - 1], moves[m]) ELSE e[k]]
<1>5. Traces(d, moves, m, g)
  <2>1. DOMAIN g = 0 .. m /\ g[0] = d
    BY <1>2, <1>4 DEF Traces
  <2>2. ASSUME NEW k \in 1 .. m PROVE g[k] = Assigned(g[k - 1], moves[k])
    <3>1. CASE k = m
      BY <3>1, <1>2
    <3>2. CASE k # m
      <4>1. k \in 1 .. m - 1 /\ k \in 0 .. m /\ k - 1 \in 0 .. m /\ k - 1 # m
        BY <3>2
      <4>2. e[k] = Assigned(e[k - 1], moves[k])
        BY <4>1, <1>4 DEF Traces
      <4> QED BY <4>1, <4>2, <3>2
    <3> QED BY <3>1, <3>2
  <2> QED BY <2>1, <2>2 DEF Traces
<1> QED BY <1>5

LEMMA RunTraces ==
    ASSUME NEW d, NEW S, NEW moves \in Seq(S)
    PROVE  \E e : Traces(d, moves, Len(moves), e) /\ Run(d, moves) = e[Len(moves)]
<1> DEFINE n == Len(moves)
           F(e) == [k \in 0 .. n |-> IF k = 0 THEN d ELSE Assigned(e[k - 1], moves[k])]
           f == CHOOSE e : e = F(e)
<1>1. n \in Nat
  BY LenProperties
<1>2. PICK e : Traces(d, moves, n, e)
  BY <1>1, TraceExists
<1>a. \E h : h = F(h)
  <2> DEFINE h == [k \in 0 .. n |-> e[k]]
  <2>1. ASSUME NEW k \in 0 .. n PROVE h[k] = F(h)[k]
    <3>1. CASE k = 0
      BY <3>1, <1>2 DEF Traces
    <3>2. CASE k # 0
      <4>1. k \in 1 .. n /\ k - 1 \in 0 .. n
        BY <3>2, <1>1
      <4> QED BY <4>1, <3>2, <1>2 DEF Traces
    <3> QED BY <3>1, <3>2
  <2>2. h = F(h)
    BY <2>1
  <2> QED BY <2>2
<1>3. f = F(f)
  BY <1>a
<1> HIDE DEF f
<1>4. Traces(d, moves, n, f)
  <2>1. DOMAIN f = 0 .. n /\ f[0] = d
    BY <1>3, <1>1
  <2>2. ASSUME NEW k \in 1 .. n PROVE f[k] = Assigned(f[k - 1], moves[k])
    BY <1>3, <1>1
  <2> QED BY <2>1, <2>2 DEF Traces
<1>5. Run(d, moves) = f[n]
  BY DEF Run, f
<1> QED BY <1>4, <1>5

-----------------------------------------------------------------------------
(* Cells.                                                                  *)

LEMMA SameVector ==
    ASSUME NEW d \in Vectors, NEW e \in Vectors, d.n = e.n, d.ok = e.ok, Len(d.cells) = Len(e.cells),
           \A i \in 1 .. Len(d.cells) : d.cells[i] = e.cells[i]
    PROVE  d = e
<1>1. d.cells = e.cells
  <2>1. d.cells \in Seq(Int) /\ e.cells \in Seq(Int)
    BY DEF Vectors
  <2> QED BY <2>1, SeqEqual
<1> QED BY <1>1 DEF Vectors

LEMMA CellIn == ASSUME NEW d \in Vectors, NEW p \in Int PROVE Cell(d, p) \in Int
BY DEF Vectors, Cell, Raw

LEMMA FunctionSeq ==
    ASSUME NEW S, NEW n \in Nat, NEW s, DOMAIN s = 1 .. n, \A i \in 1 .. n : s[i] \in S, s = [i \in 1 .. n |-> s[i]]
    PROVE  s \in Seq(S) /\ Len(s) = n
BY IsASeq, LenProperties

(* Storing vs from p on gives e.                                           *)
Stored(d, p, vs, e) ==
    /\ e \in Vectors /\ e.n = d.n /\ Len(e.cells) = Len(d.cells)
    /\ e.ok = (d.ok /\ \A i \in 1 .. Len(vs) : p + i \in 1 .. Len(d.cells))
    /\ \A i \in 1 .. Len(d.cells) :
         e.cells[i] = IF i - p \in 1 .. Len(vs) THEN vs[i - p] ELSE d.cells[i]

LEMMA StoreIs ==
    ASSUME NEW d \in Vectors, NEW p \in Int, NEW vs \in Seq(Int)
    PROVE  Stored(d, p, vs, Store(d, p, vs))
<1>1. d.cells \in Seq(Int) /\ DOMAIN d.cells = 1 .. Len(d.cells) /\ Len(d.cells) \in Nat
  BY LenProperties DEF Vectors
<1>2. DOMAIN vs = 1 .. Len(vs) /\ Len(vs) \in Nat /\ \A i \in 1 .. Len(vs) : vs[i] \in Int
  BY LenProperties, ElementOfSeq
<1> DEFINE c == [i \in 1 .. Len(d.cells) |-> IF i - p \in DOMAIN vs THEN vs[i - p] ELSE d.cells[i]]
           k == d.ok /\ \A i \in DOMAIN vs : p + i \in DOMAIN d.cells
           e == Store(d, p, vs)
<1>3. c \in Seq(Int) /\ Len(c) = Len(d.cells)
  <2>1. \A i \in 1 .. Len(d.cells) : c[i] \in Int
    BY <1>1, <1>2, ElementOfSeq
  <2>2. DOMAIN c = 1 .. Len(d.cells) /\ c = [i \in 1 .. Len(d.cells) |-> c[i]]
    OBVIOUS
  <2> HIDE DEF c
  <2> QED BY <2>1, <2>2, <1>1, FunctionSeq
<1>4. e = [d EXCEPT !.cells = c, !.ok = k]
  BY <1>1 DEF Store
<1> HIDE DEF c, k
<1>5. e \in Vectors /\ e.n = d.n /\ e.cells = c /\ e.ok = k
  <2>1. k \in BOOLEAN
    BY DEF k
  <2> QED BY <2>1, <1>3, <1>4 DEF Vectors
<1> QED BY <1>1, <1>2, <1>3, <1>5 DEF Stored, c, k

LEMMA PokeIs ==
    ASSUME NEW d \in Vectors, NEW p \in Int, NEW v \in Int
    PROVE  Stored(d, p, <<v>>, Poke(d, p, v))
<1>1. d.cells \in Seq(Int) /\ DOMAIN d.cells = 1 .. Len(d.cells) /\ Len(d.cells) \in Nat /\ d.ok \in BOOLEAN /\ d.n \in Nat
  BY LenProperties DEF Vectors
<1> DEFINE e == Poke(d, p, v)
<1>2. Len(<<v>>) = 1 /\ <<v>>[1] = v
  OBVIOUS
<1>3. CASE p + 1 \in 1 .. Len(d.cells)
  <2> DEFINE c == [d.cells EXCEPT ![p + 1] = v]
  <2>1. c \in Seq(Int) /\ Len(c) = Len(d.cells) /\ \A i \in 1 .. Len(d.cells) : c[i] = IF i = p + 1 THEN v ELSE d.cells[i]
    BY <1>1, <1>3, ExceptSeq
  <2>2. e = [d EXCEPT !.cells = c]
    BY <1>1, <1>3 DEF Poke
  <2> HIDE DEF c
  <2>3. e \in Vectors /\ e.n = d.n /\ e.cells = c /\ e.ok = d.ok
    BY <2>1, <2>2 DEF Vectors
  <2>4. \A i \in 1 .. Len(<<v>>) : p + i \in 1 .. Len(d.cells)
    BY <1>2, <1>3
  <2>5. ASSUME NEW i \in 1 .. Len(d.cells)
        PROVE  e.cells[i] = IF i - p \in 1 .. Len(<<v>>) THEN <<v>>[i - p] ELSE d.cells[i]
    <3>1. i - p \in 1 .. Len(<<v>>) <=> i = p + 1
      BY <1>2
    <3>2. i = p + 1 => i - p = 1
      OBVIOUS
    <3> QED BY <1>2, <2>1, <2>3, <3>1, <3>2
  <2>6. e.ok = (d.ok /\ \A i \in 1 .. Len(<<v>>) : p + i \in 1 .. Len(d.cells))
    BY <1>1, <2>3, <2>4
  <2>7. e \in Vectors /\ e.n = d.n /\ Len(e.cells) = Len(d.cells)
    BY <2>1, <2>3
  <2> HIDE DEF e
  <2>8. Stored(d, p, <<v>>, e)
    BY <2>5, <2>6, <2>7 DEF Stored
  <2> QED BY <2>8 DEF e
<1>4. CASE p + 1 \notin 1 .. Len(d.cells)
  <2>1. e = [d EXCEPT !.ok = FALSE]
    BY <1>1, <1>4 DEF Poke
  <2>2. e \in Vectors /\ e.n = d.n /\ e.cells = d.cells /\ e.ok = FALSE
    BY <2>1 DEF Vectors
  <2>3. ~\A i \in 1 .. Len(<<v>>) : p + i \in 1 .. Len(d.cells)
    BY <1>2, <1>4
  <2>4. \A i \in 1 .. Len(d.cells) : ~(i - p \in 1 .. Len(<<v>>))
    BY <1>2, <1>4
  <2> QED BY <2>2, <2>3, <2>4 DEF Stored
<1> QED BY <1>3, <1>4

-----------------------------------------------------------------------------
(* Copies.                                                                 *)

(* The elements J of ws have been stored, from q on.                       *)
StoredAt(d, q, ws, J, e) ==
    /\ e \in Vectors /\ e.n = d.n /\ Len(e.cells) = Len(d.cells)
    /\ e.ok = (d.ok /\ \A i \in J : q + i \in 1 .. Len(d.cells))
    /\ \A i \in 1 .. Len(d.cells) :
         e.cells[i] = IF i - q \in J THEN ws[i - q] ELSE d.cells[i]

LEMMA NothingStored ==
    ASSUME NEW d \in Vectors, NEW q \in Int, NEW ws PROVE StoredAt(d, q, ws, {}, d)
BY DEF StoredAt, Vectors

LEMMA OneMoreStored ==
    ASSUME NEW d \in Vectors, NEW q \in Int, NEW ws, NEW J \in SUBSET Int, NEW e,
           StoredAt(d, q, ws, J, e), NEW j \in Int, ws[j] \in Int
    PROVE  StoredAt(d, q, ws, J \cup {j}, Poke(e, q + j - 1, ws[j]))
<1> DEFINE f == Poke(e, q + j - 1, ws[j])
<1>1. e \in Vectors /\ e.n = d.n /\ Len(e.cells) = Len(d.cells) /\ Len(d.cells) \in Nat /\ q + j - 1 \in Int
  BY LenProperties DEF StoredAt, Vectors
<1>2. Stored(e, q + j - 1, <<ws[j]>>, f)
  BY <1>1, PokeIs
<1> HIDE DEF f
<1>3. Len(<<ws[j]>>) = 1 /\ <<ws[j]>>[1] = ws[j]
  OBVIOUS
<1>4. f \in Vectors /\ f.n = d.n /\ Len(f.cells) = Len(d.cells)
  BY <1>1, <1>2 DEF Stored
<1>5. f.ok = (e.ok /\ q + j \in 1 .. Len(d.cells))
  <2>1. f.ok = (e.ok /\ \A i \in 1 .. Len(<<ws[j]>>) : (q + j - 1) + i \in 1 .. Len(d.cells))
    BY <1>1, <1>2 DEF Stored
  <2>2. (\A i \in 1 .. Len(<<ws[j]>>) : (q + j - 1) + i \in 1 .. Len(d.cells)) <=> q + j \in 1 .. Len(d.cells)
    BY <1>3
  <2> QED BY <2>1, <2>2
<1>6. f.ok = (d.ok /\ \A i \in J \cup {j} : q + i \in 1 .. Len(d.cells))
  BY <1>5 DEF StoredAt
<1>7. ASSUME NEW i \in 1 .. Len(d.cells)
      PROVE  f.cells[i] = IF i - q \in J \cup {j} THEN ws[i - q] ELSE d.cells[i]
  <2>1. f.cells[i] = IF i - (q + j - 1) \in 1 .. Len(<<ws[j]>>) THEN <<ws[j]>>[i - (q + j - 1)] ELSE e.cells[i]
    BY <1>1, <1>2 DEF Stored
  <2>2. CASE i - q = j
    <3>1. i - (q + j - 1) = 1
      BY <2>2
    <3> QED BY <2>1, <2>2, <3>1, <1>3
  <2>3. CASE i - q # j
    <3>1. i - (q + j - 1) # 1 /\ i - (q + j - 1) \in Int
      BY <2>3
    <3>2. f.cells[i] = e.cells[i]
      BY <2>1, <3>1, <1>3
    <3> QED BY <3>2, <2>3 DEF StoredAt
  <2> QED BY <2>2, <2>3
<1>8. StoredAt(d, q, ws, J \cup {j}, f)
  BY <1>4, <1>6, <1>7 DEF StoredAt
<1> QED BY <1>8 DEF f

LEMMA AllStored ==
    ASSUME NEW d \in Vectors, NEW q, NEW ws, NEW e, StoredAt(d, q, ws, 1 .. Len(ws), e)
    PROVE  Stored(d, q, ws, e)
BY DEF Stored, StoredAt

LEMMA CellKept ==
    ASSUME NEW d \in Vectors, NEW q \in Int, NEW ws, NEW J \in SUBSET Int, NEW e, StoredAt(d, q, ws, J, e),
           NEW r \in Int, r + 1 - q \notin J
    PROVE  Cell(e, r) = Cell(d, r)
<1>1. DOMAIN d.cells = 1 .. Len(d.cells) /\ DOMAIN e.cells = 1 .. Len(d.cells)
  BY LenProperties DEF Vectors, StoredAt
<1>2. CASE r + 1 \in 1 .. Len(d.cells)
  BY <1>1, <1>2 DEF StoredAt, Cell
<1>3. CASE r + 1 \notin 1 .. Len(d.cells)
  BY <1>1, <1>3 DEF Cell
<1> QED BY <1>2, <1>3

(* What is in the n cells from p on.                                       *)
Taken(d, p, n) == [i \in 1 .. n |-> Cell(d, p + i - 1)]

LEMMA TakenIs ==
    ASSUME NEW d \in Vectors, NEW p \in Int, NEW n \in Nat
    PROVE  Taken(d, p, n) \in Seq(Int) /\ Len(Taken(d, p, n)) = n
<1>1. \A i \in 1 .. n : Cell(d, p + i - 1) \in Int
  BY CellIn
<1> DEFINE t == Taken(d, p, n)
<1>2. DOMAIN t = 1 .. n /\ (\A i \in 1 .. n : t[i] \in Int) /\ t = [i \in 1 .. n |-> t[i]]
  BY <1>1 DEF Taken
<1> HIDE DEF t
<1>3. t \in Seq(Int) /\ Len(t) = n
  BY <1>2, FunctionSeq
<1> QED BY <1>3 DEF t

LEMMA LargerIs == ASSUME NEW n \in Int PROVE Larger(n, 0) \in Nat /\ (n >= 0 => Larger(n, 0) = n) /\ (n <= 0 => Larger(n, 0) = 0)
BY DEF Larger

(* A copy upwards, from higher cells or to cells behind those it copies,   *)
(* stores what was there before it.                                        *)
LEMMA CopyUpIs ==
    ASSUME NEW d \in Vectors, NEW p \in Int, NEW q \in Int, NEW k \in Int, q <= p \/ q >= p + k
    PROVE  Stored(d, q, Taken(d, p, Larger(k, 0)), CopyUp(d, p, q, k))
<1> DEFINE n == Larger(k, 0)
           ws == Taken(d, p, n)
           moves == [i \in 1 .. n |-> <<p + i - 1, q + i - 1>>]
<1>1. n \in Nat /\ (q <= p \/ q >= p + n \/ n = 0)
  BY LargerIs
<1> HIDE DEF n
<1>2. ws \in Seq(Int) /\ Len(ws) = n /\ \A i \in 1 .. n : ws[i] = Cell(d, p + i - 1) /\ ws[i] \in Int
  BY <1>1, TakenIs, CellIn DEF Taken
<1>3. moves \in Seq(Int \X Int) /\ Len(moves) = n
  <2>1. DOMAIN moves = 1 .. n /\ (\A i \in 1 .. n : moves[i] \in Int \X Int) /\ moves = [i \in 1 .. n |-> moves[i]]
    BY <1>1
  <2> HIDE DEF moves
  <2> QED BY <1>1, <2>1, FunctionSeq
<1>4. \A i \in 1 .. n : moves[i][1] = p + i - 1 /\ moves[i][2] = q + i - 1
  BY <1>1
<1> HIDE DEF ws
<1>5. CopyUp(d, p, q, k) = Run(d, moves)
  BY DEF CopyUp, n
<1> HIDE DEF moves
<1>6. PICK e : Traces(d, moves, n, e) /\ Run(d, moves) = e[n]
  BY <1>3, RunTraces
<1> DEFINE T == {m \in 0 .. n : ~StoredAt(d, q, ws, 1 .. m, e[m])}
<1>7. T = {}
  <2> SUFFICES ASSUME T # {} PROVE FALSE
    OBVIOUS
  <2>1. PICK m \in T : \A y \in T : m <= y
    <3>1. T \in SUBSET Nat
      BY <1>1
    <3> QED BY <3>1, LeastNumber
  <2>2. m # 0
    <3>1. 1 .. 0 = {} /\ e[0] = d
      BY <1>6 DEF Traces
    <3> QED BY <3>1, NothingStored
  <2>3. m - 1 \in 0 .. n /\ m - 1 \notin T /\ m \in 1 .. n /\ m \in Int
    BY <1>1, <2>1, <2>2
  <2>4. StoredAt(d, q, ws, 1 .. m - 1, e[m - 1])
    BY <2>3
  <2>5. e[m] = Poke(e[m - 1], q + m - 1, Cell(e[m - 1], p + m - 1))
    BY <1>4, <1>6, <2>3 DEF Traces, Assigned
  <2>6. Cell(e[m - 1], p + m - 1) = ws[m] /\ ws[m] \in Int
    <3>1. p + m - 1 \in Int /\ (p + m - 1) + 1 - q \notin 1 .. m - 1
      BY <1>1, <2>3
    <3>2. 1 .. m - 1 \in SUBSET Int
      BY <2>3
    <3> QED BY <3>1, <3>2, <2>3, <2>4, <1>2, CellKept
  <2>7. 1 .. m = (1 .. m - 1) \cup {m} /\ 1 .. m - 1 \in SUBSET Int
    BY <2>3
  <2>8. StoredAt(d, q, ws, (1 .. m - 1) \cup {m}, Poke(e[m - 1], q + m - 1, ws[m]))
    BY <2>3, <2>4, <2>6, <2>7, OneMoreStored
  <2>9. StoredAt(d, q, ws, 1 .. m, e[m])
    BY <2>5, <2>6, <2>7, <2>8
  <2> QED BY <2>9, <2>1
<1>8. StoredAt(d, q, ws, 1 .. n, e[n])
  BY <1>1, <1>7
<1> QED BY <1>2, <1>5, <1>6, <1>8, AllStored DEF ws, n

(* A copy downwards, to higher cells or to cells before those it copies,   *)
(* does, too.                                                              *)
LEMMA CopyDownIs ==
    ASSUME NEW d \in Vectors, NEW p \in Int, NEW q \in Int, NEW k \in Int, q >= p \/ q + k <= p
    PROVE  Stored(d, q, Taken(d, p, Larger(k, 0)), CopyDown(d, p, q, k))
<1> DEFINE n == Larger(k, 0)
           ws == Taken(d, p, n)
           moves == [i \in 1 .. n |-> <<p + k - i, q + k - i>>]
<1>1. n \in Nat /\ (n = k \/ n = 0)
  BY LargerIs
<1> HIDE DEF n
<1>2. ws \in Seq(Int) /\ Len(ws) = n /\ \A i \in 1 .. n : ws[i] = Cell(d, p + i - 1) /\ ws[i] \in Int
  BY <1>1, TakenIs, CellIn DEF Taken
<1>3. moves \in Seq(Int \X Int) /\ Len(moves) = n
  <2>1. DOMAIN moves = 1 .. n /\ (\A i \in 1 .. n : moves[i] \in Int \X Int) /\ moves = [i \in 1 .. n |-> moves[i]]
    BY <1>1
  <2> HIDE DEF moves
  <2> QED BY <1>1, <2>1, FunctionSeq
<1>4. \A i \in 1 .. n : moves[i][1] = p + k - i /\ moves[i][2] = q + k - i
  BY <1>1
<1> HIDE DEF ws
<1>5. CopyDown(d, p, q, k) = Run(d, moves)
  BY DEF CopyDown, n
<1> HIDE DEF moves
<1>6. PICK e : Traces(d, moves, n, e) /\ Run(d, moves) = e[n]
  BY <1>3, RunTraces
<1> DEFINE T == {m \in 0 .. n : ~StoredAt(d, q, ws, n - m + 1 .. n, e[m])}
<1>7. T = {}
  <2> SUFFICES ASSUME T # {} PROVE FALSE
    OBVIOUS
  <2>1. PICK m \in T : \A y \in T : m <= y
    <3>1. T \in SUBSET Nat
      BY <1>1
    <3> QED BY <3>1, LeastNumber
  <2>2. m # 0
    <3>1. n - 0 + 1 .. n = {} /\ e[0] = d
      BY <1>1, <1>6 DEF Traces
    <3> QED BY <3>1, NothingStored
  <2>3. m - 1 \in 0 .. n /\ m - 1 \notin T /\ m \in 1 .. n /\ m \in Int /\ n = k
    BY <1>1, <2>1, <2>2
  <2> DEFINE j == n - m + 1
  <2>4. StoredAt(d, q, ws, j + 1 .. n, e[m - 1])
    <3>1. n - (m - 1) + 1 = j + 1
      BY <1>1, <2>3
    <3> QED BY <2>3, <3>1
  <2>5. e[m] = Poke(e[m - 1], q + j - 1, Cell(e[m - 1], p + j - 1))
    <3>1. p + k - m = p + j - 1 /\ q + k - m = q + j - 1
      BY <2>3
    <3> QED BY <1>4, <1>6, <2>3, <3>1 DEF Traces, Assigned
  <2>6. Cell(e[m - 1], p + j - 1) = ws[j] /\ ws[j] \in Int
    <3>1. p + j - 1 \in Int /\ (p + j - 1) + 1 - q \notin j + 1 .. n
      BY <1>1, <2>3
    <3>2. j + 1 .. n \in SUBSET Int /\ j \in 1 .. n
      BY <1>1, <2>3
    <3> DEFINE r == p + j - 1
               J == j + 1 .. n
               f == e[m - 1]
    <3>a. r \in Int /\ r + 1 - q \notin J /\ J \in SUBSET Int /\ StoredAt(d, q, ws, J, f)
      BY <3>1, <3>2, <2>4
    <3> HIDE DEF j, r, J, f
    <3>b. Cell(f, r) = Cell(d, r)
      BY <3>a, CellKept
    <3>3. Cell(e[m - 1], p + j - 1) = Cell(d, p + j - 1)
      BY <3>b DEF r, f
    <3> QED BY <3>2, <3>3, <1>2
  <2>7. j .. n = (j + 1 .. n) \cup {j} /\ j + 1 .. n \in SUBSET Int /\ j \in Int
    BY <1>1, <2>3
  <2>8. StoredAt(d, q, ws, n - m + 1 .. n, e[m])
    BY <2>4, <2>5, <2>6, <2>7, OneMoreStored
  <2> QED BY <2>8, <2>1
<1>8. StoredAt(d, q, ws, 1 .. n, e[n])
  <2>1. n - n + 1 = 1 /\ n \in 0 .. n
    BY <1>1
  <2> QED BY <1>7, <2>1
<1> QED BY <1>2, <1>5, <1>6, <1>8, AllStored DEF ws, n

-----------------------------------------------------------------------------
(* Stores and copies that fit.                                             *)

(* The n cells from p on are in the n cells from q on, too.                *)
Copied(d, p, q, n, e) ==
    /\ e \in Vectors /\ e.n = d.n /\ Len(e.cells) = Len(d.cells) /\ e.ok = d.ok
    /\ \A i \in 1 .. Len(d.cells) :
         e.cells[i] = IF q < i /\ i <= q + n THEN d.cells[i - q + p] ELSE d.cells[i]

(* vs is in the cells from p on.                                           *)
Filled(d, p, vs, e) ==
    /\ e \in Vectors /\ e.n = d.n /\ Len(e.cells) = Len(d.cells) /\ e.ok = d.ok
    /\ \A i \in 1 .. Len(d.cells) :
         e.cells[i] = IF p < i /\ i <= p + Len(vs) THEN vs[i - p] ELSE d.cells[i]

LEMMA StoredFits ==
    ASSUME NEW d \in Vectors, NEW p \in Nat, NEW vs \in Seq(Int), p + Len(vs) <= Len(d.cells),
           NEW e, Stored(d, p, vs, e)
    PROVE  Filled(d, p, vs, e)
<1>1. Len(vs) \in Nat /\ Len(d.cells) \in Nat /\ d.ok \in BOOLEAN
  BY LenProperties DEF Vectors
<1>2. \A i \in 1 .. Len(vs) : p + i \in 1 .. Len(d.cells)
  BY <1>1
<1>3. \A i \in 1 .. Len(d.cells) : i - p \in 1 .. Len(vs) <=> p < i /\ i <= p + Len(vs)
  BY <1>1
<1> QED BY <1>1, <1>2, <1>3 DEF Stored, Filled

LEMMA StoreFits ==
    ASSUME NEW d \in Vectors, NEW p \in Nat, NEW vs \in Seq(Int), p + Len(vs) <= Len(d.cells)
    PROVE  Filled(d, p, vs, Store(d, p, vs))
BY StoreIs, StoredFits

(* v is in the cell p.                                                     *)
Poked(d, p, v, e) ==
    /\ e \in Vectors /\ e.n = d.n /\ Len(e.cells) = Len(d.cells) /\ e.ok = d.ok
    /\ \A i \in 1 .. Len(d.cells) : e.cells[i] = IF i = p + 1 THEN v ELSE d.cells[i]

LEMMA PokeFits ==
    ASSUME NEW d \in Vectors, NEW p \in Nat, NEW v \in Int, p < Len(d.cells)
    PROVE  Poked(d, p, v, Poke(d, p, v))
<1> DEFINE e == Poke(d, p, v)
<1>1. Len(<<v>>) = 1 /\ <<v>>[1] = v /\ <<v>> \in Seq(Int) /\ Len(d.cells) \in Nat
  BY LenProperties DEF Vectors
<1>2. Stored(d, p, <<v>>, e)
  BY PokeIs
<1> HIDE DEF e
<1>3. Filled(d, p, <<v>>, e)
  <2> DEFINE s == <<v>>
  <2>1. s \in Seq(Int) /\ p + Len(s) <= Len(d.cells) /\ Stored(d, p, s, e)
    BY <1>1, <1>2
  <2> HIDE DEF s
  <2>2. Filled(d, p, s, e)
    BY <2>1, StoredFits
  <2> QED BY <2>2 DEF s
<1>4. ASSUME NEW i \in 1 .. Len(d.cells) PROVE e.cells[i] = IF i = p + 1 THEN v ELSE d.cells[i]
  <2>1. p < i /\ i <= p + Len(<<v>>) <=> i = p + 1
    BY <1>1
  <2>2. i = p + 1 => i - p = 1
    OBVIOUS
  <2> QED BY <2>1, <2>2, <1>1, <1>3 DEF Filled
<1>5. e \in Vectors /\ e.n = d.n /\ e.ok = d.ok /\ Len(e.cells) = Len(d.cells)
  BY <1>3 DEF Filled
<1>6. Poked(d, p, v, e)
  BY <1>4, <1>5 DEF Poked
<1> QED BY <1>6 DEF e

LEMMA CellIs ==
    ASSUME NEW d \in Vectors, NEW p \in Nat, p < Len(d.cells)
    PROVE  Cell(d, p) = d.cells[p + 1]
<1>1. DOMAIN d.cells = 1 .. Len(d.cells) /\ Len(d.cells) \in Nat
  BY LenProperties DEF Vectors
<1> QED BY <1>1 DEF Cell

LEMMA TakenCopied ==
    ASSUME NEW d \in Vectors, NEW p \in Nat, NEW q \in Nat, NEW n \in Nat, NEW e,
           p + n <= Len(d.cells), q + n <= Len(d.cells), Stored(d, q, Taken(d, p, n), e)
    PROVE  Copied(d, p, q, n, e)
<1> DEFINE t == Taken(d, p, n)
<1>1. t \in Seq(Int) /\ Len(t) = n /\ Len(d.cells) \in Nat
  BY TakenIs, LenProperties DEF Vectors
<1>2. \A i \in 1 .. n : t[i] = d.cells[p + i]
  <2> SUFFICES ASSUME NEW i \in 1 .. n PROVE t[i] = d.cells[p + i]
    OBVIOUS
  <2>1. t[i] = Cell(d, p + i - 1)
    BY DEF Taken
  <2>2. p + i - 1 \in Nat /\ p + i - 1 < Len(d.cells) /\ (p + i - 1) + 1 = p + i
    BY <1>1
  <2>3. Cell(d, p + i - 1) = d.cells[(p + i - 1) + 1]
    BY <2>2, CellIs
  <2> QED BY <2>1, <2>2, <2>3
<1> HIDE DEF t
<1>3. Filled(d, q, t, e)
  <2>1. Stored(d, q, t, e)
    BY DEF t
  <2> QED BY <2>1, <1>1, StoredFits
<1>4. ASSUME NEW i \in 1 .. Len(d.cells)
      PROVE  e.cells[i] = IF q < i /\ i <= q + n THEN d.cells[i - q + p] ELSE d.cells[i]
  <2>1. q < i /\ i <= q + n => i - q \in 1 .. n /\ p + (i - q) = i - q + p
    BY <1>1
  <2> QED BY <2>1, <1>1, <1>2, <1>3 DEF Filled
<1> QED BY <1>3, <1>4 DEF Filled, Copied

LEMMA CopyUpFits ==
    ASSUME NEW d \in Vectors, NEW p \in Nat, NEW q \in Nat, NEW n \in Nat,
           p + n <= Len(d.cells), q + n <= Len(d.cells), q <= p \/ q >= p + n
    PROVE  Copied(d, p, q, n, CopyUp(d, p, q, n))
<1>1. Larger(n, 0) = n
  BY LargerIs
<1>2. Stored(d, q, Taken(d, p, Larger(n, 0)), CopyUp(d, p, q, n))
  BY CopyUpIs
<1> QED BY <1>1, <1>2, TakenCopied

LEMMA CopyDownFits ==
    ASSUME NEW d \in Vectors, NEW p \in Nat, NEW q \in Nat, NEW k \in Int, NEW n \in Nat, n = Larger(k, 0),
           p + n <= Len(d.cells), q + n <= Len(d.cells), q >= p
    PROVE  Copied(d, p, q, n, CopyDown(d, p, q, k))
<1>1. Stored(d, q, Taken(d, p, n), CopyDown(d, p, q, k))
  BY CopyDownIs
<1> QED BY <1>1, TakenCopied

LEMMA SizedIs ==
    ASSUME NEW d \in Vectors, NEW m \in Nat
    PROVE  /\ [d EXCEPT !.n = m] \in Vectors /\ [d EXCEPT !.n = m].n = m
           /\ [d EXCEPT !.n = m].cells = d.cells /\ [d EXCEPT !.n = m].ok = d.ok
BY DEF Vectors

-----------------------------------------------------------------------------
(* What a vector holds.                                                    *)

Good(d) == d \in Vectors /\ d.n <= Len(d.cells)

LEMMA GoodFacts ==
    ASSUME NEW d, Good(d)
    PROVE  /\ d \in Vectors /\ d.n \in Nat /\ Len(d.cells) \in Nat /\ d.cells \in Seq(Int) /\ d.ok \in BOOLEAN
           /\ \A i \in 1 .. Len(d.cells) : d.cells[i] \in Int
           /\ Cap(d) = Len(d.cells) /\ Room(d) = Len(d.cells) - d.n
BY LenProperties, ElementOfSeq DEF Good, Vectors, Cap, Room

LEMMA ContentsIs ==
    ASSUME NEW d, Good(d)
    PROVE  /\ Contents(d) \in Seq(Int) /\ Len(Contents(d)) = d.n
           /\ \A i \in 1 .. d.n : Contents(d)[i] = d.cells[i]
<1> DEFINE c == Contents(d)
<1>1. d \in Vectors /\ d.n \in Nat /\ Len(d.cells) \in Nat /\ d.n <= Len(d.cells)
  BY GoodFacts DEF Good
<1>2. \A i \in 1 .. d.n : d.cells[i] \in Int
  BY <1>1, GoodFacts
<1>3. \A i \in 1 .. d.n : c[i] = d.cells[i]
  <2> SUFFICES ASSUME NEW i \in 1 .. d.n PROVE c[i] = d.cells[i]
    OBVIOUS
  <2>1. i - 1 \in Nat /\ i - 1 < Len(d.cells) /\ (i - 1) + 1 = i
    BY <1>1
  <2>2. Cell(d, i - 1) = d.cells[(i - 1) + 1]
    BY <1>1, <2>1, CellIs
  <2> QED BY <2>1, <2>2 DEF Contents
<1>4. DOMAIN c = 1 .. d.n /\ c = [i \in 1 .. d.n |-> c[i]]
  BY DEF Contents
<1> HIDE DEF c
<1>5. \A i \in 1 .. d.n : c[i] \in Int
  BY <1>2, <1>3
<1>6. c \in Seq(Int) /\ Len(c) = d.n
  BY <1>1, <1>4, <1>5, FunctionSeq
<1> QED BY <1>3, <1>6 DEF c

LEMMA HoldsIs ==
    ASSUME NEW e, Good(e), NEW vs \in Seq(Int)
    PROVE  Holds(e, vs) = (e.ok /\ e.n = Len(vs) /\ \A i \in 1 .. Len(vs) : e.cells[i] = vs[i])
<1>1. e.n <= Cap(e) /\ e.ok \in BOOLEAN
  BY GoodFacts DEF Good
<1>2. (Contents(e) = vs) <=> (e.n = Len(vs) /\ \A i \in 1 .. Len(vs) : e.cells[i] = vs[i])
  <2>1. /\ Contents(e) \in Seq(Int) /\ Len(Contents(e)) = e.n
        /\ \A i \in 1 .. e.n : Contents(e)[i] = e.cells[i]
    BY ContentsIs
  <2>2. ASSUME Contents(e) = vs PROVE e.n = Len(vs) /\ \A i \in 1 .. Len(vs) : e.cells[i] = vs[i]
    BY <2>1, <2>2
  <2>3. ASSUME e.n = Len(vs), \A i \in 1 .. Len(vs) : e.cells[i] = vs[i] PROVE Contents(e) = vs
    <3> DEFINE c == Contents(e)
    <3>1. c \in Seq(Int) /\ Len(c) = Len(vs) /\ \A i \in 1 .. Len(c) : c[i] = vs[i]
      BY <2>1, <2>3
    <3> HIDE DEF c
    <3>2. c = vs
      BY <3>1, SeqEqual
    <3> QED BY <3>2 DEF c
  <2> QED BY <2>2, <2>3
<1> QED BY <1>1, <1>2 DEF Holds

(* The elements when vs takes the place of those in [p, q).                *)
Element(c, p, q, vs, i) ==
    IF i <= p THEN c[i] ELSE IF i <= p + Len(vs) THEN vs[i - p] ELSE c[i - Len(vs) + q - p]

Joined(c, p, q, m, vs, t) ==
    /\ t \in Seq(Int) /\ Len(t) = m + Len(vs) - (q - p)
    /\ \A i \in 1 .. Len(t) : t[i] = Element(c, p, q, vs, i)

LEMMA Joins ==
    ASSUME NEW c \in Seq(Int), NEW m \in 0 .. Len(c), NEW q \in 0 .. m, NEW p \in 0 .. q, NEW vs \in Seq(Int)
    PROVE  Joined(c, p, q, m, vs, SubSeq(c, 1, p) \o vs \o SubSeq(c, q + 1, m))
<1> DEFINE a1 == SubSeq(c, 1, p)
           a2 == SubSeq(c, q + 1, m)
           b  == a1 \o vs
           t  == b \o a2
<1>1. Len(c) \in Nat /\ Len(vs) \in Nat /\ p \in Nat /\ q \in Nat /\ m \in Nat /\ p <= q /\ q <= m /\ m <= Len(c)
  BY LenProperties
<1>2. a1 \in Seq(Int) /\ Len(a1) = p /\ \A i \in 1 .. p : a1[i] = c[i]
  <2>1. \A i \in 1 .. p : i \in 1 .. Len(c)
    BY <1>1
  <2>2. a1 \in Seq(Int) /\ Len(a1) = IF 1 <= p THEN p - 1 + 1 ELSE 0
    BY <1>1, <2>1, SubSeqProperties
  <2>3. \A i \in 1 .. p : a1[i] = c[1 + i - 1]
    BY <1>1, <2>1, SubSeqProperties
  <2> QED BY <1>1, <2>2, <2>3
<1>3. a2 \in Seq(Int) /\ Len(a2) = m - q /\ \A i \in 1 .. m - q : a2[i] = c[q + i]
  <2>1. \A i \in q + 1 .. m : i \in 1 .. Len(c)
    BY <1>1
  <2>2. a2 \in Seq(Int) /\ Len(a2) = IF q + 1 <= m THEN m - (q + 1) + 1 ELSE 0
    BY <1>1, <2>1, SubSeqProperties
  <2>3. \A i \in 1 .. m - (q + 1) + 1 : a2[i] = c[(q + 1) + i - 1]
    BY <1>1, <2>1, SubSeqProperties
  <2> QED BY <1>1, <2>2, <2>3
<1> HIDE DEF a1, a2
<1>4. b \in Seq(Int) /\ Len(b) = p + Len(vs) /\ \A i \in 1 .. Len(b) : b[i] = IF i <= p THEN c[i] ELSE vs[i - p]
  <2>1. b \in Seq(Int) /\ Len(b) = Len(a1) + Len(vs)
    BY <1>2, ConcatProperties
  <2>2. \A i \in 1 .. Len(a1) + Len(vs) : b[i] = IF i <= Len(a1) THEN a1[i] ELSE vs[i - Len(a1)]
    BY <1>2, ConcatProperties
  <2> QED BY <1>1, <1>2, <2>1, <2>2, SMTT(30)
<1> HIDE DEF b
<1>5. t \in Seq(Int) /\ Len(t) = Len(b) + Len(a2)
  BY <1>3, <1>4, ConcatProperties
<1>6. \A i \in 1 .. Len(b) + Len(a2) : t[i] = IF i <= Len(b) THEN b[i] ELSE a2[i - Len(b)]
  BY <1>3, <1>4, ConcatProperties
<1> HIDE DEF t
<1> DEFINE k == p + Len(vs)
           l == m + Len(vs) - (q - p)
<1>a. Len(b) = k /\ Len(t) = l /\ k \in Nat /\ l \in Nat /\ l = k + (m - q)
  BY <1>1, <1>3, <1>4, <1>5
<1>b. ASSUME NEW i \in 1 .. l PROVE t[i] = IF i <= k THEN b[i] ELSE a2[i - k]
  <2>1. i \in 1 .. Len(b) + Len(a2)
    BY <1>a, <1>5
  <2> QED BY <2>1, <1>6, <1>a
<1>c. ASSUME NEW i \in 1 .. k PROVE b[i] = IF i <= p THEN c[i] ELSE vs[i - p]
  BY <1>4, <1>a
<1>7. ASSUME NEW i \in 1 .. l PROVE t[i] = Element(c, p, q, vs, i)
  <2>1. CASE i <= p
    <3>1. i \in 1 .. k /\ i <= k
      BY <2>1, <1>1
    <3> QED BY <2>1, <3>1, <1>b, <1>c DEF Element
  <2>2. CASE ~(i <= p) /\ i <= k
    <3>1. i \in 1 .. k
      BY <2>2, <1>a
    <3> QED BY <2>2, <3>1, <1>b, <1>c DEF Element
  <2>3. CASE ~(i <= p) /\ ~(i <= k)
    <3>1. i - k \in 1 .. m - q /\ q + (i - k) = i - Len(vs) + q - p
      BY <2>3, <1>1, <1>a
    <3> QED BY <2>3, <3>1, <1>3, <1>b DEF Element
  <2> QED BY <2>1, <2>2, <2>3
<1>8. Joined(c, p, q, m, vs, t)
  BY <1>1, <1>3, <1>5, <1>7, <1>a DEF Joined
<1> QED BY <1>8 DEF t, b, a1, a2

(* e is d with vs in the place of the elements in [p, q).                  *)
Replaced(d, p, q, vs, e) ==
    /\ Good(e) /\ e.ok /\ e.n = d.n + Len(vs) - (q - p)
    /\ \A i \in 1 .. e.n : e.cells[i] = Element(d.cells, p, q, vs, i)

LEMMA ReplacedHolds ==
    ASSUME NEW d, Good(d), NEW q \in 0 .. d.n, NEW p \in 0 .. q, NEW vs \in Seq(Int), NEW e, Replaced(d, p, q, vs, e)
    PROVE  Holds(e, SubSeq(Contents(d), 1, p) \o vs \o SubSeq(Contents(d), q + 1, d.n))
<1> DEFINE c == Contents(d)
           t == SubSeq(c, 1, p) \o vs \o SubSeq(c, q + 1, d.n)
<1>1. d.n \in Nat /\ Len(vs) \in Nat /\ p \in Nat /\ q \in Nat /\ p <= q /\ q <= d.n
  BY GoodFacts, LenProperties
<1>2. c \in Seq(Int) /\ Len(c) = d.n /\ \A i \in 1 .. d.n : c[i] = d.cells[i]
  BY ContentsIs
<1> HIDE DEF c
<1>3. Joined(c, p, q, d.n, vs, t)
  BY <1>1, <1>2, Joins
<1> HIDE DEF t
<1>4. t \in Seq(Int) /\ Len(t) = e.n
  BY <1>3 DEF Joined, Replaced
<1>5. ASSUME NEW i \in 1 .. Len(t) PROVE e.cells[i] = t[i]
  <2>1. t[i] = Element(c, p, q, vs, i) /\ e.cells[i] = Element(d.cells, p, q, vs, i) /\ Len(t) = d.n + Len(vs) - (q - p)
    BY <1>3, <1>4 DEF Joined, Replaced
  <2>2. CASE i <= p
    <3>1. i \in 1 .. d.n
      BY <2>2, <1>1
    <3> QED BY <2>1, <2>2, <3>1, <1>2 DEF Element
  <2>3. CASE ~(i <= p) /\ i <= p + Len(vs)
    BY <2>1, <2>3 DEF Element
  <2>4. CASE ~(i <= p) /\ ~(i <= p + Len(vs))
    <3>1. i - Len(vs) + q - p \in 1 .. d.n
      BY <2>1, <2>4, <1>1
    <3> QED BY <2>1, <2>4, <3>1, <1>2 DEF Element
  <2> QED BY <2>2, <2>3, <2>4
<1>6. Holds(e, t)
  BY <1>4, <1>5, HoldsIs DEF Replaced
<1> QED BY <1>6 DEF t, c

LEMMA BufferIs ==
    ASSUME NEW vs \in Seq(Int), NEW cap \in Nat, Len(vs) <= cap
    PROVE  /\ Good(Buffer(vs, cap)) /\ Buffer(vs, cap).ok
           /\ Buffer(vs, cap).n = Len(vs) /\ Len(Buffer(vs, cap).cells) = cap
           /\ \A i \in 1 .. Len(vs) : Buffer(vs, cap).cells[i] = vs[i]
<1> DEFINE r == Times(cap - Len(vs), Raw)
           c == vs \o r
           b == Buffer(vs, cap)
<1>1. Len(vs) \in Nat /\ cap - Len(vs) \in Nat
  BY LenProperties
<1>2. r \in Seq(Int) /\ Len(r) = cap - Len(vs)
  <2>1. DOMAIN r = 1 .. cap - Len(vs) /\ (\A i \in 1 .. cap - Len(vs) : r[i] \in Int) /\ r = [i \in 1 .. cap - Len(vs) |-> r[i]]
    BY DEF Times, Raw
  <2> HIDE DEF r
  <2> QED BY <1>1, <2>1, FunctionSeq
<1> HIDE DEF r
<1>3. c \in Seq(Int) /\ Len(c) = cap
  <2>1. c \in Seq(Int) /\ Len(c) = Len(vs) + Len(r)
    BY <1>2, ConcatProperties
  <2> HIDE DEF c
  <2> QED BY <2>1, <1>1, <1>2
<1>4. ASSUME NEW i \in 1 .. Len(vs) PROVE c[i] = vs[i]
  <2>1. i \in 1 .. Len(vs) + Len(r) /\ i <= Len(vs)
    BY <1>1, <1>2
  <2> QED BY <2>1, <1>2, ConcatProperties
<1>5. b = [cells |-> c, n |-> Len(vs), ok |-> TRUE]
  BY DEF Buffer, r
<1> HIDE DEF c, b
<1>6. b \in Vectors /\ b.n = Len(vs) /\ b.cells = c /\ b.ok
  BY <1>1, <1>3, <1>5 DEF Vectors
<1>7. Good(b) /\ Len(b.cells) = cap
  BY <1>3, <1>6 DEF Good
<1> QED BY <1>4, <1>6, <1>7 DEF b

LEMMA BufferReplaces ==
    ASSUME NEW d, Good(d), NEW p \in 0 .. d.n, NEW vs \in Seq(Int), NEW cap \in Nat, d.n + Len(vs) <= cap
    PROVE  /\ Replaced(d, p, p, vs, Buffer(Part(d, 0, p) \o vs \o Part(d, p, d.n), cap))
           /\ Len(Buffer(Part(d, 0, p) \o vs \o Part(d, p, d.n), cap).cells) = cap
<1> DEFINE c == d.cells
           t == SubSeq(c, 1, p) \o vs \o SubSeq(c, p + 1, d.n)
<1>1. c \in Seq(Int) /\ d.n \in 0 .. Len(c) /\ d.n \in Nat /\ p \in 0 .. p /\ p \in Int
  BY GoodFacts DEF Good
<1>2. Part(d, 0, p) \o vs \o Part(d, p, d.n) = t
  BY DEF Part
<1> HIDE DEF c
<1>3. Joined(c, p, p, d.n, vs, t)
  BY <1>1, Joins
<1> HIDE DEF t
<1> DEFINE b == Buffer(t, cap)
<1>4. t \in Seq(Int) /\ Len(t) = d.n + Len(vs) /\ Len(t) <= cap
  BY <1>1, <1>3, LenProperties DEF Joined
<1>5. Good(b) /\ b.ok /\ b.n = Len(t) /\ Len(b.cells) = cap /\ \A i \in 1 .. Len(t) : b.cells[i] = t[i]
  BY <1>4, BufferIs
<1> HIDE DEF b
<1>6. Replaced(d, p, p, vs, b)
  BY <1>1, <1>3, <1>4, <1>5, LenProperties DEF Joined, Replaced, c
<1> QED BY <1>2, <1>5, <1>6 DEF b

-----------------------------------------------------------------------------
(* One element.                                                            *)

LEMMA OneIs == ASSUME NEW v \in Int PROVE <<v>> \in Seq(Int) /\ Len(<<v>>) = 1 /\ <<v>>[1] = v
OBVIOUS

Grown(d, m, k, e) == e = [d EXCEPT !.n = m, !.ok = k]

LEMMA GrownIs ==
    ASSUME NEW d \in Vectors, NEW m \in Nat, NEW k \in BOOLEAN, NEW e, Grown(d, m, k, e)
    PROVE  e \in Vectors /\ e.n = m /\ e.cells = d.cells /\ e.ok = k
BY DEF Vectors, Grown

(* What emplace and push_back do with the value v of the argument.         *)
Placed(d, p, v) ==
    IF Room(d) > 0 THEN Poke(Opened(d, p), p, v)
    ELSE Buffer(Part(d, 0, p) \o <<v>> \o Part(d, p, d.n), IF d.n = 0 THEN 1 ELSE 2 * d.n)
Pushed(d, v) == IF Room(d) > 0 THEN [Poke(d, d.n, v) EXCEPT !.n = @ + 1] ELSE Placed(d, d.n, v)

(* The last element is moved up before the others are.                     *)
LastUp(d) == [Poke(d, d.n, Cell(d, d.n - 1)) EXCEPT !.n = @ + 1, !.ok = @ /\ d.n > 0]

LEMMA LastUpIs ==
    ASSUME NEW d, Good(d), d.ok, Room(d) # 0
    PROVE  /\ LastUp(d) \in Vectors /\ LastUp(d).n = d.n + 1 /\ LastUp(d).ok = (d.n > 0)
           /\ Len(LastUp(d).cells) = Len(d.cells)
           /\ d.n > 0 => \A i \in 1 .. Len(d.cells) :
                            LastUp(d).cells[i] = IF i = d.n + 1 THEN d.cells[d.n] ELSE d.cells[i]
<1> DEFINE x == Cell(d, d.n - 1)
           f == Poke(d, d.n, x)
           y == f.ok /\ d.n > 0
           m == f.n + 1
           u == [f EXCEPT !.n = @ + 1, !.ok = @ /\ d.n > 0]
<1>1. d \in Vectors /\ d.n \in Nat /\ Len(d.cells) \in Nat /\ d.n < Len(d.cells) /\ d.ok = TRUE
  BY GoodFacts DEF Good
<1>2. x \in Int /\ (d.n > 0 => x = d.cells[d.n])
  <2>1. d.n - 1 \in Int
    BY <1>1
  <2>2. ASSUME d.n > 0 PROVE x = d.cells[d.n]
    <3>1. d.n - 1 \in Nat /\ d.n - 1 < Len(d.cells) /\ (d.n - 1) + 1 = d.n
      BY <1>1, <2>2
    <3>2. Cell(d, d.n - 1) = d.cells[(d.n - 1) + 1]
      BY <1>1, <3>1, CellIs
    <3> QED BY <3>1, <3>2
  <2> QED BY <1>1, <2>1, <2>2, CellIn
<1> HIDE DEF x
<1>3. Poked(d, d.n, x, f)
  BY <1>1, <1>2, PokeFits
<1>4. u = LastUp(d)
  BY DEF LastUp, x
<1> HIDE DEF f
<1>5. f \in Vectors /\ f.n = d.n /\ f.ok = TRUE /\ Len(f.cells) = Len(d.cells)
  BY <1>1, <1>3 DEF Poked
<1>6. y \in BOOLEAN /\ m \in Nat
  BY <1>1, <1>5
<1>m. m = d.n + 1 /\ (y <=> d.n > 0)
  BY <1>1, <1>5
<1>7. Grown(f, m, y, u)
  BY DEF Grown
<1> HIDE DEF y, m, u
<1>8. u \in Vectors /\ u.n = m /\ u.cells = f.cells /\ u.ok = y
  BY <1>5, <1>6, <1>7, GrownIs
<1>9. u.ok = (d.n > 0)
  BY <1>6, <1>8, <1>m
<1> QED BY <1>2, <1>3, <1>4, <1>5, <1>8, <1>9, <1>m DEF Poked

(* The elements from p on are a cell further up.                           *)
LEMMA OpenedIs ==
    ASSUME NEW d, Good(d), d.ok, NEW p \in 0 .. d.n, Room(d) # 0, p < d.n
    PROVE  /\ Opened(d, p) \in Vectors /\ Opened(d, p).n = d.n + 1 /\ Opened(d, p).ok
           /\ Len(Opened(d, p).cells) = Len(d.cells)
           /\ \A i \in 1 .. Len(d.cells) :
                 Opened(d, p).cells[i] = IF p + 1 < i /\ i <= d.n + 1 THEN d.cells[i - 1] ELSE d.cells[i]
<1> DEFINE u == LastUp(d)
           k == d.n - 1 - p
           w == CopyDown(u, p, p + 1, k)
<1>1. d \in Vectors /\ d.n \in Nat /\ Len(d.cells) \in Nat /\ d.n < Len(d.cells) /\ d.n > 0 /\ p \in Nat
  BY GoodFacts DEF Good
<1>2. /\ u \in Vectors /\ u.n = d.n + 1 /\ u.ok /\ Len(u.cells) = Len(d.cells)
      /\ \A i \in 1 .. Len(d.cells) : u.cells[i] = IF i = d.n + 1 THEN d.cells[d.n] ELSE d.cells[i]
  BY <1>1, LastUpIs
<1>3. Opened(d, p) = w
  <2>1. u.n - 2 - p = k /\ ~(k < 0)
    BY <1>1, <1>2
  <2>2. MoveDown(u, p, p + 1, u.n - 2 - p) = w
    BY <2>1 DEF MoveDown
  <2> QED BY <2>2 DEF Opened, LastUp
<1> HIDE DEF u
<1>4. Copied(u, p, p + 1, k, w)
  <2>1. k \in Nat /\ k \in Int /\ k = Larger(k, 0) /\ p + 1 \in Nat
    BY <1>1, LargerIs
  <2>2. p + k <= Len(u.cells) /\ (p + 1) + k <= Len(u.cells) /\ p + 1 >= p
    BY <1>1, <1>2
  <2> HIDE DEF k
  <2> QED BY <1>1, <1>2, <2>1, <2>2, CopyDownFits
<1>k. k \in Nat /\ (p + 1) + k = d.n
  BY <1>1
<1> HIDE DEF w, k
<1>5. ASSUME NEW i \in 1 .. Len(d.cells)
      PROVE  w.cells[i] = IF p + 1 < i /\ i <= d.n + 1 THEN d.cells[i - 1] ELSE d.cells[i]
  <2>1. w.cells[i] = IF p + 1 < i /\ i <= (p + 1) + k THEN u.cells[i - (p + 1) + p] ELSE u.cells[i]
    BY <1>2, <1>4 DEF Copied
  <2>2. CASE p + 1 < i /\ i <= d.n
    <3>1. i - (p + 1) + p = i - 1 /\ i - 1 \in 1 .. Len(d.cells) /\ i - 1 # d.n + 1 /\ i <= d.n + 1
      BY <2>2, <1>1
    <3> QED BY <2>1, <2>2, <3>1, <1>2, <1>k
  <2>3. CASE i = d.n + 1
    <3>1. ~(i <= d.n) /\ i - 1 = d.n /\ p + 1 < i
      BY <2>3, <1>1
    <3> QED BY <2>1, <2>3, <3>1, <1>2, <1>k
  <2>4. CASE ~(p + 1 < i /\ i <= d.n) /\ i # d.n + 1
    <3>1. ~(p + 1 < i /\ i <= d.n + 1)
      BY <2>4, <1>1
    <3> QED BY <2>1, <2>4, <3>1, <1>2, <1>k
  <2> QED BY <2>2, <2>3, <2>4
<1> QED BY <1>2, <1>3, <1>4, <1>5 DEF Copied

(* At the end there is nothing to move up, and move_backward does not end. *)
LEMMA OpenedAtEnd ==
    ASSUME NEW d, Good(d), d.ok, Room(d) # 0
    PROVE  Opened(d, d.n) \in Vectors /\ Opened(d, d.n).ok = FALSE /\ Len(Opened(d, d.n).cells) = Len(d.cells)
<1> DEFINE u == LastUp(d)
           w == [u EXCEPT !.ok = FALSE]
<1>1. u \in Vectors /\ u.n = d.n + 1 /\ Len(u.cells) = Len(d.cells) /\ d.n \in Nat
  BY GoodFacts, LastUpIs
<1>2. Opened(d, d.n) = w
  <2>1. u.n - 2 - d.n < 0
    BY <1>1
  <2>2. MoveDown(u, d.n, d.n + 1, u.n - 2 - d.n) = w
    BY <2>1 DEF MoveDown
  <2> QED BY <2>2 DEF Opened, LastUp
<1> HIDE DEF u
<1>3. w \in Vectors /\ w.ok = FALSE /\ w.cells = u.cells
  BY <1>1 DEF Vectors
<1> QED BY <1>1, <1>2, <1>3

LEMMA EmplaceReplaces ==
    ASSUME NEW d, Good(d), d.ok, NEW p \in 0 .. d.n, NEW v \in Int, Room(d) = 0 \/ p < d.n
    PROVE  Replaced(d, p, p, <<v>>, Placed(d, p, v))
<1> DEFINE s == <<v>>
<1>1. s \in Seq(Int) /\ Len(s) = 1 /\ s[1] = v
  BY OneIs
<1>2. d \in Vectors /\ d.n \in Nat /\ Len(d.cells) \in Nat /\ d.n <= Len(d.cells) /\ Room(d) = Len(d.cells) - d.n
  BY GoodFacts DEF Good
<1>3. CASE Room(d) = 0
  <2> DEFINE cap == IF d.n = 0 THEN 1 ELSE 2 * d.n
             b   == Buffer(Part(d, 0, p) \o s \o Part(d, p, d.n), cap)
  <2>1. cap \in Nat /\ d.n + Len(s) <= cap
    BY <1>1, <1>2
  <2>2. Placed(d, p, v) = b
    BY <1>2, <1>3 DEF Placed
  <2> HIDE DEF cap, s
  <2>3. Replaced(d, p, p, s, b)
    BY <1>1, <2>1, BufferReplaces
  <2> QED BY <2>2, <2>3 DEF s
<1>4. CASE Room(d) > 0 /\ p < d.n
  <2> DEFINE w == Opened(d, p)
             e == Poke(w, p, v)
  <2>1. /\ w \in Vectors /\ w.n = d.n + 1 /\ w.ok /\ Len(w.cells) = Len(d.cells)
        /\ \A i \in 1 .. Len(d.cells) :
              w.cells[i] = IF p + 1 < i /\ i <= d.n + 1 THEN d.cells[i - 1] ELSE d.cells[i]
    <3>1. Room(d) # 0
      BY <1>2, <1>4
    <3> QED BY <1>4, <3>1, OpenedIs
  <2>2. Placed(d, p, v) = e
    BY <1>4 DEF Placed
  <2> HIDE DEF w
  <2>3. p \in Nat /\ p < Len(w.cells)
    BY <1>2, <1>4, <2>1
  <2>4. Poked(w, p, v, e)
    BY <2>1, <2>3, PokeFits
  <2> HIDE DEF e
  <2>5. Good(e) /\ e.ok /\ e.n = d.n + 1
    BY <1>2, <1>4, <2>1, <2>4 DEF Poked, Good
  <2>6. ASSUME NEW i \in 1 .. d.n + 1 PROVE e.cells[i] = Element(d.cells, p, p, s, i)
    <3>1. i \in 1 .. Len(d.cells) /\ i <= d.n + 1
      BY <1>2, <1>4
    <3>2. e.cells[i] = IF i = p + 1 THEN v ELSE w.cells[i]
      BY <2>1, <2>4, <3>1 DEF Poked
    <3>3. CASE i <= p
      <4>1. ~(p + 1 < i) /\ i # p + 1
        BY <3>3, <2>3
      <4> QED BY <3>1, <3>2, <3>3, <4>1, <2>1 DEF Element
    <3>4. CASE i = p + 1
      <4>1. ~(i <= p) /\ i <= p + Len(s) /\ i - p = 1
        BY <3>4, <1>1, <2>3
      <4> QED BY <3>2, <3>4, <4>1, <1>1 DEF Element
    <3>5. CASE i > p + 1
      <4>1. ~(i <= p) /\ ~(i <= p + Len(s)) /\ i - Len(s) + p - p = i - 1 /\ i # p + 1
        BY <3>5, <1>1, <2>3
      <4> QED BY <3>1, <3>2, <3>5, <4>1, <2>1 DEF Element
    <3> QED BY <3>3, <3>4, <3>5, <2>3
  <2>7. Replaced(d, p, p, s, e)
    <3> HIDE DEF s
    <3> QED BY <1>1, <1>2, <2>3, <2>5, <2>6 DEF Replaced
  <2> QED BY <2>2, <2>7
<1> QED BY <1>2, <1>3, <1>4

LEMMA EmplaceFails ==
    ASSUME NEW d, Good(d), d.ok, Room(d) # 0, NEW v \in Int
    PROVE  ~Placed(d, d.n, v).ok
<1> DEFINE w == Opened(d, d.n)
           e == Poke(w, d.n, v)
<1>1. d.n \in Nat /\ d.n < Len(d.cells) /\ Room(d) > 0
  BY GoodFacts DEF Good
<1>2. w \in Vectors /\ w.ok = FALSE /\ Len(w.cells) = Len(d.cells)
  BY OpenedAtEnd
<1>3. Placed(d, d.n, v) = e
  BY <1>1 DEF Placed
<1> HIDE DEF w
<1>4. Poked(w, d.n, v, e)
  BY <1>1, <1>2, PokeFits
<1> QED BY <1>2, <1>3, <1>4 DEF Poked

LEMMA PushBackReplaces ==
    ASSUME NEW d, Good(d), d.ok, NEW v \in Int
    PROVE  Replaced(d, d.n, d.n, <<v>>, Pushed(d, v))
<1>1. d \in Vectors /\ d.n \in Nat /\ Len(d.cells) \in Nat /\ d.n <= Len(d.cells) /\ Room(d) = Len(d.cells) - d.n
  BY GoodFacts DEF Good
<1>2. CASE Room(d) > 0
  <2> DEFINE f == Poke(d, d.n, v)
             m == d.n + 1
             e == [f EXCEPT !.n = m]
             s == <<v>>
  <2>1. Poked(d, d.n, v, f)
    BY <1>1, <1>2, PokeFits
  <2>2. f \in Vectors /\ f.n = d.n /\ f.ok = d.ok /\ Len(f.cells) = Len(d.cells) /\ m \in Nat /\ m <= Len(d.cells)
    BY <1>1, <1>2, <2>1 DEF Poked
  <2>3. Pushed(d, v) = e
    BY <1>2, <2>2 DEF Pushed
  <2> HIDE DEF f
  <2>4. e \in Vectors /\ e.n = m /\ e.cells = f.cells /\ e.ok = f.ok
    <3> HIDE DEF m
    <3> QED BY <2>2, SizedIs
  <2> HIDE DEF e
  <2>5. Good(e) /\ e.ok
    BY <2>2, <2>4 DEF Good
  <2>6. s \in Seq(Int) /\ Len(s) = 1 /\ s[1] = v
    BY OneIs
  <2>7. ASSUME NEW i \in 1 .. m PROVE e.cells[i] = Element(d.cells, d.n, d.n, s, i)
    <3>1. i \in 1 .. Len(d.cells)
      BY <2>2
    <3>2. CASE i = d.n + 1
      <4>1. ~(i <= d.n) /\ i <= d.n + Len(s) /\ i - d.n = 1
        BY <3>2, <2>6, <1>1
      <4> QED BY <3>1, <3>2, <4>1, <2>1, <2>4, <2>6 DEF Poked, Element
    <3>3. CASE i # d.n + 1
      <4>1. i <= d.n
        BY <3>3, <1>1
      <4> QED BY <3>1, <3>3, <4>1, <2>1, <2>4 DEF Poked, Element
    <3> QED BY <3>2, <3>3
  <2>8. e.n = d.n + Len(s) - (d.n - d.n)
    BY <2>4, <2>6, <1>1
  <2> HIDE DEF s
  <2>9. Replaced(d, d.n, d.n, s, e)
    BY <2>4, <2>5, <2>7, <2>8 DEF Replaced
  <2> QED BY <2>3, <2>9 DEF s
<1>3. CASE ~(Room(d) > 0)
  <2>1. Room(d) = 0 /\ d.n \in 0 .. d.n
    BY <1>1, <1>3
  <2>2. Pushed(d, v) = Placed(d, d.n, v)
    BY <1>3 DEF Pushed
  <2>3. Replaced(d, d.n, d.n, <<v>>, Placed(d, d.n, v))
    BY <2>1, EmplaceReplaces
  <2> QED BY <2>2, <2>3
<1> QED BY <1>2, <1>3

LEMMA PushBackHolds ==
    ASSUME NEW d, Good(d), d.ok, NEW v \in Int
    PROVE  Holds(Pushed(d, v), Append(Contents(d), v))
<1> DEFINE e == Pushed(d, v)
           c == Contents(d)
           s == <<v>>
           t == Append(c, v)
<1>1. d.n \in Nat
  BY GoodFacts
<1>2. Replaced(d, d.n, d.n, s, e)
  BY PushBackReplaces
<1>3. s \in Seq(Int) /\ Len(s) = 1 /\ s[1] = v
  BY OneIs
<1>4. c \in Seq(Int) /\ Len(c) = d.n /\ \A i \in 1 .. d.n : c[i] = d.cells[i]
  BY ContentsIs
<1> HIDE DEF c, e, s
<1>5. t \in Seq(Int) /\ Len(t) = d.n + 1 /\ (\A i \in 1 .. d.n : t[i] = c[i]) /\ t[d.n + 1] = v
  BY <1>4, AppendProperties
<1> HIDE DEF t
<1>6. Good(e) /\ e.ok /\ e.n = d.n + 1
  BY <1>1, <1>2, <1>3 DEF Replaced
<1>7. ASSUME NEW i \in 1 .. Len(t) PROVE e.cells[i] = t[i]
  <2>1. e.cells[i] = Element(d.cells, d.n, d.n, s, i)
    BY <1>2, <1>5, <1>6 DEF Replaced
  <2>2. CASE i = d.n + 1
    <3>1. ~(i <= d.n) /\ i <= d.n + Len(s) /\ i - d.n = 1
      BY <2>2, <1>1, <1>3
    <3> QED BY <2>1, <2>2, <3>1, <1>3, <1>5 DEF Element
  <2>3. CASE i # d.n + 1
    <3>1. i <= d.n /\ i \in 1 .. d.n
      BY <2>3, <1>1, <1>5
    <3> QED BY <2>1, <3>1, <1>4, <1>5 DEF Element
  <2> QED BY <2>2, <2>3
<1>8. Holds(e, t)
  BY <1>5, <1>6, <1>7, HoldsIs
<1> QED BY <1>8 DEF e, t, c

LEMMA PopBackHolds ==
    ASSUME NEW d, Good(d), d.ok, d.n > 0
    PROVE  Good(PopBack(d)) /\ Holds(PopBack(d), Front(Contents(d)))
<1> DEFINE m == d.n - 1
           e == [d EXCEPT !.n = m]
           c == Contents(d)
           t == SubSeq(c, 1, m)
<1>1. d \in Vectors /\ d.n \in Nat /\ m \in Nat /\ Len(d.cells) \in Nat /\ d.n <= Len(d.cells)
  BY GoodFacts DEF Good
<1>2. PopBack(d) = e
  BY DEF PopBack
<1>3. e \in Vectors /\ e.n = m /\ e.cells = d.cells /\ e.ok = d.ok
  <2> HIDE DEF m
  <2> QED BY <1>1, SizedIs
<1> HIDE DEF e
<1>4. c \in Seq(Int) /\ Len(c) = d.n /\ \A i \in 1 .. d.n : c[i] = d.cells[i]
  BY ContentsIs
<1>5. Front(c) = t
  BY <1>4 DEF Front
<1> HIDE DEF c
<1>6. t \in Seq(Int) /\ Len(t) = m /\ \A i \in 1 .. m : t[i] = c[i]
  <2>1. \A i \in 1 .. m : c[i] \in Int
    BY <1>1, <1>4, ElementOfSeq
  <2>2. t \in Seq(Int) /\ Len(t) = IF 1 <= m THEN m - 1 + 1 ELSE 0
    BY <1>1, <2>1, SubSeqProperties
  <2>3. \A i \in 1 .. m - 1 + 1 : t[i] = c[1 + i - 1]
    BY <1>1, <2>1, SubSeqProperties
  <2> QED BY <1>1, <2>2, <2>3
<1> HIDE DEF t
<1>7. Good(e) /\ e.ok
  BY <1>1, <1>3 DEF Good
<1>8. ASSUME NEW i \in 1 .. Len(t) PROVE e.cells[i] = t[i]
  BY <1>1, <1>3, <1>4, <1>6
<1>9. Holds(e, t)
  BY <1>3, <1>6, <1>7, <1>8, HoldsIs
<1> QED BY <1>2, <1>5, <1>7, <1>9 DEF c

-----------------------------------------------------------------------------
(* Erasing.                                                                *)

LEMMA NoneIs == <<>> \in Seq(Int) /\ Len(<<>>) = 0
OBVIOUS

LEMMA EraseReplaces ==
    ASSUME NEW d, Good(d), d.ok, NEW q \in 0 .. d.n, NEW p \in 0 .. q
    PROVE  Replaced(d, p, q, <<>>, EraseRange(d, p, q))
<1> DEFINE k == d.n - q
           f == CopyUp(d, q, p, k)
           m == d.n - (q - p)
           e == [f EXCEPT !.n = m]
           s == <<>>
<1>1. d \in Vectors /\ d.n \in Nat /\ Len(d.cells) \in Nat /\ d.n <= Len(d.cells) /\ p \in Nat /\ q \in Nat /\ p <= q /\ q <= d.n
  BY GoodFacts DEF Good
<1>2. k \in Nat /\ m \in Nat /\ q + k = d.n /\ p + k = m /\ m <= d.n
  BY <1>1
<1> HIDE DEF k
<1>3. Copied(d, q, p, k, f)
  <2>1. q + k <= Len(d.cells) /\ p + k <= Len(d.cells)
    BY <1>1, <1>2
  <2> QED BY <1>1, <1>2, <2>1, CopyUpFits
<1>4. EraseRange(d, p, q) = e
  <2>1. f.n = d.n
    BY <1>3 DEF Copied
  <2> QED BY <2>1 DEF EraseRange, k
<1> HIDE DEF f
<1>5. e \in Vectors /\ e.n = m /\ e.cells = f.cells /\ e.ok = d.ok
  <2>1. f \in Vectors /\ f.ok = d.ok
    BY <1>3 DEF Copied
  <2> HIDE DEF m
  <2> QED BY <1>2, <2>1, SizedIs
<1> HIDE DEF e
<1>6. Good(e)
  BY <1>1, <1>2, <1>3, <1>5 DEF Good, Copied
<1>7. s \in Seq(Int) /\ Len(s) = 0
  BY NoneIs
<1> HIDE DEF s
<1>8. ASSUME NEW i \in 1 .. m PROVE e.cells[i] = Element(d.cells, p, q, s, i)
  <2>1. i \in 1 .. Len(d.cells)
    BY <1>1, <1>2
  <2>2. e.cells[i] = IF p < i /\ i <= p + k THEN d.cells[i - p + q] ELSE d.cells[i]
    BY <2>1, <1>3, <1>5 DEF Copied
  <2>3. CASE i <= p
    BY <2>2, <2>3, <1>1 DEF Element
  <2>4. CASE ~(i <= p)
    <3>1. p < i /\ i <= p + k /\ ~(i <= p + Len(s)) /\ i - Len(s) + q - p = i - p + q
      BY <2>4, <1>1, <1>2, <1>7
    <3> QED BY <2>2, <2>4, <3>1 DEF Element
  <2> QED BY <2>3, <2>4
<1>9. Replaced(d, p, q, s, e)
  BY <1>1, <1>5, <1>6, <1>7, <1>8 DEF Replaced
<1> QED BY <1>4, <1>9 DEF s

LEMMA EraseHolds ==
    ASSUME NEW d, Good(d), d.ok, NEW q \in 0 .. d.n, NEW p \in 0 .. q
    PROVE  Holds(EraseRange(d, p, q), SubSeq(Contents(d), 1, p) \o SubSeq(Contents(d), q + 1, d.n))
<1> DEFINE s == SubSeq(Contents(d), 1, p)
<1>1. Replaced(d, p, q, <<>>, EraseRange(d, p, q))
  BY EraseReplaces
<1>2. Holds(EraseRange(d, p, q), s \o <<>> \o SubSeq(Contents(d), q + 1, d.n))
  BY <1>1, NoneIs, ReplacedHolds
<1>3. s \in Seq(Int)
  <2>1. d.n \in Nat /\ p \in Nat /\ p <= d.n
    BY GoodFacts
  <2>2. \A i \in 1 .. p : Contents(d)[i] \in Int
    BY <2>1, ContentsIs, ElementOfSeq
  <2> QED BY <2>1, <2>2, SubSeqProperties
<1> HIDE DEF s
<1>4. s \o <<>> = s
  BY <1>3, ConcatEmptySeq
<1> QED BY <1>2, <1>4 DEF s

LEMMA EraseOneIs ==
    ASSUME NEW d, Good(d), NEW p \in 0 .. d.n, p < d.n PROVE EraseOne(d, p) = EraseRange(d, p, p + 1)
<1>1. d.n \in Nat /\ d.n - p - 1 = d.n - (p + 1) /\ (p + 1) - p = 1
  BY GoodFacts
<1> QED BY <1>1 DEF EraseOne, EraseRange

-----------------------------------------------------------------------------
(* Inserting.                                                              *)

(* The last n elements go to the free cells, those from p on after them.   *)
TailUp(d, n) == [CopyUp(d, d.n - n, d.n, n) EXCEPT !.n = @ + n]

(* w has the elements of d, those from p on n cells further up.            *)
Shifted(d, p, n, w) ==
    /\ w \in Vectors /\ w.n = d.n + n /\ w.ok = d.ok /\ Len(w.cells) = Len(d.cells)
    /\ \A i \in 1 .. Len(d.cells) :
         w.cells[i] = IF (p + n < i \/ d.n < i) /\ i <= d.n + n THEN d.cells[i - n] ELSE d.cells[i]

LEMMA CopiedUpIs ==
    ASSUME NEW d, Good(d), d.ok, NEW p \in 0 .. d.n, NEW n \in Nat, n <= d.n, d.n + n <= Len(d.cells)
    PROVE  Shifted(d, p, n, CopiedUp(d, p, n))
<1> DEFINE f == CopyUp(d, d.n - n, d.n, n)
           u == TailUp(d, n)
           j == d.n - n
           m == d.n + n
           k == d.n - n - p
           l == Larger(k, 0)
           w == CopyDown(u, p, p + n, k)
<1>1. d \in Vectors /\ d.n \in Nat /\ Len(d.cells) \in Nat /\ d.n <= Len(d.cells) /\ p \in Nat /\ p <= d.n
  BY GoodFacts DEF Good
<1>2. j \in Nat /\ m \in Nat /\ j + n = d.n /\ k \in Int /\ p + n \in Nat /\ p + n <= m
  BY <1>1
<1>3. Copied(d, j, d.n, n, f)
  <2>1. j + n <= Len(d.cells) /\ d.n >= j + n
    BY <1>1, <1>2, SMTT(30)
  <2> HIDE DEF j
  <2>2. Copied(d, j, d.n, n, CopyUp(d, j, d.n, n))
    BY <1>1, <1>2, <2>1, CopyUpFits
  <2> QED BY <2>2 DEF j
<1> HIDE DEF f, j
<1>4. u \in Vectors /\ u.n = m /\ u.cells = f.cells /\ u.ok = d.ok /\ Len(u.cells) = Len(d.cells)
  <2>1. f \in Vectors /\ f.n = d.n /\ f.ok = d.ok /\ Len(f.cells) = Len(d.cells)
    BY <1>3 DEF Copied
  <2> DEFINE g == [f EXCEPT !.n = m]
  <2>2. u = g
    BY <2>1 DEF TailUp, f
  <2>3. g \in Vectors /\ g.n = m /\ g.cells = f.cells /\ g.ok = f.ok
    <3> HIDE DEF m
    <3> QED BY <1>2, <2>1, SizedIs
  <2> HIDE DEF g, m, u
  <2> QED BY <2>1, <2>2, <2>3
<1> HIDE DEF u
<1>5. l \in Nat /\ (p + n < d.n => p + n + l = d.n) /\ (p + n >= d.n => l = 0)
  <2>k. k \in Int
    BY <1>2
  <2>1. (p + n < d.n <=> k > 0) /\ p + n + k = d.n
    <3> DEFINE z == d.n
    <3>1. z \in Nat /\ p \in Nat /\ k = z - n - p
      BY <1>1
    <3> HIDE DEF z, k
    <3>2. (p + n < z <=> k > 0) /\ p + n + k = z
      BY <3>1, <2>k
    <3> QED BY <3>2 DEF z
  <2> HIDE DEF k
  <2>2. l \in Nat /\ (k >= 0 => l = k) /\ (k <= 0 => l = 0)
    BY <2>k, LargerIs
  <2> HIDE DEF l
  <2> QED BY <1>1, <2>1, <2>k, <2>2
<1>m. m = d.n + n /\ k = d.n - n - p
  OBVIOUS
<1> HIDE DEF m, k
<1>6. Copied(u, p, p + n, l, w)
  <2>1. p + l <= Len(u.cells) /\ (p + n) + l <= Len(u.cells) /\ p + n >= p
    <3> HIDE DEF l
    <3>1. p + n + l <= Len(d.cells)
      BY <1>1, <1>5
    <3> QED BY <3>1, <1>1, <1>4, <1>5
  <2> HIDE DEF l
  <2>2. l = Larger(k, 0)
    BY DEF l
  <2> QED BY <1>1, <1>2, <1>4, <1>5, <2>1, <2>2, CopyDownFits
<1>w. w = CopiedUp(d, p, n)
  BY DEF CopiedUp, w, u, TailUp, k
<1> HIDE DEF w, l
<1>7. w \in Vectors /\ w.n = d.n + n /\ w.ok = d.ok /\ Len(w.cells) = Len(d.cells)
  BY <1>4, <1>6, <1>m DEF Copied
<1>8. ASSUME NEW i \in 1 .. Len(d.cells)
      PROVE  w.cells[i] = IF (p + n < i \/ d.n < i) /\ i <= d.n + n THEN d.cells[i - n] ELSE d.cells[i]
  <2>1. Len(u.cells) = Len(d.cells) /\ i \in Nat /\ 1 <= i
    BY <1>1, <1>4
  <2>2. w.cells[i] = IF p + n < i /\ i <= p + n + l THEN u.cells[i - (p + n) + p] ELSE u.cells[i]
    BY <2>1, <1>6 DEF Copied
  <2>3. \A h \in 1 .. Len(d.cells) : u.cells[h] = IF d.n < h /\ h <= m THEN d.cells[h - d.n + j] ELSE d.cells[h]
    BY <1>3, <1>4, <1>m DEF Copied
  <2>4. CASE p + n < i /\ i <= d.n
    <3>1. i <= p + n + l /\ i - (p + n) + p = i - n /\ i - n \in 1 .. Len(d.cells) /\ ~(d.n < i - n)
      BY <2>4, <1>1, <1>5
    <3>2. i <= d.n + n
      BY <2>4, <1>1
    <3> QED BY <2>2, <2>3, <2>4, <3>1, <3>2
  <2>5. CASE d.n < i
    <3>1. p + n + l <= d.n \/ l = 0
      BY <1>1, <1>5
    <3>2. ~(p + n < i /\ i <= p + n + l)
      BY <2>5, <3>1, <1>1, <1>5
    <3>3. i - d.n + j = i - n
      BY <1>1, <1>2
    <3> QED BY <2>1, <2>2, <2>3, <2>5, <3>2, <3>3, <1>m
  <2>6. CASE ~(p + n < i) /\ ~(d.n < i)
    BY <2>1, <2>2, <2>3, <2>6
  <2> QED BY <2>4, <2>5, <2>6, <1>1
<1>9. Shifted(d, p, n, w)
  BY <1>7, <1>8 DEF Shifted
<1> QED BY <1>9, <1>w

LEMMA TailMovesUp ==
    ASSUME NEW d, Good(d), d.ok, NEW p \in 0 .. d.n, NEW vs \in Seq(Int), NEW n \in Nat, n = Len(vs),
           n <= d.n, d.n + n <= Len(d.cells)
    PROVE  Replaced(d, p, p, vs, Store(CopiedUp(d, p, n), p, vs))
<1> DEFINE w == CopiedUp(d, p, n)
           e == Store(w, p, vs)
<1>1. d.n \in Nat /\ Len(d.cells) \in Nat /\ p \in Nat /\ p <= d.n
  BY GoodFacts DEF Good
<1>2. Shifted(d, p, n, w)
  BY CopiedUpIs
<1> HIDE DEF w
<1>3. Filled(w, p, vs, e)
  <2>1. w \in Vectors /\ p + Len(vs) <= Len(w.cells)
    BY <1>1, <1>2 DEF Shifted
  <2> QED BY <1>1, <2>1, StoreFits
<1> HIDE DEF e
<1>4. e \in Vectors /\ e.n = d.n + n /\ Len(e.cells) = Len(d.cells) /\ e.ok
  BY <1>2, <1>3 DEF Filled, Shifted
<1>5. ASSUME NEW i \in 1 .. d.n + n PROVE e.cells[i] = Element(d.cells, p, p, vs, i)
  <2>1. i \in 1 .. Len(d.cells) /\ i <= d.n + n
    BY <1>1
  <2>2. e.cells[i] = IF p < i /\ i <= p + n THEN vs[i - p] ELSE w.cells[i]
    BY <2>1, <1>2, <1>3 DEF Filled, Shifted
  <2>3. w.cells[i] = IF p + n < i \/ d.n < i THEN d.cells[i - n] ELSE d.cells[i]
    BY <2>1, <1>2 DEF Shifted
  <2>4. CASE i <= p
    <3>1. ~(p < i) /\ ~(p + n < i) /\ ~(d.n < i)
      BY <2>4, <1>1
    <3> QED BY <2>2, <2>3, <2>4, <3>1 DEF Element
  <2>5. CASE p < i /\ i <= p + n
    <3>1. ~(i <= p)
      BY <2>5, <1>1
    <3> QED BY <2>2, <2>5, <3>1 DEF Element
  <2>6. CASE p + n < i
    <3>1. ~(i <= p) /\ ~(i <= p + n) /\ i - n + p - p = i - n
      BY <2>6, <1>1
    <3> QED BY <2>2, <2>3, <2>6, <3>1 DEF Element
  <2> QED BY <2>4, <2>5, <2>6, <1>1
<1>6. e.n = d.n + Len(vs) - (p - p) /\ Good(e)
  BY <1>1, <1>4 DEF Good
<1>7. Replaced(d, p, p, vs, e)
  BY <1>4, <1>5, <1>6 DEF Replaced
<1> QED BY <1>7 DEF e, w

(* The last of vs go to the free cells, the elements from p on after them. *)
RestStored(d, rest, n, k) == [Store(d, d.n, rest) EXCEPT !.n = @ + n - k]
TailBehind(w, p, k)       == [CopyUp(w, p, w.n, k) EXCEPT !.n = @ + k]

(* The first k of the n elements of vs, and the rest.                      *)
Halves(vs, n, k, first, rest) ==
    /\ rest \in Seq(Int) /\ k + Len(rest) = n /\ \A i \in 1 .. n - k : rest[i] = vs[k + i]
    /\ first \in Seq(Int) /\ Len(first) = k /\ \A i \in 1 .. k : first[i] = vs[i]

LEMMA RestGoesFirst ==
    ASSUME NEW d, Good(d), d.ok, NEW p \in 0 .. d.n, NEW vs \in Seq(Int), NEW n \in Nat, n = Len(vs),
           NEW k \in Nat, p + k = d.n, k <= n, d.n + n <= Len(d.cells),
           NEW first, NEW rest, Halves(vs, n, k, first, rest)
    PROVE  Replaced(d, p, p, vs, Store(TailBehind(RestStored(d, rest, n, k), p, k), p, first))
<1> DEFINE f == Store(d, d.n, rest)
           w == RestStored(d, rest, n, k)
           l == d.n + n - k
           m == d.n + n
           g == CopyUp(w, p, w.n, k)
           x == TailBehind(w, p, k)
           e == Store(x, p, first)
<1>1. d \in Vectors /\ d.n \in Nat /\ Len(d.cells) \in Nat /\ d.n <= Len(d.cells) /\ p \in Nat /\ p <= d.n
  BY GoodFacts DEF Good
<1>h. /\ rest \in Seq(Int) /\ first \in Seq(Int) /\ Len(rest) \in Nat /\ Len(first) \in Nat
      /\ k + Len(rest) = n /\ Len(first) = k
  BY LenProperties DEF Halves
<1>2. l \in Nat /\ m \in Nat /\ l + k = m /\ l <= m /\ d.n <= l /\ l = d.n + Len(rest)
  <2>1. l \in Nat /\ m \in Nat
    BY <1>1
  <2>2. l + k = m
    BY <1>1
  <2>3. l <= m
    BY <1>1
  <2>4. d.n <= l
    BY <1>1
  <2>5. l = d.n + Len(rest)
    BY <1>1, <1>h, SMTT(30)
  <2> QED BY <2>1, <2>2, <2>3, <2>4, <2>5
<1>3. Filled(d, d.n, rest, f)
  <2>1. d.n + Len(rest) <= Len(d.cells)
    <3>1. Len(rest) <= n
      BY <1>h
    <3> QED BY <1>1, <1>h, <3>1
  <2> QED BY <1>1, <1>h, <2>1, StoreFits
<1> HIDE DEF f
<1>4. w \in Vectors /\ w.n = l /\ w.cells = f.cells /\ w.ok = d.ok /\ Len(w.cells) = Len(d.cells)
  <2>1. f \in Vectors /\ f.n = d.n /\ f.ok = d.ok /\ Len(f.cells) = Len(d.cells)
    BY <1>3 DEF Filled
  <2> DEFINE h == [f EXCEPT !.n = l]
  <2>2. w = h
    BY <2>1 DEF RestStored, f
  <2>3. h \in Vectors /\ h.n = l /\ h.cells = f.cells /\ h.ok = f.ok
    <3> HIDE DEF l
    <3> QED BY <1>2, <2>1, SizedIs
  <2> HIDE DEF h, l, w
  <2> QED BY <2>1, <2>2, <2>3
<1> HIDE DEF w
<1>l. l = d.n + n - k /\ m = d.n + n
  OBVIOUS
<1> HIDE DEF l, m
<1>5. Copied(w, p, l, k, g)
  <2>1. p + k <= Len(w.cells) /\ l + k <= Len(w.cells)
    BY <1>1, <1>2, <1>4, <1>l
  <2>2. l >= p + k
    BY <1>2
  <2>3. Copied(w, p, l, k, CopyUp(w, p, l, k))
    BY <1>1, <1>2, <1>4, <2>1, <2>2, CopyUpFits
  <2> QED BY <1>4, <2>3
<1>6. x \in Vectors /\ x.n = m /\ x.cells = g.cells /\ x.ok = d.ok /\ Len(x.cells) = Len(d.cells)
  <2>1. g \in Vectors /\ g.n = l /\ g.ok = d.ok /\ Len(g.cells) = Len(d.cells)
    BY <1>4, <1>5 DEF Copied
  <2> DEFINE h == [g EXCEPT !.n = m]
  <2>2. x = h
    BY <2>1, <1>2 DEF TailBehind
  <2> HIDE DEF g
  <2>3. h \in Vectors /\ h.n = m /\ h.cells = g.cells /\ h.ok = g.ok
    BY <1>2, <2>1, SizedIs
  <2> HIDE DEF h, x
  <2> QED BY <2>1, <2>2, <2>3
<1> HIDE DEF g, x
<1>7. Filled(x, p, first, e)
  <2>1. p + Len(first) <= Len(x.cells)
    BY <1>1, <1>6, <1>h
  <2> QED BY <1>1, <1>6, <1>h, <2>1, StoreFits
<1> HIDE DEF e
<1>8. e \in Vectors /\ e.n = m /\ Len(e.cells) = Len(d.cells) /\ e.ok
  BY <1>6, <1>7 DEF Filled
<1>9. ASSUME NEW i \in 1 .. m PROVE e.cells[i] = Element(d.cells, p, p, vs, i)
  <2>1. i \in 1 .. Len(d.cells)
    BY <1>1, <1>l, SMTT(30)
  <2>2. e.cells[i] = IF p < i /\ i <= p + k THEN first[i - p] ELSE g.cells[i]
    BY <2>1, <1>6, <1>7, <1>h DEF Filled
  <2>3. g.cells[i] = IF l < i /\ i <= l + k THEN f.cells[i - l + p] ELSE f.cells[i]
    BY <2>1, <1>4, <1>5 DEF Copied
  <2>4. \A h \in 1 .. Len(d.cells) : f.cells[h] = IF d.n < h /\ h <= d.n + Len(rest) THEN rest[h - d.n] ELSE d.cells[h]
    BY <1>3 DEF Filled
  <2>5. CASE i <= p
    <3>a. ~(d.n < i)
      BY <2>5, <1>1
    <3>b. ~(l < i)
      BY <3>a, <1>1, <1>2
    <3>1. ~(p < i) /\ ~(l < i) /\ ~(d.n < i)
      BY <2>5, <3>a, <3>b, <1>1
    <3> QED BY <2>1, <2>2, <2>3, <2>4, <2>5, <3>1 DEF Element
  <2>6. CASE p < i /\ i <= p + k
    <3>1. ~(i <= p) /\ i <= p + Len(vs) /\ i - p \in 1 .. k
      BY <2>6, <1>1
    <3> QED BY <2>2, <2>6, <3>1 DEF Element, Halves
  <2>7. CASE p + k < i /\ i <= l
    <3>a. d.n < i
      BY <2>7
    <3>b. ~(i <= p)
      BY <2>7, <1>1
    <3>c. i <= d.n + Len(rest) /\ ~(l < i)
      BY <2>7, <1>2
    <3>1. ~(i <= p) /\ ~(i <= p + k) /\ d.n < i /\ ~(l < i) /\ i <= d.n + Len(rest)
      BY <2>7, <3>a, <3>b, <3>c, <1>1
    <3>2. e.cells[i] = rest[i - d.n]
      BY <2>1, <2>2, <2>3, <2>4, <3>1
    <3>d. i <= p + n
      BY <2>7, <1>1, <1>2, <1>l
    <3>e. k + (i - d.n) = i - p
      BY <1>1
    <3>f. i - d.n <= n - k /\ i - d.n \in Int
      BY <2>7, <1>1, <1>l, SMTT(30)
    <3>g. 1 <= i - d.n
      BY <3>a, <1>1
    <3>3. i <= p + Len(vs) /\ i - d.n \in 1 .. n - k /\ k + (i - d.n) = i - p
      BY <3>d, <3>e, <3>f, <3>g
    <3>4. rest[i - d.n] = vs[i - p]
      BY <3>3 DEF Halves
    <3> QED BY <3>1, <3>2, <3>3, <3>4 DEF Element
  <2>8. CASE l < i
    <3>a. i <= l + k
      BY <1>2
    <3>b. d.n < i
      BY <2>8, <1>1, <1>2
    <3>c. p + n < i
      BY <2>8, <1>1, <1>l
    <3>1. ~(i <= p) /\ ~(i <= p + k) /\ ~(i <= p + Len(vs)) /\ i <= l + k
      BY <3>a, <3>b, <3>c, <1>1
    <3>2. i - Len(vs) + p - p = i - l + p
      BY <1>1, <1>l
    <3>g. i - l <= k
      BY <1>2, SMTT(30)
    <3>h. 1 <= i - l
      BY <2>8, <1>2
    <3>d. i - l <= k /\ 1 <= i - l /\ i - l \in Int
      BY <3>g, <3>h, <1>2
    <3>e. i - l + p <= d.n
      BY <3>d, <1>1
    <3>f. 1 <= i - l + p /\ i - l + p \in Int
      BY <3>d, <1>1, SMTT(30)
    <3>3. i - l + p \in 1 .. Len(d.cells) /\ ~(d.n < i - l + p)
      BY <3>e, <3>f, <1>1
    <3>4. f.cells[i - l + p] = d.cells[i - l + p]
      BY <2>4, <3>3
    <3> QED BY <2>2, <2>3, <2>8, <3>1, <3>2, <3>4 DEF Element
  <2>9. i <= p \/ (p < i /\ i <= p + k) \/ (p + k < i /\ i <= l) \/ l < i
    BY <1>1, <1>2
  <2> QED BY <2>5, <2>6, <2>7, <2>8, <2>9
<1>10. e.n = d.n + Len(vs) - (p - p) /\ Good(e)
  BY <1>1, <1>8, <1>l DEF Good
<1>11. Replaced(d, p, p, vs, e)
  BY <1>8, <1>9, <1>10 DEF Replaced
<1> QED BY <1>11 DEF e, x, w

LEMMA HalvesOf ==
    ASSUME NEW vs \in Seq(Int), NEW n \in Nat, n = Len(vs), NEW k \in 0 .. n
    PROVE  Halves(vs, n, k, SubSeq(vs, 1, k), SubSeq(vs, k + 1, n))
<1> DEFINE a1 == SubSeq(vs, 1, k)
           a2 == SubSeq(vs, k + 1, n)
<1>1. a1 \in Seq(Int) /\ Len(a1) = k /\ \A i \in 1 .. k : a1[i] = vs[i]
  <2>1. \A i \in 1 .. k : vs[i] \in Int
    BY ElementOfSeq
  <2>2. a1 \in Seq(Int) /\ Len(a1) = IF 1 <= k THEN k - 1 + 1 ELSE 0
    BY <2>1, SubSeqProperties
  <2>3. \A i \in 1 .. k - 1 + 1 : a1[i] = vs[1 + i - 1]
    BY <2>1, SubSeqProperties
  <2> QED BY <2>2, <2>3
<1>2. a2 \in Seq(Int) /\ Len(a2) = n - k /\ \A i \in 1 .. n - k : a2[i] = vs[k + i]
  <2>1. \A i \in k + 1 .. n : vs[i] \in Int
    BY ElementOfSeq
  <2>2. a2 \in Seq(Int) /\ Len(a2) = IF k + 1 <= n THEN n - (k + 1) + 1 ELSE 0
    BY <2>1, SubSeqProperties
  <2>3. \A i \in 1 .. n - (k + 1) + 1 : a2[i] = vs[(k + 1) + i - 1]
    BY <2>1, SubSeqProperties
  <2> QED BY <2>2, <2>3
<1> HIDE DEF a1, a2
<1>3. Halves(vs, n, k, a1, a2)
  BY <1>1, <1>2 DEF Halves
<1> QED BY <1>3 DEF a1, a2

LEMMA NothingReplaces ==
    ASSUME NEW d, Good(d), d.ok, NEW p \in 0 .. d.n, NEW vs, Len(vs) = 0
    PROVE  Replaced(d, p, p, vs, d)
<1>1. d.n \in Nat /\ p \in Nat
  BY GoodFacts
<1>2. ASSUME NEW i \in 1 .. d.n PROVE d.cells[i] = Element(d.cells, p, p, vs, i)
  <2>1. ~(i <= p) => ~(i <= p + Len(vs)) /\ i - Len(vs) + p - p = i
    BY <1>1
  <2> QED BY <2>1 DEF Element
<1> QED BY <1>1, <1>2 DEF Replaced

LEMMA GrowReplaces ==
    ASSUME NEW d, Good(d), NEW p \in 0 .. d.n, NEW vs \in Seq(Int)
    PROVE  Replaced(d, p, p, vs, Grow(d, p, vs))
<1> DEFINE cap == d.n + Larger(d.n, Len(vs))
<1>1. d.n \in Nat /\ Len(vs) \in Nat
  BY GoodFacts, LenProperties
<1>2. cap \in Nat /\ d.n + Len(vs) <= cap
  BY <1>1 DEF Larger
<1>3. Grow(d, p, vs) = Buffer(Part(d, 0, p) \o vs \o Part(d, p, d.n), cap)
  BY DEF Grow
<1> HIDE DEF cap
<1> QED BY <1>2, <1>3, BufferReplaces

(* A range goes to its place.                                              *)
LEMMA RangeInsertReplaces ==
    ASSUME NEW d, Good(d), d.ok, NEW p \in 0 .. d.n, NEW vs \in Seq(Int)
    PROVE  Replaced(d, p, p, vs, RangeInsert(d, p, vs))
<1> DEFINE n == Len(vs)
           k == d.n - p
           e1 == Store(CopiedUp(d, p, n), p, vs)
           e2 == Store(TailBehind(RestStored(d, SubSeq(vs, k + 1, n), n, k), p, k), p, SubSeq(vs, 1, k))
<1>1. d.n \in Nat /\ n \in Nat /\ p \in Nat /\ p <= d.n /\ Len(d.cells) \in Nat /\ Room(d) = Len(d.cells) - d.n
  BY GoodFacts, LenProperties
<1>2. CASE n = 0
  BY <1>2, NothingReplaces DEF RangeInsert
<1>3. CASE n # 0 /\ Room(d) < n
  BY <1>3, GrowReplaces DEF RangeInsert
<1>4. CASE n # 0 /\ ~(Room(d) < n) /\ k > n
  <2>1. RangeInsert(d, p, vs) = e1
    BY <1>4 DEF RangeInsert
  <2>2. n <= d.n
    BY <1>1, <1>4
  <2>3. d.n + n <= Len(d.cells)
    BY <1>1, <1>4
  <2> HIDE DEF k
  <2> QED BY <2>1, <2>2, <2>3, <1>1, TailMovesUp
<1>5. CASE n # 0 /\ ~(Room(d) < n) /\ ~(k > n)
  <2>1. RangeInsert(d, p, vs) = e2
    BY <1>5 DEF RangeInsert, TailBehind, RestStored
  <2>2. k \in Nat
    BY <1>1
  <2>3. p + k = d.n
    BY <1>1
  <2>4. k <= n
    BY <1>1, <1>5
  <2>5. d.n + n <= Len(d.cells)
    BY <1>1, <1>5
  <2> HIDE DEF k
  <2>6. Halves(vs, n, k, SubSeq(vs, 1, k), SubSeq(vs, k + 1, n))
    BY <1>1, <2>2, <2>4, HalvesOf
  <2> QED BY <2>1, <2>2, <2>3, <2>4, <2>5, <2>6, <1>1, RestGoesFirst
<1> QED BY <1>2, <1>3, <1>4, <1>5

-----------------------------------------------------------------------------
(* Inserting copies.                                                       *)

LEMMA TimesIs ==
    ASSUME NEW n \in Nat, NEW v \in Int
    PROVE  Times(n, v) \in Seq(Int) /\ Len(Times(n, v)) = n /\ \A i \in 1 .. n : Times(n, v)[i] = v
<1> DEFINE t == Times(n, v)
<1>1. DOMAIN t = 1 .. n /\ (\A i \in 1 .. n : t[i] = v) /\ t = [i \in 1 .. n |-> t[i]]
  BY DEF Times
<1> HIDE DEF t
<1>2. t \in Seq(Int) /\ Len(t) = n
  BY <1>1, FunctionSeq
<1> QED BY <1>1, <1>2 DEF t

LEMMA TimesHalves ==
    ASSUME NEW n \in Nat, NEW k \in Nat, k <= n, NEW v \in Int
    PROVE  Halves(Times(n, v), n, k, Times(k, v), Times(n - k, v))
<1> DEFINE l == n - k
           t == Times(n, v)
           first == Times(k, v)
           rest == Times(l, v)
<1>1. l \in Nat /\ k + l = n /\ (\A i \in 1 .. l : k + i \in 1 .. n) /\ (\A i \in 1 .. k : i \in 1 .. n)
  OBVIOUS
<1>l. l = n - k
  OBVIOUS
<1> HIDE DEF l
<1>2. rest \in Seq(Int) /\ Len(rest) = l /\ \A i \in 1 .. l : rest[i] = v
  BY <1>1, TimesIs
<1>3. first \in Seq(Int) /\ Len(first) = k /\ \A i \in 1 .. k : first[i] = v
  BY TimesIs
<1>4. \A i \in 1 .. n : t[i] = v
  BY TimesIs
<1> HIDE DEF t, first, rest
<1>5. Halves(t, n, k, first, rest)
  BY <1>1, <1>l, <1>2, <1>3, <1>4 DEF Halves
<1> QED BY <1>5 DEF t, first, rest, l

(* Holds says that the elements are replaced.                              *)
LEMMA HoldsReplaced ==
    ASSUME NEW d, Good(d), NEW q \in 0 .. d.n, NEW p \in 0 .. q, NEW vs \in Seq(Int), NEW e, Good(e),
           Holds(e, SubSeq(Contents(d), 1, p) \o vs \o SubSeq(Contents(d), q + 1, d.n))
    PROVE  Replaced(d, p, q, vs, e)
<1> DEFINE c == Contents(d)
           t == SubSeq(c, 1, p) \o vs \o SubSeq(c, q + 1, d.n)
<1>1. d.n \in Nat /\ Len(vs) \in Nat /\ p \in Nat /\ q \in Nat /\ p <= q /\ q <= d.n
  BY GoodFacts, LenProperties
<1>2. c \in Seq(Int) /\ Len(c) = d.n /\ \A i \in 1 .. d.n : c[i] = d.cells[i]
  BY ContentsIs
<1>h. Holds(e, t)
  OBVIOUS
<1> HIDE DEF c
<1>3. Joined(c, p, q, d.n, vs, t)
  BY <1>1, <1>2, Joins
<1> HIDE DEF t
<1>4. t \in Seq(Int) /\ Len(t) = d.n + Len(vs) - (q - p)
  BY <1>3 DEF Joined
<1>5. e.ok /\ e.n = Len(t) /\ \A i \in 1 .. Len(t) : e.cells[i] = t[i]
  BY <1>4, <1>h, HoldsIs
<1>6. ASSUME NEW i \in 1 .. Len(t) PROVE e.cells[i] = Element(d.cells, p, q, vs, i)
  <2>1. e.cells[i] = Element(c, p, q, vs, i)
    BY <1>3, <1>5 DEF Joined
  <2>2. CASE i <= p
    <3>1. i \in 1 .. d.n
      BY <2>2, <1>1
    <3> QED BY <2>1, <2>2, <3>1, <1>2 DEF Element
  <2>3. CASE ~(i <= p) /\ i <= p + Len(vs)
    BY <2>1, <2>3 DEF Element
  <2>4. CASE ~(i <= p) /\ ~(i <= p + Len(vs))
    <3>1. i - Len(vs) + q - p \in 1 .. d.n
      BY <2>4, <1>1, <1>4
    <3> QED BY <2>1, <2>4, <3>1, <1>2 DEF Element
  <2> QED BY <2>2, <2>3, <2>4
<1> QED BY <1>4, <1>5, <1>6 DEF Replaced

(* What insert does with n copies of the value v of the argument.          *)
CopiesPut(d, p, n, v) ==
    LET w == [Store(d, d.n, Times(n - p, v)) EXCEPT !.n = @ + n - p]
        y == [CopyUp(w, p, w.n, d.n - p) EXCEPT !.n = @ + p]
    IN  IF n = 0 THEN d
        ELSE IF Room(d) < n THEN Grow(d, p, Times(n, v))
        ELSE IF p > n THEN Store(CopiedUp(d, p, n), p, Times(n, v))
        ELSE Store(y, p, Times(d.n - p, v))

LEMMA InsertNReplaces ==
    ASSUME NEW d, Good(d), d.ok, NEW p \in 0 .. d.n, NEW n \in Nat, NEW v \in Int,
           n = 0 \/ Room(d) < n \/ p > n \/ p = d.n - p
    PROVE  Replaced(d, p, p, Times(n, v), CopiesPut(d, p, n, v))
<1> DEFINE vs == Times(n, v)
           e1 == Store(CopiedUp(d, p, n), p, vs)
           e2 == Store(TailBehind(RestStored(d, Times(n - p, v), n, p), p, p), p, Times(p, v))
<1>1. vs \in Seq(Int) /\ n = Len(vs)
  BY TimesIs
<1>2. d.n \in Nat /\ p \in Nat /\ p <= d.n /\ Len(d.cells) \in Nat /\ Room(d) = Len(d.cells) - d.n
  BY GoodFacts
<1>3. CASE n = 0
  <2>1. CopiesPut(d, p, n, v) = d
    BY <1>3 DEF CopiesPut
  <2> HIDE DEF vs
  <2>2. Replaced(d, p, p, vs, d)
    BY <1>1, <1>3, NothingReplaces
  <2> QED BY <2>1, <2>2 DEF vs
<1>4. CASE n # 0 /\ Room(d) < n
  <2>1. CopiesPut(d, p, n, v) = Grow(d, p, vs)
    BY <1>4 DEF CopiesPut
  <2> HIDE DEF vs
  <2>2. Replaced(d, p, p, vs, Grow(d, p, vs))
    BY <1>1, GrowReplaces
  <2> QED BY <2>1, <2>2 DEF vs
<1>5. CASE n # 0 /\ ~(Room(d) < n) /\ p > n
  <2>1. CopiesPut(d, p, n, v) = e1
    BY <1>5 DEF CopiesPut
  <2>2. n <= d.n
    BY <1>2, <1>5
  <2>3. d.n + n <= Len(d.cells)
    BY <1>2, <1>5
  <2> HIDE DEF vs
  <2>4. Replaced(d, p, p, vs, e1)
    BY <1>1, <2>2, <2>3, TailMovesUp
  <2> QED BY <2>1, <2>4 DEF vs
<1>6. CASE n # 0 /\ ~(Room(d) < n) /\ ~(p > n) /\ p = d.n - p
  <2>1. CopiesPut(d, p, n, v) = e2
    <3>1. d.n - p = p
      BY <1>6
    <3> QED BY <1>6, <3>1 DEF CopiesPut, TailBehind, RestStored
  <2>2. p + p = d.n
    BY <1>2, <1>6
  <2>3. p <= n
    BY <1>2, <1>6
  <2>4. d.n + n <= Len(d.cells)
    BY <1>2, <1>6
  <2>5. Halves(vs, n, p, Times(p, v), Times(n - p, v))
    BY <1>2, <2>3, TimesHalves
  <2> HIDE DEF vs
  <2>6. Replaced(d, p, p, vs, e2)
    BY <1>1, <1>2, <2>2, <2>3, <2>4, <2>5, RestGoesFirst
  <2> QED BY <2>1, <2>6 DEF vs
<1> QED BY <1>3, <1>4, <1>5, <1>6

(* What takes the elements before p for those after it leaves: v up to the *)
(* cell z, and what was behind p from there on.                            *)
Crossed(d, p, v, z, m, e) ==
    /\ e \in Vectors /\ e.n = m /\ Len(e.cells) = Len(d.cells)
    /\ \A i \in 1 .. Len(d.cells) :
         e.cells[i] = IF p < i /\ i <= d.n THEN v
                      ELSE IF z < i /\ i <= z + d.n - p THEN d.cells[i - z + p]
                      ELSE IF d.n < i /\ i <= z THEN v ELSE d.cells[i]

CrossedTail(w, p, k, j) == [CopyUp(w, p, w.n, k) EXCEPT !.n = @ + j]

LEMMA InsertNCrosses ==
    ASSUME NEW d, Good(d), NEW p \in 0 .. d.n, NEW n \in Nat, NEW v \in Int, d.n + n <= Len(d.cells), p <= n
    PROVE  Crossed(d, p, v, d.n + n - p, d.n + n,
                   Store(CrossedTail(RestStored(d, Times(n - p, v), n, p), p, d.n - p, p), p, Times(d.n - p, v)))
<1> DEFINE k == d.n - p
           rest == Times(n - p, v)
           first == Times(k, v)
           f == Store(d, d.n, rest)
           w == RestStored(d, rest, n, p)
           z == d.n + n - p
           m == d.n + n
           g == CopyUp(w, p, w.n, k)
           x == CrossedTail(w, p, k, p)
           e == Store(x, p, first)
<1>1. d \in Vectors /\ d.n \in Nat /\ Len(d.cells) \in Nat /\ d.n <= Len(d.cells) /\ p \in Nat /\ p <= d.n
  BY GoodFacts DEF Good
<1>k. k \in Nat /\ p + k = d.n
  <2>1. k \in Nat
    BY <1>1
  <2> QED BY <2>1, <1>1
<1>z. z \in Nat /\ m \in Nat /\ d.n <= z /\ z + p = m /\ z - d.n = n - p /\ z <= m
  <2>1. z \in Nat /\ m \in Nat
    BY <1>1
  <2>2. d.n <= z
    BY <1>1
  <2>3. z + p = m
    BY <1>1
  <2>4. z - d.n = n - p
    BY <1>1
  <2>5. z <= m
    BY <1>1
  <2> QED BY <2>1, <2>2, <2>3, <2>4, <2>5
<1>r. rest \in Seq(Int) /\ Len(rest) = n - p /\ \A i \in 1 .. n - p : rest[i] = v
  <2> DEFINE j == n - p
  <2>1. j \in Nat
    BY <1>1
  <2> HIDE DEF j
  <2>2. Times(j, v) \in Seq(Int) /\ Len(Times(j, v)) = j /\ \A i \in 1 .. j : Times(j, v)[i] = v
    BY <2>1, TimesIs
  <2> QED BY <2>2 DEF j
<1> HIDE DEF k, rest
<1>s. first \in Seq(Int) /\ Len(first) = k /\ \A i \in 1 .. k : first[i] = v
  BY <1>k, TimesIs
<1> HIDE DEF first
<1>2. Filled(d, d.n, rest, f)
  <2>1. d.n + Len(rest) <= Len(d.cells)
    <3>1. n - p <= n
      BY <1>1
    <3> QED BY <3>1, <1>1, <1>r
  <2> QED BY <1>1, <1>r, <2>1, StoreFits
<1> HIDE DEF f
<1>3. w \in Vectors /\ w.n = z /\ w.cells = f.cells /\ Len(w.cells) = Len(d.cells)
  <2>1. f \in Vectors /\ f.n = d.n /\ Len(f.cells) = Len(d.cells)
    BY <1>2 DEF Filled
  <2> DEFINE h == [f EXCEPT !.n = z]
  <2>2. w = h
    BY <2>1 DEF RestStored, f
  <2>3. h \in Vectors /\ h.n = z /\ h.cells = f.cells
    <3> HIDE DEF z
    <3> QED BY <1>z, <2>1, SizedIs
  <2> HIDE DEF h, z, w
  <2> QED BY <2>1, <2>2, <2>3
<1> HIDE DEF w
<1>l. z = d.n + n - p /\ m = d.n + n
  OBVIOUS
<1> HIDE DEF z, m
<1> DEFINE t == Taken(w, p, k)
<1>4. Stored(w, z, t, g)
  <2>1. z >= p + k /\ z \in Int /\ p \in Int /\ k \in Int /\ Larger(k, 0) = k
    BY <1>k, <1>z, <1>1, LargerIs
  <2>2. Stored(w, z, Taken(w, p, Larger(k, 0)), CopyUp(w, p, z, k))
    BY <1>3, <2>1, CopyUpIs
  <2> QED BY <2>1, <2>2, <1>3
<1>5. Len(t) = k /\ \A i \in 1 .. k : t[i] = d.cells[p + i]
  <2>1. Len(t) = k
    BY <1>1, <1>3, <1>k, TakenIs
  <2>2. ASSUME NEW i \in 1 .. k PROVE t[i] = d.cells[p + i]
    <3>1. t[i] = Cell(w, p + i - 1)
      BY DEF Taken
    <3>2. p + i <= d.n
      BY <1>k, <1>1
    <3>3. p + i - 1 \in Nat /\ (p + i - 1) + 1 = p + i /\ p + i \in Nat /\ 1 <= p + i
      BY <1>1, <1>k
    <3>4. p + i - 1 < Len(w.cells) /\ p + i \in 1 .. Len(d.cells)
      BY <3>2, <3>3, <1>1, <1>3
    <3>5. Cell(w, p + i - 1) = w.cells[p + i]
      <4> DEFINE j == p + i - 1
      <4>1. j \in Nat /\ j < Len(w.cells) /\ j + 1 = p + i
        BY <3>3, <3>4
      <4> HIDE DEF j
      <4>2. Cell(w, j) = w.cells[j + 1]
        BY <4>1, <1>3, CellIs
      <4> QED BY <4>1, <4>2 DEF j
    <3>6. ~(d.n < p + i)
      BY <3>2, <3>3, <1>1
    <3>7. f.cells[p + i] = d.cells[p + i]
      BY <3>4, <3>6, <1>2 DEF Filled
    <3> QED BY <3>1, <3>5, <3>7, <1>3
  <2> QED BY <2>1, <2>2
<1> HIDE DEF t
<1>6. x \in Vectors /\ x.n = m /\ x.cells = g.cells /\ Len(x.cells) = Len(d.cells)
  <2>1. g \in Vectors /\ g.n = z /\ Len(g.cells) = Len(d.cells)
    BY <1>3, <1>4 DEF Stored
  <2> DEFINE h == [g EXCEPT !.n = m]
  <2>2. x = h
    BY <2>1, <1>z DEF CrossedTail
  <2> HIDE DEF g
  <2>3. h \in Vectors /\ h.n = m /\ h.cells = g.cells
    BY <1>z, <2>1, SizedIs
  <2> HIDE DEF h, x
  <2> QED BY <2>1, <2>2, <2>3
<1> HIDE DEF g, x
<1>7. Filled(x, p, first, e)
  <2>1. p + Len(first) <= Len(x.cells)
    BY <1>1, <1>6, <1>s, <1>k
  <2> QED BY <1>1, <1>6, <1>s, <2>1, StoreFits
<1> HIDE DEF e
<1>8. e \in Vectors /\ e.n = m /\ Len(e.cells) = Len(d.cells)
  BY <1>6, <1>7 DEF Filled
<1>9. ASSUME NEW i \in 1 .. Len(d.cells)
      PROVE  e.cells[i] = IF p < i /\ i <= d.n THEN v
                          ELSE IF z < i /\ i <= z + d.n - p THEN d.cells[i - z + p]
                          ELSE IF d.n < i /\ i <= z THEN v ELSE d.cells[i]
  <2>1. e.cells[i] = IF p < i /\ i <= p + k THEN first[i - p] ELSE g.cells[i]
    BY <1>6, <1>7, <1>s DEF Filled
  <2>2. g.cells[i] = IF i - z \in 1 .. k THEN t[i - z] ELSE f.cells[i]
    BY <1>3, <1>4, <1>5 DEF Stored
  <2>3. f.cells[i] = IF d.n < i /\ i <= d.n + (n - p) THEN rest[i - d.n] ELSE d.cells[i]
    BY <1>2, <1>r DEF Filled
  <2>4. d.n + (n - p) = z /\ i \in Nat /\ 1 <= i
    BY <1>1, <1>z
  <2>5. CASE p < i /\ i <= d.n
    <3>1. i - p \in 1 .. k
      BY <2>5, <1>1, <1>k
    <3> QED BY <2>1, <2>5, <3>1, <1>k, <1>s
  <2>6. CASE ~(p < i /\ i <= d.n) /\ z < i /\ i <= z + d.n - p
    <3>1. i - z \in 1 .. k /\ p + (i - z) = i - z + p
      <4>1. p + (i - z) = i - z + p
        BY <1>1, <1>z
      <4>2. i - z <= k
        BY <2>6, <1>1, <1>z, <1>k
      <4>3. 1 <= i - z /\ i - z \in Int
        BY <2>6, <1>z
      <4> QED BY <4>1, <4>2, <4>3, <1>k
    <3> QED BY <2>1, <2>2, <2>6, <3>1, <1>k, <1>5
  <2>7. CASE ~(p < i /\ i <= d.n) /\ ~(z < i /\ i <= z + d.n - p)
    <3>1. ~(i - z \in 1 .. k)
      <4>1. i - z \in 1 .. k => z < i
        BY <1>z, <1>k
      <4>2. i - z \in 1 .. k => i <= z + k
        BY <1>z, <1>k
      <4>3. z + k = z + d.n - p
        BY <1>z, <1>k, <1>1
      <4> QED BY <2>7, <4>1, <4>2, <4>3
    <3>2. e.cells[i] = f.cells[i]
      BY <2>1, <2>2, <2>7, <3>1, <1>k
    <3>3. d.n < i /\ i <= z => i - d.n \in 1 .. n - p
      <4>1. d.n < i => 1 <= i - d.n /\ i - d.n \in Int
        BY <1>1
      <4>2. i <= z => i - d.n <= n - p
        BY <1>1, <2>4
      <4> QED BY <4>1, <4>2, <1>1
    <3> QED BY <2>3, <2>4, <2>7, <3>2, <3>3, <1>r
  <2> QED BY <2>5, <2>6, <2>7
<1>10. Crossed(d, p, v, z, m, e)
  BY <1>8, <1>9 DEF Crossed
<1> QED BY <1>10 DEF e, x, w, k, first, rest, z, m

LEMMA InsertNIsCrossed ==
    ASSUME NEW d, Good(d), NEW p \in 0 .. d.n, NEW n \in Nat, NEW v \in Int, n # 0, ~(Room(d) < n), p <= n
    PROVE  Crossed(d, p, v, d.n + n - p, d.n + n, CopiesPut(d, p, n, v))
<1> DEFINE e == Store(CrossedTail(RestStored(d, Times(n - p, v), n, p), p, d.n - p, p), p, Times(d.n - p, v))
<1>1. d.n \in Nat /\ p \in Nat /\ p <= d.n /\ Len(d.cells) \in Nat /\ Room(d) = Len(d.cells) - d.n
  BY GoodFacts
<1>2. d.n + n <= Len(d.cells)
  BY <1>1
<1>3. CopiesPut(d, p, n, v) = e
  <2>1. ~(p > n)
    BY <1>1
  <2> QED BY <2>1 DEF CopiesPut, CrossedTail, RestStored
<1>4. Crossed(d, p, v, d.n + n - p, d.n + n, e)
  BY <1>2, InsertNCrosses
<1> QED BY <1>3, <1>4

LEMMA InsertNGood ==
    ASSUME NEW d, Good(d), d.ok, NEW p \in 0 .. d.n, NEW n \in Nat, NEW v \in Int
    PROVE  Good(CopiesPut(d, p, n, v)) /\ CopiesPut(d, p, n, v).n = d.n + n
<1> DEFINE e == CopiesPut(d, p, n, v)
<1>1. d.n \in Nat /\ p \in Nat /\ p <= d.n /\ Len(d.cells) \in Nat /\ Room(d) = Len(d.cells) - d.n
  BY GoodFacts
<1>2. CASE n = 0 \/ Room(d) < n \/ p > n
  <2>1. Replaced(d, p, p, Times(n, v), e)
    BY <1>2, InsertNReplaces
  <2>2. Len(Times(n, v)) = n
    BY TimesIs
  <2> HIDE DEF e
  <2>3. Good(e) /\ e.n = d.n + n
    BY <2>1, <2>2, <1>1 DEF Replaced
  <2> QED BY <2>3 DEF e
<1>3. CASE n # 0 /\ ~(Room(d) < n) /\ ~(p > n)
  <2>1. p <= n
    BY <1>1, <1>3
  <2>2. Crossed(d, p, v, d.n + n - p, d.n + n, e)
    BY <1>3, <2>1, InsertNIsCrossed
  <2>3. d.n + n <= Len(d.cells)
    BY <1>1, <1>3
  <2> HIDE DEF e
  <2>4. Good(e) /\ e.n = d.n + n
    BY <2>2, <2>3 DEF Crossed, Good
  <2> QED BY <2>4 DEF e
<1> QED BY <1>2, <1>3

-----------------------------------------------------------------------------
(* The vector of a state.                                                  *)

(* The elements are numbered, and nothing is behind them.                  *)
Numbers(d) == /\ Good(d) /\ d.ok
              /\ \A i \in 1 .. Len(d.cells) : d.cells[i] = IF i <= d.n THEN i ELSE Raw

LEMMA InsertNCrossesElements ==
    ASSUME NEW d, Numbers(d), NEW p \in 0 .. d.n, NEW n \in Nat, n # 0, ~(Room(d) < n), p <= n, p # d.n - p
    PROVE  ~Replaced(d, p, p, Times(n, d.n + 1), CopiesPut(d, p, n, d.n + 1))
<1> DEFINE v == d.n + 1
           e == CopiesPut(d, p, n, v)
           vs == Times(n, v)
           z == d.n + n - p
           m == d.n + n
<1>0. Good(d) /\ d.ok
  BY DEF Numbers
<1>1. d.n \in Nat /\ p \in Nat /\ p <= d.n /\ Len(d.cells) \in Nat /\ Room(d) = Len(d.cells) - d.n /\ v \in Int
  BY <1>0, GoodFacts
<1>2. m <= Len(d.cells)
  BY <1>1
<1>3. Crossed(d, p, v, z, m, e)
  BY <1>0, <1>1, InsertNIsCrossed
<1>4. Len(vs) = n /\ \A i \in 1 .. n : vs[i] = v
  BY <1>1, TimesIs
<1> HIDE DEF e, vs
<1> SUFFICES ASSUME Replaced(d, p, p, vs, e) PROVE FALSE
  BY DEF e, vs
<1>5. \A i \in 1 .. m : e.cells[i] = Element(d.cells, p, p, vs, i)
  <2>1. e.n = m
    BY <1>3 DEF Crossed
  <2> HIDE DEF m
  <2> QED BY <2>1 DEF Replaced
<1>z. z \in Nat /\ m \in Nat /\ d.n <= z /\ z + p = m /\ z <= m
  <2>1. z \in Nat /\ m \in Nat
    BY <1>1
  <2>2. d.n <= z
    BY <1>1
  <2>3. z + p = m
    BY <1>1
  <2>4. z <= m
    BY <1>1
  <2> QED BY <2>1, <2>2, <2>3, <2>4
<1>l. z = d.n + n - p /\ m = d.n + n /\ v = d.n + 1
  OBVIOUS
<1> HIDE DEF z, m, v
<1>6. CASE d.n - p > p
  <2> DEFINE i == p + n + 1
  <2>1. p < d.n /\ i <= z
    <3>1. p < d.n
      BY <1>6, <1>1
    <3>2. i <= z
      BY <1>6, <1>1, <1>l
    <3> QED BY <3>1, <3>2
  <2>2. i \in 1 .. m /\ i \in 1 .. Len(d.cells)
    <3>1. i \in Nat /\ 1 <= i
      BY <1>1
    <3>2. i <= m
      BY <3>1, <2>1, <1>z
    <3> QED BY <3>1, <3>2, <1>1, <1>2, <1>z
  <2>3. p < i /\ ~(i <= p) /\ ~(i <= p + n) /\ i - n + p - p = p + 1 /\ p + 1 \in 1 .. Len(d.cells) /\ p + 1 <= d.n
    <3>1. p < i /\ ~(i <= p) /\ ~(i <= p + n)
      BY <1>1
    <3>2. i - n + p - p = p + 1
      BY <1>1
    <3>3. p + 1 <= d.n
      BY <1>1, <2>1
    <3>4. p + 1 <= Len(d.cells)
      BY <3>3, <1>1, <1>0 DEF Good
    <3> QED BY <3>1, <3>2, <3>3, <3>4, <1>1
  <2> HIDE DEF i
  <2>4. e.cells[i] = p + 1
    BY <2>2, <2>3, <1>4, <1>5 DEF Element, Numbers
  <2>5. e.cells[i] = v
    <3>1. ~(z < i)
      BY <2>1, <2>2, <1>z
    <3>2. i <= d.n \/ d.n < i
      BY <2>2, <1>1
    <3> QED BY <2>1, <2>2, <2>3, <3>1, <3>2, <1>3 DEF Crossed
  <2> QED BY <2>1, <2>4, <2>5, <1>1, <1>l
<1>7. CASE d.n - p < p /\ p < d.n
  <2> DEFINE i == z + 1
  <2>1. i \in 1 .. m /\ i \in 1 .. Len(d.cells)
    <3>1. i <= m
      <4>1. 1 <= p
        BY <1>7, <1>1
      <4> QED BY <4>1, <1>1, <1>z
    <3> QED BY <3>1, <1>1, <1>2, <1>z
  <2>2. p < i /\ ~(i <= p) /\ ~(i <= d.n) /\ i <= p + n /\ i - p \in 1 .. n
    <3>1. ~(i <= d.n)
      BY <1>1, <1>z
    <3>2. i <= p + n
      BY <1>7, <1>1, <1>l
    <3>3. p < i
      BY <3>1, <2>1, <1>1
    <3>4. i - p \in 1 .. n
      <4>1. i - p <= n
        BY <3>2, <1>1, <1>z
      <4>2. 1 <= i - p /\ i - p \in Int
        BY <3>3, <1>1, <1>z
      <4> QED BY <4>1, <4>2, <1>1
    <3>5. ~(i <= p)
      BY <3>3, <1>1, <1>z
    <3> QED BY <3>1, <3>2, <3>3, <3>4, <3>5
  <2>3. z < i /\ i - z + p = p + 1
    BY <1>1, <1>z
  <2>4. i <= z + d.n - p /\ p + 1 <= d.n
    <3>1. p + 1 <= d.n
      BY <1>1, <1>7
    <3>2. i <= z + d.n - p
      BY <3>1, <1>1, <1>z
    <3> QED BY <3>1, <3>2
  <2>5. p + 1 \in 1 .. Len(d.cells)
    <3>1. p + 1 <= Len(d.cells)
      BY <2>4, <1>1, <1>0 DEF Good
    <3> QED BY <3>1, <1>1
  <2> HIDE DEF i
  <2>6. e.cells[i] = v
    BY <2>1, <2>2, <1>4, <1>5 DEF Element
  <2>7. e.cells[i] = p + 1
    BY <2>1, <2>2, <2>3, <2>4, <2>5, <1>3 DEF Crossed, Numbers
  <2>8. v # p + 1
    BY <1>7, <1>1, <1>l
  <2> QED BY <2>6, <2>7, <2>8
<1>8. CASE p = d.n
  <2>1. 1 <= p
    BY <1>8, <1>1
  <2>2. m \in 1 .. m /\ m \in 1 .. Len(d.cells) /\ z < m
    <3>1. z < m
      BY <2>1, <1>1, <1>z
    <3>2. 1 <= m
      BY <3>1, <1>z
    <3> QED BY <3>1, <3>2, <1>1, <1>2, <1>z
  <2>3. ~(m <= p) /\ m <= p + n /\ m - p = n /\ n \in 1 .. n
    <3>1. m = p + n
      BY <1>8, <1>l
    <3>2. m - p = n
      BY <3>1, <1>1
    <3>3. ~(m <= p)
      BY <3>1, <1>1
    <3> QED BY <3>1, <3>2, <3>3, <1>1, <1>z
  <2>4. e.cells[m] = v
    BY <2>2, <2>3, <1>4, <1>5 DEF Element
  <2>5. ~(m <= d.n)
    BY <2>3, <1>8
  <2>6. ~(m <= z + d.n - p) /\ ~(m <= z)
    BY <1>8, <2>2, <1>1, <1>z
  <2>7. e.cells[m] = Raw
    BY <2>2, <2>5, <2>6, <1>3 DEF Crossed, Numbers
  <2>8. v # Raw
    BY <1>1, <1>l DEF Raw
  <2> QED BY <2>4, <2>7, <2>8
<1> QED BY <1>1, <1>6, <1>7, <1>8

-----------------------------------------------------------------------------
(* Calls that leave other elements, or the same ones elsewhere.            *)

LEMMA ClearIs ==
    ASSUME NEW d, Good(d) PROVE Good(Clear(d)) /\ Clear(d).n = 0 /\ Clear(d).ok = d.ok /\ Clear(d).cells = d.cells
<1> DEFINE e == [d EXCEPT !.n = 0]
<1>1. d \in Vectors /\ Len(d.cells) \in Nat
  BY GoodFacts
<1>2. e \in Vectors /\ e.n = 0 /\ e.cells = d.cells /\ e.ok = d.ok
  BY <1>1, SizedIs
<1>3. Clear(d) = e
  BY DEF Clear
<1> HIDE DEF e
<1> QED BY <1>1, <1>2, <1>3 DEF Good

(* e has the elements of d.                                                *)
Same(d, e) == Good(e) /\ e.ok /\ e.n = d.n /\ \A i \in 1 .. d.n : e.cells[i] = d.cells[i]

LEMMA SameHolds ==
    ASSUME NEW d, Good(d), NEW e, Same(d, e) PROVE Holds(e, Contents(d))
<1> DEFINE c == Contents(d)
<1>1. c \in Seq(Int) /\ Len(c) = d.n /\ \A i \in 1 .. d.n : c[i] = d.cells[i]
  BY ContentsIs
<1> HIDE DEF c
<1>2. Good(e) /\ e.ok /\ e.n = Len(c) /\ \A i \in 1 .. Len(c) : e.cells[i] = c[i]
  BY <1>1 DEF Same
<1>3. Holds(e, c)
  BY <1>1, <1>2, HoldsIs
<1> QED BY <1>3 DEF c

LEMMA BufferSame ==
    ASSUME NEW d, Good(d), NEW cap \in Nat, d.n <= cap PROVE Same(d, Buffer(Contents(d), cap))
<1> DEFINE c == Contents(d)
           e == Buffer(c, cap)
<1>1. c \in Seq(Int) /\ Len(c) = d.n /\ \A i \in 1 .. d.n : c[i] = d.cells[i]
  BY ContentsIs
<1> HIDE DEF c
<1>2. Good(e) /\ e.ok /\ e.n = Len(c) /\ \A i \in 1 .. Len(c) : e.cells[i] = c[i]
  BY <1>1, BufferIs
<1> HIDE DEF e
<1>3. Same(d, e)
  BY <1>1, <1>2 DEF Same
<1> QED BY <1>3 DEF e, c

LEMMA ReserveSame ==
    ASSUME NEW d, Good(d), d.ok, NEW n \in Nat PROVE Same(d, Reserve(d, n))
<1>1. d.n \in Nat /\ Len(d.cells) \in Nat /\ d.n <= Len(d.cells) /\ Cap(d) = Len(d.cells)
  BY GoodFacts DEF Good
<1>2. CASE Cap(d) >= n
  BY <1>2 DEF Reserve, Same
<1>3. CASE ~(Cap(d) >= n)
  <2> DEFINE cap == Larger(2 * Cap(d), n)
  <2>1. cap \in Nat /\ d.n <= cap
    BY <1>1, <1>3 DEF Larger
  <2>2. Reserve(d, n) = Buffer(Contents(d), cap)
    BY <1>3 DEF Reserve
  <2> HIDE DEF cap
  <2> QED BY <2>1, <2>2, BufferSame
<1> QED BY <1>2, <1>3

LEMMA ShrinkSame ==
    ASSUME NEW d, Good(d) PROVE Same(d, ShrinkToFit(d))
<1>1. d.n \in Nat /\ Len(Contents(d)) = d.n
  BY GoodFacts, ContentsIs
<1>2. ShrinkToFit(d) = Buffer(Contents(d), d.n)
  BY <1>1 DEF ShrinkToFit, FromSeq
<1> QED BY <1>1, <1>2, BufferSame

(* A vector all of whose elements are replaced.                            *)
LEMMA AllReplaced ==
    ASSUME NEW d, Good(d), d.n = 0, NEW vs \in Seq(Int), NEW e, Replaced(d, 0, 0, vs, e)
    PROVE  Good(e) /\ Holds(e, vs)
<1>1. Len(vs) \in Nat
  BY LenProperties
<1>2. Good(e) /\ e.ok /\ e.n = Len(vs)
  BY <1>1 DEF Replaced
<1>3. ASSUME NEW i \in 1 .. Len(vs) PROVE e.cells[i] = vs[i]
  <2>1. ~(i <= 0) /\ i <= 0 + Len(vs) /\ i - 0 = i
    BY <1>1
  <2>2. e.cells[i] = Element(d.cells, 0, 0, vs, i)
    BY <1>2 DEF Replaced
  <2> QED BY <2>1, <2>2 DEF Element
<1> QED BY <1>2, <1>3, HoldsIs

LEMMA ClearAndInsert ==
    ASSUME NEW d, Good(d), d.ok, NEW vs \in Seq(Int)
    PROVE  Good(RangeInsert(Clear(d), 0, vs)) /\ Holds(RangeInsert(Clear(d), 0, vs), vs)
<1> DEFINE f == Clear(d)
<1>1. Good(f) /\ f.n = 0 /\ f.ok
  BY ClearIs
<1> HIDE DEF f
<1>2. 0 \in 0 .. f.n
  BY <1>1
<1>3. Replaced(f, 0, 0, vs, RangeInsert(f, 0, vs))
  BY <1>1, <1>2, RangeInsertReplaces
<1>4. Good(RangeInsert(f, 0, vs)) /\ Holds(RangeInsert(f, 0, vs), vs)
  BY <1>1, <1>3, AllReplaced
<1> QED BY <1>4 DEF f

(* An assignment that fits writes over the elements there are.             *)
Overwritten(d, n, vs) ==
    IF n > d.n THEN [Store(d, 0, vs) EXCEPT !.n = n] ELSE EraseRange(Store(d, 0, vs), n, d.n)

LEMMA OverwriteHolds ==
    ASSUME NEW d, Good(d), d.ok, NEW vs \in Seq(Int), NEW n \in Nat, n = Len(vs), n <= Len(d.cells)
    PROVE  Good(Overwritten(d, n, vs)) /\ Holds(Overwritten(d, n, vs), vs)
<1> DEFINE f == Store(d, 0, vs)
           e == Overwritten(d, n, vs)
<1>1. d \in Vectors /\ d.n \in Nat /\ d.n <= Len(d.cells) /\ Len(d.cells) \in Nat
  BY GoodFacts DEF Good
<1>2. Filled(d, 0, vs, f)
  <2>1. 0 \in Nat /\ 0 + Len(vs) <= Len(d.cells)
    BY <1>1
  <2> QED BY <1>1, <2>1, StoreFits
<1>3. ASSUME NEW i \in 1 .. n PROVE f.cells[i] = vs[i]
  <2>1. i \in 1 .. Len(d.cells) /\ 0 < i /\ i <= 0 + Len(vs) /\ i - 0 = i
    BY <1>1
  <2> HIDE DEF f
  <2> QED BY <2>1, <1>2 DEF Filled
<1>4. Good(f) /\ f.ok /\ f.n = d.n /\ f \in Vectors /\ Len(f.cells) = Len(d.cells)
  BY <1>1, <1>2 DEF Filled, Good
<1>5. CASE n > d.n
  <2> DEFINE h == [f EXCEPT !.n = n]
  <2>1. e = h
    BY <1>5 DEF Overwritten
  <2> HIDE DEF f, e
  <2>2. h \in Vectors /\ h.n = n /\ h.cells = f.cells /\ h.ok = f.ok
    BY <1>4, SizedIs
  <2> HIDE DEF h
  <2>3. Good(h) /\ h.ok
    BY <2>2, <1>1, <1>4 DEF Good
  <2>a. h.n = Len(vs) /\ \A i \in 1 .. Len(vs) : h.cells[i] = vs[i]
    BY <2>2, <1>3
  <2>4. Holds(h, vs)
    BY <2>3, <2>a, HoldsIs
  <2>5. Good(e) /\ Holds(e, vs)
    BY <2>1, <2>3, <2>4
  <2> QED BY <2>5 DEF e
<1>6. CASE ~(n > d.n)
  <2> DEFINE h == EraseRange(f, n, d.n)
             s == <<>>
  <2>1. e = h
    BY <1>6 DEF Overwritten
  <2> HIDE DEF f, e
  <2>2. d.n \in 0 .. f.n /\ n \in 0 .. d.n
    BY <1>1, <1>4, <1>6
  <2>3. Replaced(f, n, d.n, s, h)
    BY <1>4, <2>2, EraseReplaces
  <2>4. Len(s) = 0
    BY NoneIs
  <2> HIDE DEF h, s
  <2>5. Good(h) /\ h.ok /\ h.n = n
    BY <2>3, <2>4, <1>1, <1>4 DEF Replaced
  <2>6. ASSUME NEW i \in 1 .. n PROVE h.cells[i] = vs[i]
    <3>1. h.cells[i] = Element(f.cells, n, d.n, s, i)
      BY <2>3, <2>5 DEF Replaced
    <3> QED BY <3>1, <1>3 DEF Element
  <2>a. h.n = Len(vs) /\ \A i \in 1 .. Len(vs) : h.cells[i] = vs[i]
    BY <2>5, <2>6
  <2>7. Holds(h, vs)
    BY <2>5, <2>a, HoldsIs
  <2>8. Good(e) /\ Holds(e, vs)
    BY <2>1, <2>5, <2>7
  <2> QED BY <2>8 DEF e
<1> QED BY <1>5, <1>6

LEMMA AssignRangeHolds ==
    ASSUME NEW d, Good(d), d.ok, NEW vs \in Seq(Int)
    PROVE  Good(AssignRange(d, vs)) /\ Holds(AssignRange(d, vs), vs)
<1> DEFINE n == Len(vs)
<1>1. n \in Nat /\ Len(d.cells) \in Nat /\ Cap(d) = Len(d.cells)
  BY GoodFacts, LenProperties
<1>2. CASE n > Cap(d)
  <2>1. AssignRange(d, vs) = RangeInsert(Clear(d), 0, vs)
    BY <1>2 DEF AssignRange
  <2> QED BY <2>1, ClearAndInsert
<1>3. CASE ~(n > Cap(d))
  <2>1. AssignRange(d, vs) = Overwritten(d, n, vs)
    BY <1>3 DEF AssignRange, Overwritten
  <2>2. n <= Len(d.cells)
    BY <1>1, <1>3
  <2> QED BY <1>1, <2>1, <2>2, OverwriteHolds
<1> QED BY <1>2, <1>3

(* What assign and resize do with the value v of the argument.             *)
AssignPut(d, n, v) ==
    IF n > Cap(d) THEN CopiesPut(Reserve(d, n), 0, n, v)
    ELSE IF n > d.n THEN [Store(d, 0, Times(n, v)) EXCEPT !.n = n]
    ELSE EraseRange(Store(d, 0, Times(n, v)), n, d.n)
ResizePut(d, n, v) == IF n < d.n THEN EraseRange(d, n, d.n) ELSE CopiesPut(d, d.n, n - d.n, v)

(* assign(n, v) is right when n elements fit or there are none.            *)
LEMMA AssignHolds ==
    ASSUME NEW d, Good(d), d.ok, NEW n \in Nat, NEW v \in Int
    PROVE  Good(AssignPut(d, n, v)) /\ Holds(AssignPut(d, n, v), Times(n, v)) = (n <= Cap(d) \/ d.n = 0)
<1> DEFINE vs == Times(n, v)
           e == AssignPut(d, n, v)
<1>1. d.n \in Nat /\ Len(d.cells) \in Nat /\ Cap(d) = Len(d.cells) /\ d.n <= Len(d.cells)
  BY GoodFacts DEF Good
<1>2. vs \in Seq(Int) /\ Len(vs) = n
  BY TimesIs
<1>3. CASE n > Cap(d)
  <2> DEFINE r == Reserve(d, n)
  <2>1. Same(d, r)
    BY ReserveSame
  <2>2. e = CopiesPut(r, 0, n, v)
    BY <1>3 DEF AssignPut
  <2> HIDE DEF r
  <2>3. Good(r) /\ r.ok /\ r.n = d.n /\ 0 \in 0 .. r.n
    BY <2>1, <1>1 DEF Same
  <2>4. Good(e) /\ e.n = d.n + n
    BY <2>2, <2>3, InsertNGood
  <2>5. CASE d.n = 0
    <3>1. 0 = r.n - 0 /\ r.n = 0
      BY <2>3, <2>5
    <3>2. Replaced(r, 0, 0, vs, e)
      BY <2>2, <2>3, <3>1, InsertNReplaces
    <3> HIDE DEF e, vs
    <3>3. Holds(e, vs)
      BY <2>3, <3>1, <3>2, <1>2, AllReplaced
    <3>4. Good(e) /\ Holds(e, vs) = (n <= Cap(d) \/ d.n = 0)
      BY <2>4, <2>5, <3>3 DEF Holds
    <3> QED BY <3>4 DEF e, vs
  <2>6. CASE d.n # 0
    <3>1. e.n # Len(vs)
      BY <2>4, <2>6, <1>1, <1>2
    <3> HIDE DEF e, vs
    <3>2. ~Holds(e, vs)
      BY <2>4, <3>1, <1>2, HoldsIs
    <3>3. ~(n <= Cap(d))
      BY <1>1, <1>3
    <3>4. Good(e) /\ Holds(e, vs) = (n <= Cap(d) \/ d.n = 0)
      BY <2>4, <2>6, <3>2, <3>3 DEF Holds
    <3> QED BY <3>4 DEF e, vs
  <2> QED BY <2>5, <2>6
<1>4. CASE ~(n > Cap(d))
  <2>1. e = Overwritten(d, n, vs)
    BY <1>4 DEF AssignPut, Overwritten
  <2>2. n <= Len(d.cells) /\ n <= Cap(d)
    BY <1>1, <1>4
  <2> HIDE DEF e, vs
  <2>3. Good(e) /\ Holds(e, vs)
    BY <2>1, <2>2, <1>2, OverwriteHolds
  <2>4. Good(e) /\ Holds(e, vs) = (n <= Cap(d) \/ d.n = 0)
    BY <2>2, <2>3 DEF Holds
  <2> QED BY <2>4 DEF e, vs
<1> QED BY <1>3, <1>4

LEMMA ResizeHolds ==
    ASSUME NEW d, Numbers(d), NEW m \in Nat
    PROVE  /\ Good(ResizePut(d, m, d.n + 1))
           /\ Holds(ResizePut(d, m, d.n + 1), [k \in 1 .. m |-> IF k <= d.n THEN k ELSE d.n + 1])
                = (m <= d.n \/ m - d.n = 0 \/ Room(d) < m - d.n \/ d.n > m - d.n \/ d.n = d.n - d.n)
<1> DEFINE v == d.n + 1
           R == [k \in 1 .. m |-> IF k <= d.n THEN k ELSE v]
           e == ResizePut(d, m, v)
           n == m - d.n
           fits == m <= d.n \/ n = 0 \/ Room(d) < n \/ d.n > n \/ d.n = d.n - d.n
<1>0. Good(d) /\ d.ok
  BY DEF Numbers
<1>1. d.n \in Nat /\ Len(d.cells) \in Nat /\ d.n <= Len(d.cells) /\ v \in Int /\ d.n \in 0 .. d.n
  BY <1>0, GoodFacts DEF Good
<1>2. R \in Seq(Int) /\ Len(R) = m /\ \A k \in 1 .. m : R[k] = IF k <= d.n THEN k ELSE v
  <2>1. DOMAIN R = 1 .. m /\ (\A k \in 1 .. m : R[k] = IF k <= d.n THEN k ELSE v) /\ R = [k \in 1 .. m |-> R[k]]
    OBVIOUS
  <2> HIDE DEF R
  <2>2. \A k \in 1 .. m : R[k] \in Int
    BY <2>1, <1>1
  <2> QED BY <2>1, <2>2, FunctionSeq
<1> HIDE DEF R
<1>c. \A i \in 1 .. d.n : d.cells[i] = i
  <2>1. \A i \in 1 .. d.n : i \in 1 .. Len(d.cells)
    BY <1>1
  <2> QED BY <2>1 DEF Numbers
<1>3. CASE m < d.n
  <2> DEFINE s == <<>>
  <2>1. e = EraseRange(d, m, d.n)
    BY <1>3 DEF ResizePut
  <2>2. m \in 0 .. d.n
    BY <1>1, <1>3
  <2>3. Replaced(d, m, d.n, s, e)
    BY <1>0, <1>1, <2>1, <2>2, EraseReplaces
  <2>4. Len(s) = 0
    BY NoneIs
  <2> HIDE DEF s, e
  <2>5. Good(e) /\ e.ok /\ e.n = m
    BY <2>3, <2>4, <1>1 DEF Replaced
  <2>6. ASSUME NEW i \in 1 .. m PROVE e.cells[i] = R[i]
    <3>1. e.cells[i] = Element(d.cells, m, d.n, s, i)
      BY <2>3, <2>5 DEF Replaced
    <3>2. i <= m /\ i <= d.n /\ i \in 1 .. d.n
      BY <1>1, <1>3
    <3> QED BY <3>1, <3>2, <1>2, <1>c DEF Element
  <2>a. e.n = Len(R) /\ \A i \in 1 .. Len(R) : e.cells[i] = R[i]
    BY <1>2, <2>5, <2>6
  <2>7. Holds(e, R)
    <3>1. R \in Seq(Int)
      BY <1>2
    <3> QED BY <2>5, <2>a, <3>1, HoldsIs
  <2>8. m <= d.n
    BY <1>1, <1>3
  <2>9. Good(e) /\ Holds(e, R) = fits
    BY <2>5, <2>7, <2>8 DEF Holds
  <2> QED BY <2>9 DEF e, R
<1>4. CASE ~(m < d.n)
  <2> DEFINE vs == Times(n, v)
  <2>n. n \in Nat /\ d.n + n = m
    <3>1. n \in Nat
      BY <1>1, <1>4
    <3> QED BY <3>1, <1>1
  <2>0. m <= d.n => n = 0
    BY <1>1, <1>4
  <2>f. fits <=> n = 0 \/ Room(d) < n \/ d.n > n \/ d.n = d.n - d.n
    BY <2>0
  <2>1. e = CopiesPut(d, d.n, n, v)
    BY <1>4 DEF ResizePut
  <2> HIDE DEF n, fits
  <2>2. Good(e) /\ e.n = m
    <3>1. Good(CopiesPut(d, d.n, n, v)) /\ CopiesPut(d, d.n, n, v).n = d.n + n
      BY <1>0, <1>1, <2>n, InsertNGood
    <3> HIDE DEF e, v
    <3> QED BY <2>1, <2>n, <3>1
  <2>3. Len(vs) = n /\ \A i \in 1 .. n : vs[i] = v
    BY <1>1, <2>n, TimesIs
  <2>4. ASSUME NEW i \in 1 .. m PROVE Element(d.cells, d.n, d.n, vs, i) = R[i]
    <3>1. CASE i <= d.n
      <4>1. i \in 1 .. d.n
        BY <3>1, <1>1
      <4> QED BY <3>1, <4>1, <1>2, <1>c DEF Element
    <3>2. CASE ~(i <= d.n)
      <4>1. i <= d.n + Len(vs)
        BY <2>3, <2>n
      <4>2. i - d.n \in 1 .. n
        <5>1. 1 <= i - d.n /\ i - d.n \in Int
          BY <3>2, <1>1
        <5>2. i - d.n <= n
          BY <1>1, <2>n
        <5> QED BY <5>1, <5>2, <2>n
      <4> HIDE DEF v
      <4> QED BY <3>2, <4>1, <4>2, <1>2, <2>3 DEF Element
    <3> QED BY <3>1, <3>2
  <2>m. d.n + Len(vs) - (d.n - d.n) = m
    BY <1>1, <2>3, <2>n
  <2>5. CASE fits
    <3>1. Replaced(d, d.n, d.n, vs, e)
      BY <2>1, <2>5, <2>f, <2>n, <1>0, <1>1, InsertNReplaces
    <3> HIDE DEF e, vs
    <3>2. e.ok /\ \A i \in 1 .. m : e.cells[i] = R[i]
      BY <2>2, <2>4, <3>1 DEF Replaced
    <3>a. e.n = Len(R) /\ \A i \in 1 .. Len(R) : e.cells[i] = R[i]
      BY <1>2, <2>2, <3>2
    <3>b. R \in Seq(Int)
      BY <1>2
    <3>3. Holds(e, R)
      BY <2>2, <3>2, <3>a, <3>b, HoldsIs
    <3>4. Good(e) /\ Holds(e, R) = fits
      BY <2>2, <2>5, <3>3 DEF Holds, fits
    <3> QED BY <3>4 DEF e, R, fits, n
  <2>6. CASE ~fits
    <3>1. n # 0 /\ ~(Room(d) < n) /\ d.n <= n /\ d.n # d.n - d.n
      BY <2>6, <2>f, <2>n, <1>1
    <3>2. ~Replaced(d, d.n, d.n, vs, e)
      BY <2>1, <2>n, <3>1, <1>1, InsertNCrossesElements
    <3> HIDE DEF e, vs
    <3>3. ~Holds(e, R)
      <4> SUFFICES ASSUME Holds(e, R) PROVE FALSE
        OBVIOUS
      <4>1. e.ok /\ \A i \in 1 .. m : e.cells[i] = R[i]
        BY <1>2, <2>2, HoldsIs
      <4>2. \A i \in 1 .. m : e.cells[i] = Element(d.cells, d.n, d.n, vs, i)
        BY <4>1, <2>4
      <4>3. Replaced(d, d.n, d.n, vs, e)
        BY <4>1, <4>2, <2>2, <2>m DEF Replaced
      <4> QED BY <4>3, <3>2
    <3>4. Good(e) /\ Holds(e, R) = fits
      BY <2>2, <2>6, <3>3 DEF Holds, fits
    <3> QED BY <3>4 DEF e, R, fits, n
  <2> QED BY <2>5, <2>6
<1> QED BY <1>3, <1>4

LEMMA RvalueIs ==
    ASSUME NEW m \in Nat
    PROVE  /\ Good(FromRvalue(m, 1)) /\ FromRvalue(m, 1).ok /\ Len(FromRvalue(m, 1).cells) = m
           /\ Contents(FromRvalue(m, 1)) = Times(m, 1) <=> m <= 1
<1> DEFINE vs == [i \in 1 .. m |-> IF i = 1 THEN 1 ELSE Hollow]
           e == Buffer(vs, m)
           t == Times(m, 1)
<1>1. vs \in Seq(Int) /\ Len(vs) = m /\ \A i \in 1 .. m : vs[i] = IF i = 1 THEN 1 ELSE Hollow
  <2>1. DOMAIN vs = 1 .. m /\ (\A i \in 1 .. m : vs[i] = IF i = 1 THEN 1 ELSE Hollow) /\ vs = [i \in 1 .. m |-> vs[i]]
    OBVIOUS
  <2> HIDE DEF vs
  <2>2. \A i \in 1 .. m : vs[i] \in Int
    BY <2>1 DEF Hollow
  <2> QED BY <2>1, <2>2, FunctionSeq
<1>2. FromRvalue(m, 1) = e
  BY <1>1 DEF FromRvalue, FromSeq
<1> HIDE DEF vs
<1>3. Good(e) /\ e.ok /\ e.n = m /\ Len(e.cells) = m /\ \A i \in 1 .. m : e.cells[i] = vs[i]
  BY <1>1, BufferIs
<1>4. t \in Seq(Int) /\ Len(t) = m /\ \A i \in 1 .. m : t[i] = 1
  BY TimesIs
<1> HIDE DEF e, t
<1> DEFINE c == Contents(e)
<1>5. c \in Seq(Int) /\ Len(c) = m /\ \A i \in 1 .. m : c[i] = e.cells[i]
  BY <1>3, ContentsIs
<1> HIDE DEF c
<1>6. \A i \in 1 .. m : c[i] = IF i = 1 THEN 1 ELSE Hollow
  BY <1>1, <1>3, <1>5
<1>7. ASSUME m <= 1 PROVE c = t
  <2>1. \A i \in 1 .. m : i = 1
    BY <1>7
  <2>2. \A i \in 1 .. Len(c) : c[i] = t[i]
    BY <1>4, <1>5, <1>6, <2>1
  <2> QED BY <2>2, <1>4, <1>5, SeqEqual
<1>8. ASSUME c = t PROVE m <= 1
  <2> SUFFICES ASSUME ~(m <= 1) PROVE FALSE
    OBVIOUS
  <2>1. 2 \in 1 .. m
    OBVIOUS
  <2>2. c[2] = Hollow /\ t[2] = 1
    BY <2>1, <1>4, <1>6
  <2> QED BY <2>2, <1>8 DEF Hollow
<1>9. Good(e) /\ e.ok /\ Len(e.cells) = m /\ (c = t <=> m <= 1)
  BY <1>3, <1>7, <1>8
<1> QED BY <1>2, <1>9 DEF c, t

-----------------------------------------------------------------------------
(* The value of an argument when it is read.                               *)

LEMMA FreshIs == ASSUME NEW d, NEW v, NEW moved PROVE Given(d, Fresh(v), moved) = v /\ Fresh(v).at = Elsewhere
BY DEF Given, Fresh, Elsewhere

LEMMA OwnIs ==
    ASSUME NEW d, NEW k \in Nat, NEW moved
    PROVE  Given(d, Own(k), moved) = IF k \in moved THEN Hollow ELSE Cell(d, k)
BY DEF Given, Own, Elsewhere

LEMMA EmplaceIs ==
    ASSUME NEW d, NEW p, NEW x
    PROVE  Emplace(d, p, x) = Placed(d, p, IF Room(d) > 0 THEN Given(Opened(d, p), x, {p}) ELSE Given(d, x, 0 .. p - 1))
BY DEF Emplace, Placed

LEMMA PushBackIs ==
    ASSUME NEW d, NEW x
    PROVE  PushBack(d, x) = Pushed(d, IF Room(d) > 0 THEN Given(d, x, {}) ELSE Given(d, x, 0 .. d.n - 1))
BY DEF PushBack, Pushed, Emplace, Placed

ReadAfter(d, p, n) == n # 0 /\ ~(Room(d) < n) /\ p > n

LEMMA InsertNIs ==
    ASSUME NEW d, NEW p, NEW n, NEW x
    PROVE  InsertN(d, p, n, x)
             = CopiesPut(d, p, n, IF ReadAfter(d, p, n) THEN Given(CopiedUp(d, p, n), x, {}) ELSE Given(d, x, {}))
<1>1. CASE n = 0
  BY <1>1 DEF InsertN, CopiesPut
<1>2. CASE n # 0 /\ Room(d) < n
  BY <1>2 DEF InsertN, CopiesPut, ReadAfter
<1>3. CASE n # 0 /\ ~(Room(d) < n) /\ p > n
  BY <1>3 DEF InsertN, CopiesPut, ReadAfter, ElemsAfter
<1>4. CASE n # 0 /\ ~(Room(d) < n) /\ ~(p > n)
  BY <1>4 DEF InsertN, CopiesPut, ReadAfter, ElemsAfter
<1> QED BY <1>1, <1>2, <1>3, <1>4

LEMMA FreshCalls ==
    ASSUME NEW d, NEW p, NEW n, NEW v
    PROVE  /\ Emplace(d, p, Fresh(v)) = Placed(d, p, v) /\ PushBack(d, Fresh(v)) = Pushed(d, v)
           /\ InsertN(d, p, n, Fresh(v)) = CopiesPut(d, p, n, v) /\ Resize(d, n, Fresh(v)) = ResizePut(d, n, v)
<1> DEFINE x == Fresh(v)
<1>1. \A e, moved : Given(e, x, moved) = v
  BY FreshIs
<1> HIDE DEF x
<1>2. Emplace(d, p, x) = Placed(d, p, v) /\ PushBack(d, x) = Pushed(d, v)
  BY <1>1, EmplaceIs, PushBackIs
<1>3. \A q, m : InsertN(d, q, m, x) = CopiesPut(d, q, m, v)
  <2> TAKE q, m
  <2> QED BY <1>1, InsertNIs
<1>4. Resize(d, n, x) = ResizePut(d, n, v)
  BY <1>3 DEF Resize, ResizePut
<1> QED BY <1>2, <1>3, <1>4 DEF x

LEMMA FreshAssign ==
    ASSUME NEW d, Good(d), d.ok, NEW n \in Nat, NEW v \in Int
    PROVE  Assign(d, n, Fresh(v)) = AssignPut(d, n, v)
<1> DEFINE x == Fresh(v)
<1>1. x.at = Elsewhere /\ \A e, moved : Given(e, x, moved) = v
  BY FreshIs
<1>2. \A e : InsertN(e, 0, n, x) = CopiesPut(e, 0, n, v)
  BY FreshCalls
<1> HIDE DEF x
<1>3. CASE n > Cap(d)
  <2> DEFINE e == CopiesPut(Reserve(d, n), 0, n, v)
  <2>1. e = AssignPut(d, n, v)
    BY <1>3 DEF AssignPut
  <2>2. e \in Vectors
    BY <2>1, AssignHolds DEF Good
  <2>3. Assign(d, n, x) = [e EXCEPT !.ok = @ /\ x.at = Elsewhere]
    BY <1>2, <1>3 DEF Assign
  <2> HIDE DEF e
  <2>4. [e EXCEPT !.ok = @ /\ x.at = Elsewhere] = e
    <3>1. (e.ok /\ x.at = Elsewhere) = e.ok
      BY <1>1, <2>2 DEF Vectors
    <3> QED BY <2>2, <3>1 DEF Vectors
  <2> QED BY <2>1, <2>3, <2>4 DEF x
<1>4. CASE ~(n > Cap(d))
  <2>1. Assign(d, n, x) = AssignPut(d, n, v)
    BY <1>1, <1>4 DEF Assign, AssignPut
  <2> QED BY <2>1 DEF x
<1> QED BY <1>3, <1>4

-----------------------------------------------------------------------------
(* The inductive invariant.                                                *)

Fits(d) == Good(d) /\ d.ok /\ Len(d.cells) <= MaxCap

(* Two vectors that fit; the elements of the first are numbered.           *)
VectorInv == vec = [a |-> vec.a, b |-> vec.b] /\ Fits(vec.a) /\ Fits(vec.b) /\ Numbers(vec.a)

LEMMA NumberedIs ==
    ASSUME NEW d, Good(d), d.ok
    PROVE  Numbers(Numbered(d)) /\ Len(Numbered(d).cells) = Len(d.cells)
<1> DEFINE c == [i \in 1 .. Len(d.cells) |-> IF i <= d.n THEN i ELSE Raw]
           e == [d EXCEPT !.cells = c]
<1>1. d \in Vectors /\ d.n \in Nat /\ Len(d.cells) \in Nat /\ d.n <= Len(d.cells) /\ DOMAIN d.cells = 1 .. Len(d.cells)
  BY GoodFacts, LenProperties DEF Good
<1>2. c \in Seq(Int) /\ Len(c) = Len(d.cells) /\ \A i \in 1 .. Len(d.cells) : c[i] = IF i <= d.n THEN i ELSE Raw
  <2>1. DOMAIN c = 1 .. Len(d.cells) /\ c = [i \in 1 .. Len(d.cells) |-> c[i]]
        /\ (\A i \in 1 .. Len(d.cells) : c[i] = IF i <= d.n THEN i ELSE Raw)
    OBVIOUS
  <2> HIDE DEF c
  <2>2. \A i \in 1 .. Len(d.cells) : c[i] \in Int
    BY <2>1 DEF Raw
  <2>3. Len(d.cells) \in Nat /\ DOMAIN c = 1 .. Len(d.cells) /\ c = [i \in 1 .. Len(d.cells) |-> c[i]]
    BY <1>1, <2>1
  <2>4. c \in Seq(Int) /\ Len(c) = Len(d.cells)
    BY <2>2, <2>3, FunctionSeq
  <2> QED BY <2>1, <2>4
<1>3. Numbered(d) = e
  BY <1>1 DEF Numbered
<1> HIDE DEF c
<1>4. e \in Vectors /\ e.n = d.n /\ e.cells = c /\ e.ok = d.ok
  BY <1>1, <1>2 DEF Vectors
<1> HIDE DEF e
<1>5. Good(e) /\ Numbers(e)
  BY <1>1, <1>2, <1>4 DEF Good, Numbers
<1> QED BY <1>2, <1>3, <1>4, <1>5

LEMMA PutKeeps ==
    ASSUME VectorInv, NEW d, Good(d), Put(d)
    PROVE  VectorInv'
<1> DEFINE e == Numbered(d)
<1>1. Good(d) /\ d.ok /\ Len(d.cells) <= MaxCap
  BY GoodFacts DEF Put
<1>2. Numbers(e) /\ Len(e.cells) = Len(d.cells)
  BY <1>1, NumberedIs
<1>3. vec' = [vec EXCEPT !.a = e]
  BY DEF Put
<1> HIDE DEF e
<1>4. vec'.a = e /\ vec'.b = vec.b /\ vec' = [a |-> e, b |-> vec.b]
  BY <1>3 DEF VectorInv
<1>5. Fits(e)
  BY <1>1, <1>2 DEF Fits, Numbers
<1>6. Fits(vec.b)
  BY DEF VectorInv
<1> QED BY <1>2, <1>4, <1>5, <1>6 DEF VectorInv

LEMMA InitInv == InitVector => VectorInv
<1> SUFFICES ASSUME InitVector PROVE VectorInv
  OBVIOUS
<1> DEFINE s == <<>>
           d == Buffer(s, 0)
<1>1. s \in Seq(Int) /\ Len(s) = 0
  BY NoneIs
<1>2. vec = [a |-> d, b |-> d] /\ vec.a = d /\ vec.b = d
  <2>1. FromSeq(<<>>) = d
    BY <1>1 DEF FromSeq
  <2>2. Empty = d
    BY DEF Empty
  <2> HIDE DEF d
  <2> QED BY <2>1, <2>2 DEF InitVector
<1> HIDE DEF s
<1>3. Good(d) /\ d.ok /\ Len(d.cells) = 0
  <2>1. 0 \in Nat /\ Len(s) <= 0
    BY <1>1
  <2>2. /\ Good(Buffer(s, 0)) /\ Buffer(s, 0).ok /\ Len(Buffer(s, 0).cells) = 0
    BY <1>1, <2>1, BufferIs
  <2> QED BY <2>2
<1> HIDE DEF d
<1>4. Fits(d) /\ Numbers(d)
  <2>1. \A i \in 1 .. Len(d.cells) : FALSE
    BY <1>3
  <2> QED BY <1>3, <2>1, VectorAssumption DEF Fits, Numbers
<1> QED BY <1>2, <1>4 DEF VectorInv

LEMMA ReplacedGood == ASSUME NEW d, NEW p, NEW q, NEW vs, NEW e, Replaced(d, p, q, vs, e) PROVE Good(e)
BY DEF Replaced

(* Each call, of a vector that fits, leaves a vector.                      *)
LEMMA StepInv == VectorInv /\ [NextVector]_vec => VectorInv'
<1> SUFFICES ASSUME VectorInv, [NextVector]_vec PROVE VectorInv'
  OBVIOUS
<1>1. Good(a) /\ a.ok /\ Numbers(a) /\ Fits(a) /\ Fits(vec.b) /\ Good(vec.b) /\ vec = [a |-> vec.a, b |-> vec.b]
  BY DEF VectorInv, Fits, a
<1>2. a.n \in Nat /\ Places \in SUBSET Nat /\ a.n \in 0 .. a.n /\ Raw \in Int
  BY <1>1, GoodFacts DEF Places, Raw
<1>3. MaxNew \in Nat /\ MaxCap \in Nat /\ MaxNew <= MaxCap
  BY VectorAssumption
<1>4. CASE Push
  <2>1. Good(Pushed(a, Raw))
    BY <1>1, <1>2, PushBackReplaces, ReplacedGood
  <2>2. Put(Pushed(a, Raw))
    BY <1>4, FreshCalls DEF Push
  <2> QED BY <2>1, <2>2, PutKeeps
<1>5. CASE Pop
  <2>1. a.n > 0 /\ Put(PopBack(a))
    BY <1>5 DEF Pop
  <2>2. Good(PopBack(a))
    BY <1>1, <2>1, PopBackHolds
  <2> QED BY <2>1, <2>2, PutKeeps
<1>6. CASE Insert
  <2>1. PICK p \in Places : \/ Put(Placed(a, p, Raw))
                            \/ \E n \in 0 .. MaxNew : Put(CopiesPut(a, p, n, Raw))
                            \/ \E n \in 0 .. MaxNew : Put(RangeInsert(a, p, Times(n, Raw)))
    BY <1>6, FreshCalls DEF Insert
  <2>2. p \in 0 .. a.n
    BY DEF Places
  <2>3. CASE Put(Placed(a, p, Raw))
    <3>1. Room(a) = 0 \/ p < a.n
      <4> SUFFICES ASSUME Room(a) # 0, ~(p < a.n) PROVE FALSE
        OBVIOUS
      <4>1. p = a.n
        BY <1>2, <2>2
      <4>2. ~Placed(a, a.n, Raw).ok
        BY <1>1, <1>2, EmplaceFails
      <4> QED BY <4>1, <4>2, <2>3 DEF Put
    <3>2. Good(Placed(a, p, Raw))
      BY <1>1, <1>2, <2>2, <3>1, EmplaceReplaces, ReplacedGood
    <3> QED BY <2>3, <3>2, PutKeeps
  <2>4. ASSUME NEW n \in 0 .. MaxNew, Put(CopiesPut(a, p, n, Raw)) PROVE VectorInv'
    <3>1. n \in Nat
      BY <1>3
    <3>2. Good(CopiesPut(a, p, n, Raw))
      BY <1>1, <1>2, <2>2, <3>1, InsertNGood
    <3> QED BY <2>4, <3>2, PutKeeps
  <2>5. ASSUME NEW n \in 0 .. MaxNew, Put(RangeInsert(a, p, Times(n, Raw))) PROVE VectorInv'
    <3> DEFINE vs == Times(n, Raw)
    <3>1. n \in Nat
      BY <1>3
    <3>2. vs \in Seq(Int)
      BY <1>2, <3>1, TimesIs
    <3>3. Put(RangeInsert(a, p, vs))
      BY <2>5
    <3> HIDE DEF vs
    <3>4. Good(RangeInsert(a, p, vs))
      BY <1>1, <2>2, <3>2, RangeInsertReplaces, ReplacedGood
    <3> QED BY <3>3, <3>4, PutKeeps
  <2> QED BY <2>1, <2>3, <2>4, <2>5
<1>7. CASE Erase
  <2>1. PICK i \in Places, j \in Places : (i <= j /\ Put(EraseRange(a, i, j))) \/ (i < a.n /\ Put(EraseOne(a, i)))
    BY <1>7 DEF Erase
  <2>2. CASE i <= j /\ Put(EraseRange(a, i, j))
    <3>1. j \in 0 .. a.n /\ i \in 0 .. j
      BY <1>2, <2>2 DEF Places
    <3>2. Good(EraseRange(a, i, j))
      BY <1>1, <3>1, EraseReplaces, ReplacedGood
    <3> QED BY <2>2, <3>2, PutKeeps
  <2>3. CASE i < a.n /\ Put(EraseOne(a, i))
    <3> DEFINE j1 == i + 1
    <3>1. j1 \in 0 .. a.n /\ i \in 0 .. j1 /\ i \in 0 .. a.n
      BY <1>2, <2>3 DEF Places
    <3>2. EraseOne(a, i) = EraseRange(a, i, j1)
      BY <1>1, <2>3, <3>1, EraseOneIs
    <3> HIDE DEF j1
    <3>3. Good(EraseRange(a, i, j1))
      BY <1>1, <3>1, EraseReplaces, ReplacedGood
    <3> QED BY <2>3, <3>2, <3>3, PutKeeps
  <2> QED BY <2>1, <2>2, <2>3
<1>8. CASE Change
  <2>1. PICK n \in 0 .. MaxCap : \/ Put(ResizePut(a, n, Raw)) \/ Put(AssignPut(a, n, Raw))
                                 \/ Put(AssignRange(a, Up(n))) \/ Put(Reserve(a, n))
    <3>1. PICK n \in 0 .. MaxCap : \/ Put(Resize(a, n, Fresh(Raw))) \/ Put(Assign(a, n, Fresh(Raw)))
                                   \/ Put(AssignRange(a, Up(n))) \/ Put(Reserve(a, n))
      BY <1>8 DEF Change
    <3>2. n \in Nat
      BY <1>3
    <3>3. Resize(a, n, Fresh(Raw)) = ResizePut(a, n, Raw) /\ Assign(a, n, Fresh(Raw)) = AssignPut(a, n, Raw)
      BY <1>1, <1>2, <3>2, FreshCalls, FreshAssign
    <3> QED BY <3>1, <3>3
  <2>n. n \in Nat
    BY <1>3
  <2>2. CASE Put(ResizePut(a, n, Raw))
    <3>1. CASE n < a.n
      <4>1. n \in 0 .. a.n /\ ResizePut(a, n, Raw) = EraseRange(a, n, a.n)
        BY <2>n, <3>1, <1>2 DEF ResizePut
      <4>2. Good(EraseRange(a, n, a.n))
        BY <1>1, <1>2, <4>1, EraseReplaces, ReplacedGood
      <4> QED BY <2>2, <4>1, <4>2, PutKeeps
    <3>2. CASE ~(n < a.n)
      <4> DEFINE k == n - a.n
      <4>1. k \in Nat
        BY <2>n, <3>2, <1>2
      <4>2. ResizePut(a, n, Raw) = CopiesPut(a, a.n, k, Raw)
        BY <3>2 DEF ResizePut
      <4> HIDE DEF k
      <4>3. Good(CopiesPut(a, a.n, k, Raw))
        BY <1>1, <1>2, <4>1, InsertNGood
      <4> QED BY <2>2, <4>2, <4>3, PutKeeps
    <3> QED BY <3>1, <3>2
  <2>3. CASE Put(AssignPut(a, n, Raw))
    <3>1. Good(AssignPut(a, n, Raw))
      BY <1>1, <1>2, <2>n, AssignHolds
    <3> QED BY <2>3, <3>1, PutKeeps
  <2>4. CASE Put(AssignRange(a, Up(n)))
    <3> DEFINE vs == Up(n)
    <3>1. vs \in Seq(Int)
      <4>1. DOMAIN vs = 1 .. n /\ (\A i \in 1 .. n : vs[i] \in Int) /\ vs = [i \in 1 .. n |-> vs[i]]
        BY DEF Up
      <4> HIDE DEF vs
      <4> QED BY <2>n, <4>1, FunctionSeq
    <3>2. Put(AssignRange(a, vs))
      BY <2>4
    <3> HIDE DEF vs
    <3>3. Good(AssignRange(a, vs))
      BY <1>1, <3>1, AssignRangeHolds
    <3> QED BY <3>2, <3>3, PutKeeps
  <2>5. CASE Put(Reserve(a, n))
    <3>1. Good(Reserve(a, n))
      BY <1>1, <2>n, ReserveSame DEF Same
    <3> QED BY <2>5, <3>1, PutKeeps
  <2> QED BY <2>1, <2>2, <2>3, <2>4, <2>5
<1>9. CASE Tidy
  <2>1. Good(ShrinkToFit(a))
    BY <1>1, ShrinkSame DEF Same
  <2>2. Good(Clear(a))
    BY <1>1, ClearIs
  <2> QED BY <1>9, <2>1, <2>2, PutKeeps DEF Tidy
<1>10. CASE Another
  <2>1. PICK n \in 0 .. MaxNew : vec' = [vec EXCEPT !.b = FromRvalue(n, 1)]
    BY <1>10 DEF Another
  <2> DEFINE e == FromRvalue(n, 1)
  <2>2. n \in Nat /\ n <= MaxCap
    BY <1>3
  <2>3. Good(e) /\ e.ok /\ Len(e.cells) = n
    BY <2>2, RvalueIs
  <2> HIDE DEF e
  <2>4. Fits(e)
    BY <2>2, <2>3 DEF Fits
  <2>5. vec' = [a |-> vec.a, b |-> e] /\ vec'.a = vec.a /\ vec'.b = e
    BY <1>1, <2>1 DEF e
  <2> QED BY <2>4, <2>5, <1>1 DEF VectorInv, a
<1>11. CASE CopyAnother
  <2> DEFINE vs == Contents(vec.b)
  <2>1. vs \in Seq(Int)
    BY <1>1, ContentsIs
  <2>2. Put(RangeInsert(Clear(a), 0, vs))
    BY <1>11 DEF CopyAnother, CopyAssign
  <2> HIDE DEF vs
  <2>3. Good(RangeInsert(Clear(a), 0, vs))
    BY <1>1, <2>1, ClearAndInsert
  <2> QED BY <2>2, <2>3, PutKeeps
<1>12. CASE TakeAnother
  <2> DEFINE c == Clear(a)
             e == Numbered(vec.b)
             f == Numbered(c)
  <2>1. Good(c) /\ c.ok /\ Len(c.cells) <= MaxCap
    BY <1>1, ClearIs DEF Fits
  <2>2. vec' = [a |-> e, b |-> f] /\ vec'.a = e /\ vec'.b = f
    BY <1>12 DEF TakeAnother
  <2> HIDE DEF c
  <2>3. Numbers(e) /\ Len(e.cells) = Len(vec.b.cells) /\ Numbers(f) /\ Len(f.cells) = Len(c.cells)
    BY <1>1, <2>1, NumberedIs DEF Fits
  <2> HIDE DEF e, f
  <2>4. Fits(e) /\ Fits(f)
    BY <1>1, <2>1, <2>3 DEF Fits, Numbers
  <2> QED BY <2>2, <2>3, <2>4 DEF VectorInv
<1>13. CASE UNCHANGED vec
  BY <1>13 DEF VectorInv
<1> QED BY <1>4, <1>5, <1>6, <1>7, <1>8, <1>9, <1>10, <1>11, <1>12, <1>13 DEF NextVector

-----------------------------------------------------------------------------
(* Each part of VectorSound, in a state of the invariant.                  *)

LEMMA NumbersFacts ==
    ASSUME NEW d, Numbers(d)
    PROVE  /\ Good(d) /\ d.ok /\ d.n \in Nat /\ Len(d.cells) \in Nat /\ d.n <= Len(d.cells) /\ d.n + 1 \in Int
           /\ Cap(d) = Len(d.cells) /\ d.n \in 0 .. d.n
           /\ Holds(d, Up(d.n)) /\ Contents(d) = Up(d.n)
<1>1. Good(d) /\ d.ok
  BY DEF Numbers
<1>2. d.n \in Nat /\ Len(d.cells) \in Nat /\ d.n <= Len(d.cells) /\ Cap(d) = Len(d.cells)
  BY <1>1, GoodFacts DEF Good
<1> DEFINE u == Up(d.n)
<1>3. DOMAIN u = 1 .. d.n /\ (\A i \in 1 .. d.n : u[i] = i) /\ u = [i \in 1 .. d.n |-> u[i]]
  BY DEF Up
<1> HIDE DEF u
<1>4. u \in Seq(Int) /\ Len(u) = d.n
  <2>1. \A i \in 1 .. d.n : u[i] \in Int
    BY <1>3
  <2> QED BY <1>2, <1>3, <2>1, FunctionSeq
<1>5. \A i \in 1 .. Len(u) : d.cells[i] = u[i]
  <2>1. \A i \in 1 .. d.n : i \in 1 .. Len(d.cells)
    BY <1>2
  <2>2. \A i \in 1 .. d.n : d.cells[i] = i
    BY <2>1 DEF Numbers
  <2>3. \A i \in 1 .. d.n : u[i] = i
    BY <1>3
  <2> HIDE DEF u
  <2> QED BY <1>4, <2>2, <2>3
<1>6. Holds(d, u)
  BY <1>1, <1>4, <1>5, HoldsIs
<1>7. Holds(d, Up(d.n)) /\ Contents(d) = Up(d.n)
  BY <1>6 DEF Holds, u
<1> QED BY <1>1, <1>2, <1>7

LEMMA OneIsSound == ASSUME Numbers(a) PROVE OneSound
<1>1. Good(a) /\ a.ok /\ a.n \in Nat /\ NewOne \in Int
  BY NumbersFacts DEF NewOne
<1>2. Holds(PushBack(a, Fresh(NewOne)), Append(Contents(a), NewOne))
  BY <1>1, PushBackHolds, FreshCalls
<1>3. a.n > 0 => Holds(PopBack(a), Front(Contents(a)))
  BY <1>1, PopBackHolds
<1> QED BY <1>2, <1>3 DEF OneSound

LEMMA EmplaceIsSound == ASSUME Numbers(a) PROVE EmplaceSound
<1>1. Good(a) /\ a.ok /\ a.n \in Nat /\ NewOne \in Int
  BY NumbersFacts DEF NewOne
<1> SUFFICES ASSUME NEW p \in Places
             PROVE  Holds(Placed(a, p, NewOne), With(p, <<NewOne>>)) = (Room(a) = 0 \/ p < a.n)
  BY FreshCalls DEF EmplaceSound
<1> DEFINE s == <<NewOne>>
           e == Placed(a, p, NewOne)
<1>2. p \in 0 .. a.n /\ p \in 0 .. p
  BY <1>1 DEF Places
<1>3. CASE Room(a) = 0 \/ p < a.n
  <2>1. Replaced(a, p, p, s, e)
    BY <1>1, <1>2, <1>3, EmplaceReplaces
  <2>2. s \in Seq(Int)
    BY <1>1
  <2> HIDE DEF s, e
  <2>3. Holds(e, With(p, s))
    BY <1>1, <1>2, <2>1, <2>2, ReplacedHolds DEF With
  <2> QED BY <1>3, <2>3 DEF s, e, Holds
<1>4. CASE Room(a) # 0 /\ ~(p < a.n)
  <2>1. p = a.n
    BY <1>1, <1>2, <1>4
  <2>2. ~e.ok
    BY <1>1, <1>4, <2>1, EmplaceFails
  <2> HIDE DEF e
  <2>3. ~Holds(e, With(p, s))
    BY <2>2 DEF Holds
  <2> QED BY <1>4, <2>3 DEF e, Holds
<1> QED BY <1>3, <1>4

LEMMA InsertIsSound == ASSUME Numbers(a) PROVE InsertSound
<1>1. Good(a) /\ a.ok /\ a.n \in Nat /\ NewOne \in Int /\ NewOne = a.n + 1
  BY NumbersFacts DEF NewOne
<1> SUFFICES ASSUME NEW p \in Places, NEW m \in 0 .. MaxNew
             PROVE  /\ Holds(RangeInsert(a, p, New(m)), With(p, New(m)))
                    /\ Holds(CopiesPut(a, p, m, NewOne), With(p, Times(m, NewOne))) = CopiesFit(p, m)
  BY FreshCalls DEF InsertSound
<1>2. p \in 0 .. a.n /\ p \in 0 .. p /\ m \in Nat
  BY <1>1, VectorAssumption DEF Places
<1>3. Holds(RangeInsert(a, p, New(m)), With(p, New(m)))
  <2> DEFINE vs == New(m)
  <2>1. vs \in Seq(Int)
    <3>1. DOMAIN vs = 1 .. m /\ (\A i \in 1 .. m : vs[i] = a.n + i) /\ vs = [i \in 1 .. m |-> vs[i]]
      BY DEF New
    <3> HIDE DEF vs
    <3>2. \A i \in 1 .. m : vs[i] \in Int
      BY <3>1, <1>1
    <3> QED BY <3>1, <3>2, <1>2, FunctionSeq
  <2> HIDE DEF vs
  <2>2. Replaced(a, p, p, vs, RangeInsert(a, p, vs))
    BY <1>1, <1>2, <2>1, RangeInsertReplaces
  <2>3. Holds(RangeInsert(a, p, vs), With(p, vs))
    BY <1>1, <1>2, <2>1, <2>2, ReplacedHolds DEF With
  <2> QED BY <2>3 DEF vs
<1>4. Holds(CopiesPut(a, p, m, NewOne), With(p, Times(m, NewOne))) = CopiesFit(p, m)
  <2> DEFINE vs == Times(m, NewOne)
             e  == CopiesPut(a, p, m, NewOne)
  <2>1. vs \in Seq(Int)
    BY <1>1, <1>2, TimesIs
  <2>2. Good(e)
    BY <1>1, <1>2, InsertNGood
  <2>3. ASSUME CopiesFit(p, m) PROVE Replaced(a, p, p, vs, e)
    BY <1>1, <1>2, <2>3, InsertNReplaces DEF CopiesFit
  <2>4. ASSUME ~CopiesFit(p, m) PROVE ~Replaced(a, p, p, vs, e)
    <3>1. m # 0 /\ ~(Room(a) < m) /\ p <= m /\ p # a.n - p
      BY <1>1, <1>2, <2>4 DEF CopiesFit
    <3> QED BY <1>1, <1>2, <3>1, InsertNCrossesElements
  <2> HIDE DEF vs, e
  <2>5. Replaced(a, p, p, vs, e) <=> Holds(e, With(p, vs))
    BY <1>1, <1>2, <2>1, <2>2, ReplacedHolds, HoldsReplaced DEF With
  <2>6. Holds(e, With(p, vs)) = CopiesFit(p, m)
    BY <2>3, <2>4, <2>5 DEF Holds, CopiesFit
  <2> QED BY <2>6 DEF vs, e
<1> QED BY <1>3, <1>4

LEMMA EraseIsSound == ASSUME Numbers(a) PROVE EraseSound
<1>1. Good(a) /\ a.ok /\ a.n \in Nat
  BY NumbersFacts
<1> SUFFICES ASSUME NEW p \in Places
             PROVE  /\ \A q \in p .. a.n : Holds(EraseRange(a, p, q), Without(p, q))
                    /\ p < a.n => Holds(EraseOne(a, p), Without(p, p + 1))
  BY DEF EraseSound
<1>2. p \in 0 .. a.n
  BY DEF Places
<1>3. ASSUME NEW q \in p .. a.n PROVE Holds(EraseRange(a, p, q), Without(p, q))
  <2>1. q \in 0 .. a.n /\ p \in 0 .. q
    BY <1>1, <1>2
  <2> QED BY <1>1, <2>1, EraseHolds DEF Without
<1>4. ASSUME p < a.n PROVE Holds(EraseOne(a, p), Without(p, p + 1))
  <2>1. p + 1 \in p .. a.n
    BY <1>1, <1>2, <1>4
  <2>2. EraseOne(a, p) = EraseRange(a, p, p + 1)
    BY <1>1, <1>2, <1>4, EraseOneIs
  <2> QED BY <2>1, <2>2, <1>3
<1> QED BY <1>3, <1>4

LEMMA AssignIsSound == ASSUME Numbers(a) PROVE AssignSound
<1>1. Good(a) /\ a.ok /\ a.n \in Nat /\ NewOne \in Int /\ NewOne = a.n + 1
  BY NumbersFacts DEF NewOne
<1> SUFFICES ASSUME NEW m \in 0 .. MaxCap
             PROVE  /\ Holds(AssignRange(a, New(m)), New(m)) /\ Holds(CopyAssign(a, New(m)), New(m))
                    /\ Holds(Reserve(a, m), Contents(a)) /\ Holds(ShrinkToFit(a), Contents(a))
                    /\ Holds(AssignPut(a, m, NewOne), Times(m, NewOne)) = (m <= Cap(a) \/ a.n = 0)
                    /\ Holds(ResizePut(a, m, NewOne), [k \in 1 .. m |-> IF k <= a.n THEN k ELSE NewOne])
                         = (m <= a.n \/ CopiesFit(a.n, m - a.n))
  <2>1. ASSUME NEW m \in 0 .. MaxCap
        PROVE  Assign(a, m, Fresh(NewOne)) = AssignPut(a, m, NewOne) /\ Resize(a, m, Fresh(NewOne)) = ResizePut(a, m, NewOne)
    <3>1. m \in Nat
      BY VectorAssumption
    <3> QED BY <1>1, <3>1, FreshCalls, FreshAssign
  <2> QED BY <2>1 DEF AssignSound
<1>2. m \in Nat
  BY VectorAssumption
<1>3. Holds(AssignRange(a, New(m)), New(m)) /\ Holds(CopyAssign(a, New(m)), New(m))
  <2> DEFINE vs == New(m)
  <2>1. vs \in Seq(Int)
    <3>1. DOMAIN vs = 1 .. m /\ (\A i \in 1 .. m : vs[i] = a.n + i) /\ vs = [i \in 1 .. m |-> vs[i]]
      BY DEF New
    <3> HIDE DEF vs
    <3>2. \A i \in 1 .. m : vs[i] \in Int
      BY <3>1, <1>1
    <3> QED BY <3>1, <3>2, <1>2, FunctionSeq
  <2> HIDE DEF vs
  <2>2. Holds(AssignRange(a, vs), vs) /\ Holds(CopyAssign(a, vs), vs)
    BY <1>1, <2>1, AssignRangeHolds, ClearAndInsert DEF CopyAssign
  <2> QED BY <2>2 DEF vs
<1>4. Holds(Reserve(a, m), Contents(a)) /\ Holds(ShrinkToFit(a), Contents(a))
  <2>1. Same(a, Reserve(a, m)) /\ Same(a, ShrinkToFit(a))
    BY <1>1, <1>2, ReserveSame, ShrinkSame
  <2> QED BY <1>1, <2>1, SameHolds
<1>5. Holds(AssignPut(a, m, NewOne), Times(m, NewOne)) = (m <= Cap(a) \/ a.n = 0)
  BY <1>1, <1>2, AssignHolds
<1>6. Holds(ResizePut(a, m, NewOne), [k \in 1 .. m |-> IF k <= a.n THEN k ELSE NewOne])
        = (m <= a.n \/ CopiesFit(a.n, m - a.n))
  <2>1. Holds(ResizePut(a, m, a.n + 1), [k \in 1 .. m |-> IF k <= a.n THEN k ELSE a.n + 1])
          = (m <= a.n \/ m - a.n = 0 \/ Room(a) < m - a.n \/ a.n > m - a.n \/ a.n = a.n - a.n)
    BY <1>2, ResizeHolds
  <2> QED BY <2>1 DEF NewOne, CopiesFit
<1> QED BY <1>3, <1>4, <1>5, <1>6

(* What is replaced by vs holds ws as well only when they are the same.    *)
LEMMA ReplacedDiffer ==
    ASSUME NEW d, Good(d), NEW p \in 0 .. d.n, NEW vs \in Seq(Int), NEW ws \in Seq(Int), Len(vs) = Len(ws),
           NEW e, Replaced(d, p, p, vs, e)
    PROVE  Holds(e, SubSeq(Contents(d), 1, p) \o ws \o SubSeq(Contents(d), p + 1, d.n)) <=> vs = ws
<1>1. d.n \in Nat /\ p \in Nat /\ p \in 0 .. p /\ p <= d.n /\ Len(vs) \in Nat /\ Good(e)
  BY GoodFacts, LenProperties DEF Replaced
<1>2. ASSUME vs = ws PROVE Holds(e, SubSeq(Contents(d), 1, p) \o ws \o SubSeq(Contents(d), p + 1, d.n))
  BY <1>1, <1>2, ReplacedHolds
<1>3. ASSUME Holds(e, SubSeq(Contents(d), 1, p) \o ws \o SubSeq(Contents(d), p + 1, d.n)) PROVE vs = ws
  <2>1. Replaced(d, p, p, ws, e)
    BY <1>1, <1>3, HoldsReplaced
  <2>2. ASSUME NEW i \in 1 .. Len(vs) PROVE vs[i] = ws[i]
    <3> DEFINE j == p + i
    <3>1. j \in 1 .. d.n + Len(vs) /\ ~(j <= p) /\ j <= p + Len(vs) /\ j - p = i
      BY <1>1
    <3>2. e.n = d.n + Len(vs)
      BY <1>1 DEF Replaced
    <3> HIDE DEF j
    <3>3. e.cells[j] = Element(d.cells, p, p, vs, j) /\ e.cells[j] = Element(d.cells, p, p, ws, j)
      BY <2>1, <3>1, <3>2 DEF Replaced
    <3> QED BY <3>1, <3>3 DEF Element
  <2> QED BY <2>2, SeqEqual
<1> QED BY <1>2, <1>3

(* The element k is the number k + 1.                                      *)
LEMMA OwnCell == ASSUME Numbers(a), NEW k \in 0 .. a.n - 1 PROVE Cell(a, k) = k + 1
<1>1. a \in Vectors /\ k \in Nat /\ k < Len(a.cells) /\ k + 1 \in 1 .. Len(a.cells) /\ k + 1 <= a.n
  BY NumbersFacts DEF Good
<1> QED BY <1>1, CellIs DEF Numbers

LEMMA PushOwn ==
    ASSUME Numbers(a), NEW k \in 0 .. a.n - 1
    PROVE  Holds(PushBack(a, Own(k)), Append(Contents(a), k + 1)) = (Room(a) > 0)
<1>1. /\ Good(a) /\ a.ok /\ a.n \in Nat /\ k \in Nat /\ k + 1 \in Int /\ k < a.n /\ Hollow \in Int
      /\ Hollow # k + 1
  BY NumbersFacts DEF Hollow
<1>2. Cell(a, k) = k + 1
  BY OwnCell
<1>3. CASE Room(a) > 0
  <2>1. PushBack(a, Own(k)) = Pushed(a, k + 1)
    BY <1>1, <1>2, <1>3, PushBackIs, OwnIs
  <2>2. Holds(Pushed(a, k + 1), Append(Contents(a), k + 1))
    BY <1>1, PushBackHolds
  <2> QED BY <1>3, <2>1, <2>2 DEF Holds
<1>4. CASE ~(Room(a) > 0)
  <2> DEFINE e == Pushed(a, Hollow)
             c == Contents(a)
  <2>1. PushBack(a, Own(k)) = e
    <3> DEFINE moved == 0 .. a.n - 1
    <3>1. k \in moved
      OBVIOUS
    <3> HIDE DEF moved
    <3>a. Given(a, Own(k), moved) = Hollow
      BY <1>1, <3>1, OwnIs
    <3>2. Given(a, Own(k), 0 .. a.n - 1) = Hollow
      BY <3>a DEF moved
    <3> QED BY <1>4, <3>2, PushBackIs
  <2>2. Contents(e) = Append(c, Hollow)
    BY <1>1, PushBackHolds DEF Holds
  <2>3. c \in Seq(Int)
    BY <1>1, ContentsIs
  <2> HIDE DEF c, e
  <2>4. Append(c, Hollow)[Len(c) + 1] = Hollow /\ Append(c, k + 1)[Len(c) + 1] = k + 1
    BY <1>1, <2>3, AppendProperties
  <2>5. ~Holds(e, Append(c, k + 1))
    BY <1>1, <2>2, <2>4 DEF Holds
  <2> QED BY <1>4, <2>1, <2>5 DEF Holds, c
<1> QED BY <1>3, <1>4

LEMMA EmplaceOwn ==
    ASSUME Numbers(a), NEW k \in 0 .. a.n - 1, NEW p \in Places
    PROVE  Holds(Emplace(a, p, Own(k)), With(p, <<k + 1>>)) = IF Room(a) = 0 THEN p <= k ELSE k < p /\ p < a.n
<1> DEFINE g == IF Room(a) > 0 THEN Given(Opened(a, p), Own(k), {p}) ELSE Given(a, Own(k), 0 .. p - 1)
           e == Placed(a, p, g)
<1>1. /\ Good(a) /\ a.ok /\ a.n \in Nat /\ k \in Nat /\ k + 1 \in Int /\ k < a.n /\ Hollow \in Int
      /\ Hollow # k + 1 /\ p \in Nat /\ p \in 0 .. a.n /\ Len(a.cells) \in Nat /\ Room(a) = Len(a.cells) - a.n
      /\ a.n <= Len(a.cells)
  BY NumbersFacts, GoodFacts DEF Hollow, Places
<1>2. Cell(a, k) = k + 1
  BY OwnCell
<1>3. Emplace(a, p, Own(k)) = e
  BY EmplaceIs
<1>4. ASSUME Room(a) = 0 \/ p < a.n, g \in Int PROVE Holds(e, With(p, <<k + 1>>)) <=> g = k + 1
  <2> HIDE DEF g
  <2>1. Replaced(a, p, p, <<g>>, e)
    BY <1>1, <1>4, EmplaceReplaces
  <2> DEFINE vs == <<g>>
             ws == <<k + 1>>
  <2>2. vs \in Seq(Int) /\ ws \in Seq(Int) /\ Len(vs) = Len(ws) /\ vs[1] = g /\ ws[1] = k + 1
    BY <1>1, <1>4
  <2>3. vs = ws <=> g = k + 1
    BY <2>2
  <2> HIDE DEF vs, ws, e
  <2>4. Holds(e, With(p, ws)) <=> vs = ws
    <3>1. Replaced(a, p, p, vs, e)
      BY <2>1 DEF vs
    <3> QED BY <1>1, <2>2, <3>1, ReplacedDiffer DEF With
  <2> QED BY <2>3, <2>4 DEF ws
<1>5. CASE Room(a) = 0
  <2>1. g = IF k < p THEN Hollow ELSE k + 1
    <3>1. g = Given(a, Own(k), 0 .. p - 1)
      BY <1>5
    <3>2. k \in 0 .. p - 1 <=> k < p
      BY <1>1
    <3> QED BY <1>1, <1>2, <3>1, <3>2, OwnIs
  <2> HIDE DEF g
  <2>2. g \in Int /\ (g = k + 1 <=> p <= k)
    BY <1>1, <2>1
  <2>3. Holds(e, With(p, <<k + 1>>)) <=> p <= k
    BY <1>4, <1>5, <2>2
  <2> HIDE DEF e
  <2> QED BY <1>3, <1>5, <2>3 DEF Holds
<1>6. CASE Room(a) # 0 /\ p < a.n
  <2> DEFINE u == Opened(a, p)
  <2>1. /\ u \in Vectors /\ Len(u.cells) = Len(a.cells)
        /\ \A i \in 1 .. Len(a.cells) : u.cells[i] = IF p + 1 < i /\ i <= a.n + 1 THEN a.cells[i - 1] ELSE a.cells[i]
    BY <1>1, <1>6, OpenedIs
  <2>2. g = IF k = p THEN Hollow ELSE Cell(u, k)
    <3>1. Room(a) > 0 /\ (k \in {p} <=> k = p)
      BY <1>1, <1>6
    <3> QED BY <1>1, <3>1, OwnIs
  <2> HIDE DEF u, g
  <2>3. Cell(u, k) = u.cells[k + 1] /\ k + 1 \in 1 .. Len(a.cells)
    BY <1>1, <2>1, CellIs
  <2>4. CASE k < p
    <3>1. ~(p + 1 < k + 1) /\ k # p
      BY <1>1, <2>4
    <3>2. a.cells[k + 1] = k + 1
      BY <1>1, <2>3 DEF Numbers
    <3> QED BY <2>1, <2>2, <2>3, <3>1, <3>2, <1>1, <1>4, <1>6, <2>4, <1>3 DEF Holds
  <2>5. CASE k = p
    <3>1. g = Hollow /\ ~(k < p)
      BY <1>1, <2>2, <2>5
    <3>2. ~Holds(e, With(p, <<k + 1>>))
      BY <1>1, <1>4, <1>6, <3>1
    <3> HIDE DEF e
    <3> QED BY <1>3, <1>6, <3>1, <3>2 DEF Holds
  <2>6. CASE k > p
    <3>1. p + 1 < k + 1 /\ k + 1 <= a.n + 1 /\ (k + 1) - 1 = k /\ k \in 1 .. Len(a.cells) /\ k <= a.n
          /\ k # p /\ ~(k < p) /\ k # k + 1
      BY <1>1, <2>6
    <3>2. u.cells[k + 1] = a.cells[k] /\ a.cells[k] = k
      BY <2>1, <2>3, <3>1 DEF Numbers
    <3>3. g = k
      BY <2>2, <2>3, <3>1, <3>2
    <3>4. ~Holds(e, With(p, <<k + 1>>))
      <4>1. g \in Int /\ g # k + 1
        BY <1>1, <3>1, <3>3
      <4> QED BY <1>4, <1>6, <4>1
    <3> HIDE DEF e
    <3> QED BY <1>3, <1>6, <3>1, <3>4 DEF Holds
  <2> QED BY <1>1, <2>4, <2>5, <2>6
<1>7. CASE Room(a) # 0 /\ ~(p < a.n)
  <2>1. p = a.n /\ Room(a) > 0 /\ ~(k \in {p})
    BY <1>1, <1>7
  <2>2. g \in Int
    <3>1. Opened(a, p) \in Vectors
      BY <1>1, <1>7, <2>1, OpenedAtEnd
    <3>2. g = Cell(Opened(a, p), k)
      BY <1>1, <2>1, OwnIs
    <3> QED BY <1>1, <3>1, <3>2, CellIn
  <2> HIDE DEF g
  <2>3. ~e.ok
    BY <1>1, <1>7, <2>1, <2>2, EmplaceFails
  <2> HIDE DEF e
  <2> QED BY <1>3, <1>7, <2>3 DEF Holds
<1> QED BY <1>5, <1>6, <1>7

LEMMA InsertOwn ==
    ASSUME Numbers(a), NEW k \in 0 .. a.n - 1, NEW p \in Places, NEW m \in 0 .. MaxNew, CopiesFit(p, m)
    PROVE  Holds(InsertN(a, p, m, Own(k)), With(p, Times(m, k + 1))) = (m = 0 \/ Room(a) < m \/ p <= m \/ k < p + m)
<1> DEFINE u == CopiedUp(a, p, m)
           g == IF ReadAfter(a, p, m) THEN Given(u, Own(k), {}) ELSE Given(a, Own(k), {})
           e == CopiesPut(a, p, m, g)
<1>1. /\ Good(a) /\ a.ok /\ a.n \in Nat /\ k \in Nat /\ k + 1 \in Int /\ k < a.n /\ p \in Nat /\ p \in 0 .. a.n
      /\ Len(a.cells) \in Nat /\ Room(a) = Len(a.cells) - a.n /\ a.n <= Len(a.cells) /\ m \in Nat
  BY NumbersFacts, GoodFacts, VectorAssumption DEF Places
<1>2. Cell(a, k) = k + 1
  BY OwnCell
<1>3. InsertN(a, p, m, Own(k)) = e
  BY InsertNIs
<1>4. ASSUME g \in Int PROVE Holds(e, With(p, Times(m, k + 1))) <=> m = 0 \/ g = k + 1
  <2> HIDE DEF g
  <2> DEFINE vs == Times(m, g)
             ws == Times(m, k + 1)
  <2>1. Replaced(a, p, p, vs, e)
    BY <1>1, <1>4, InsertNReplaces DEF CopiesFit
  <2>2. vs \in Seq(Int) /\ Len(vs) = m /\ \A i \in 1 .. m : vs[i] = g
    BY <1>1, <1>4, TimesIs
  <2>3. ws \in Seq(Int) /\ Len(ws) = m /\ \A i \in 1 .. m : ws[i] = k + 1
    BY <1>1, TimesIs
  <2> HIDE DEF vs, ws, e
  <2>4. vs = ws <=> m = 0 \/ g = k + 1
    <3>1. CASE m = 0 \/ g = k + 1
      <4>1. \A i \in 1 .. Len(vs) : vs[i] = ws[i]
        BY <1>1, <2>2, <2>3, <3>1
      <4>2. vs = ws
        BY <2>2, <2>3, <4>1, SeqEqual
      <4> QED BY <3>1, <4>2
    <3>2. CASE ~(m = 0 \/ g = k + 1)
      <4>1. 1 \in 1 .. m
        BY <1>1, <3>2
      <4> QED BY <2>2, <2>3, <3>2, <4>1
    <3> QED BY <3>1, <3>2
  <2>5. Holds(e, With(p, ws)) <=> vs = ws
    BY <1>1, <2>1, <2>2, <2>3, ReplacedDiffer DEF With
  <2> QED BY <2>4, <2>5 DEF ws
<1>5. CASE ~ReadAfter(a, p, m)
  <2>1. g = k + 1
    BY <1>1, <1>2, <1>5, OwnIs
  <2>2. m = 0 \/ Room(a) < m \/ p <= m
    BY <1>1, <1>5 DEF ReadAfter
  <2> HIDE DEF g
  <2>3. Holds(e, With(p, Times(m, k + 1)))
    BY <1>1, <1>4, <2>1
  <2> HIDE DEF e
  <2> QED BY <1>3, <2>2, <2>3 DEF Holds
<1>6. CASE ReadAfter(a, p, m)
  <2>1. m # 0 /\ ~(Room(a) < m) /\ p > m /\ ~(p <= m)
    BY <1>1, <1>6 DEF ReadAfter
  <2>2. m <= a.n /\ a.n + m <= Len(a.cells)
    BY <1>1, <2>1
  <2>3. Shifted(a, p, m, u)
    BY <1>1, <2>2, CopiedUpIs
  <2>4. g = Cell(u, k)
    BY <1>1, <1>6, OwnIs
  <2> HIDE DEF u, g
  <2>5. Cell(u, k) = u.cells[k + 1] /\ k + 1 \in 1 .. Len(a.cells)
    <3>1. u \in Vectors /\ Len(u.cells) = Len(a.cells) /\ k < Len(a.cells) /\ k + 1 \in 1 .. Len(a.cells)
      BY <1>1, <2>3 DEF Shifted
    <3> QED BY <1>1, <3>1, CellIs
  <2>6. k + 1 <= a.n + m /\ ~(a.n < k + 1)
    BY <1>1
  <2>7. g = IF k < p + m THEN k + 1 ELSE k + 1 - m
    <3>1. u.cells[k + 1] = IF p + m < k + 1 THEN a.cells[k + 1 - m] ELSE a.cells[k + 1]
      BY <2>3, <2>5, <2>6 DEF Shifted
    <3>2. p + m < k + 1 <=> ~(k < p + m)
      BY <1>1
    <3>3. a.cells[k + 1] = k + 1
      BY <2>5, <2>6, <1>1 DEF Numbers
    <3>4. ASSUME ~(k < p + m) PROVE a.cells[k + 1 - m] = k + 1 - m
      <4> DEFINE j == k + 1 - m
      <4>1. j \in 1 .. Len(a.cells) /\ j <= a.n
        BY <1>1, <2>1, <3>4
      <4> HIDE DEF j
      <4>2. a.cells[j] = j
        BY <4>1 DEF Numbers
      <4> QED BY <4>2 DEF j
    <3> QED BY <2>4, <2>5, <3>1, <3>2, <3>3, <3>4
  <2>8. g \in Int /\ (g = k + 1 <=> k < p + m)
    BY <1>1, <2>1, <2>7
  <2>9. Holds(e, With(p, Times(m, k + 1))) <=> k < p + m
    BY <1>4, <2>1, <2>8
  <2> HIDE DEF e
  <2> QED BY <1>3, <2>1, <2>9 DEF Holds
<1> QED BY <1>5, <1>6

LEMMA AssignOwn ==
    ASSUME Numbers(a), NEW k \in 0 .. a.n - 1, NEW m \in 0 .. MaxCap
    PROVE  Holds(Assign(a, m, Own(k)), Times(m, k + 1)) = (m <= Cap(a))
<1> DEFINE x == Own(k)
<1>1. /\ Good(a) /\ a.ok /\ a.n \in Nat /\ k \in Nat /\ k + 1 \in Int /\ k < a.n /\ m \in Nat
      /\ Cap(a) = Len(a.cells) /\ Len(a.cells) \in Nat
  BY NumbersFacts, VectorAssumption
<1>2. Cell(a, k) = k + 1
  BY OwnCell
<1>3. x.at = k /\ x.at # Elsewhere
  BY <1>1 DEF Own, Elsewhere
<1>4. Given(a, x, {}) = k + 1
  BY <1>1, <1>2, OwnIs
<1>5. CASE m <= Cap(a)
  <2> DEFINE vs == Times(m, k + 1)
  <2>1. vs \in Seq(Int) /\ m = Len(vs)
    BY <1>1, TimesIs
  <2>2. ~(m > Cap(a))
    BY <1>1, <1>5
  <2> HIDE DEF x
  <2>3. Assign(a, m, x) = Overwritten(a, m, vs)
    BY <1>4, <2>2 DEF Assign, Overwritten
  <2> HIDE DEF vs
  <2>4. Holds(Overwritten(a, m, vs), vs)
    BY <1>1, <1>5, <2>1, OverwriteHolds
  <2> QED BY <1>5, <2>3, <2>4 DEF Holds, vs, x
<1>6. CASE ~(m <= Cap(a))
  <2> DEFINE r == Reserve(a, m)
             e == InsertN(r, 0, m, x)
             h == [e EXCEPT !.ok = @ /\ x.at = Elsewhere]
  <2>1. Same(a, r) /\ m > Cap(a)
    BY <1>1, <1>6, ReserveSame
  <2>2. Assign(a, m, x) = h
    BY <2>1 DEF Assign
  <2> HIDE DEF r
  <2>3. Good(r) /\ r.ok /\ r \in Vectors /\ 0 \in 0 .. r.n
    BY <1>1, <2>1, GoodFacts DEF Same
  <2>4. Given(r, x, {}) \in Int
    BY <1>1, <2>3, OwnIs, CellIn
  <2>5. e = CopiesPut(r, 0, m, Given(r, x, {}))
    <3>1. ~ReadAfter(r, 0, m)
      BY <1>1 DEF ReadAfter
    <3> QED BY <3>1, InsertNIs
  <2>6. e \in Vectors
    BY <1>1, <2>3, <2>4, <2>5, InsertNGood DEF Good
  <2> HIDE DEF e, x
  <2>7. h.ok = FALSE
    BY <1>3, <2>6 DEF Vectors
  <2> HIDE DEF h
  <2> QED BY <1>6, <2>2, <2>7 DEF Holds, x
<1> QED BY <1>5, <1>6

LEMMA OwnIsSound == ASSUME Numbers(a) PROVE OwnSound
BY PushOwn, EmplaceOwn, InsertOwn, AssignOwn DEF OwnSound

LEMMA FillIsSound == FillSound
<1>1. \A m \in 0 .. MaxCap : m \in Nat
  BY VectorAssumption
<1> QED BY <1>1, RvalueIs DEF FillSound

LEMMA InvSound == VectorInv => VectorSound
<1> SUFFICES ASSUME VectorInv PROVE VectorSound
  OBVIOUS
<1>1. Numbers(a) /\ Len(a.cells) <= MaxCap
  BY DEF VectorInv, Fits, a
<1>2. Holds(a, Up(a.n)) /\ Cap(a) <= MaxCap
  BY <1>1, NumbersFacts
<1>3. OneSound /\ EmplaceSound /\ InsertSound /\ EraseSound /\ AssignSound /\ OwnSound /\ FillSound
  BY <1>1, OneIsSound, EmplaceIsSound, InsertIsSound, EraseIsSound, AssignIsSound, OwnIsSound, FillIsSound
<1> QED BY <1>2, <1>3 DEF VectorSound

(* Both vectors of a state fit their buffers, and no call has touched a    *)
(* cell outside them, for every bound on the buffers.                      *)
THEOREM VectorsStayInside == SpecVector => []VectorInv
<1> QED BY InitInv, StepInv, PTL DEF SpecVector

(* Every call of a vector leaves the elements its definition says, inside  *)
(* the buffer, and those that do not are the ones VectorSound names, for   *)
(* every size of the buffer and every number of elements a call inserts.   *)
THEOREM VectorStaysSound == SpecVector => []VectorSound
<1> QED BY InitInv, StepInv, InvSound, PTL DEF SpecVector

-----------------------------------------------------------------------------
(* Places of bits. The place n is in the word n \div WordBits.             *)

Bufs      == {"old", "new"}
Iterators == [buf : Bufs, p : Int, o : 0 .. WordBits - 1]
At(b, n)  == It(b, n \div WordBits, n % WordBits)

LEMMA PlaceOf ==
    ASSUME NEW n \in Int
    PROVE  /\ n \div WordBits \in Int /\ n % WordBits \in 0 .. WordBits - 1
           /\ n = WordBits * (n \div WordBits) + (n % WordBits)
BY BitmapAssumption

LEMMA WordsApart ==
    ASSUME NEW p \in Int, NEW q \in Int, p < q
    PROVE  WordBits * p + WordBits <= WordBits * q
BY BitmapAssumption

LEMMA WordsAdd ==
    ASSUME NEW p \in Int, NEW q \in Int
    PROVE  /\ WordBits * (p + q) = WordBits * p + WordBits * q /\ WordBits * (p - q) = WordBits * p - WordBits * q
           /\ WordBits * (p + 1) = WordBits * p + WordBits /\ WordBits * (p - 1) = WordBits * p - WordBits
           /\ WordBits * p \in Int /\ p * WordBits = WordBits * p /\ WordBits * 0 = 0
BY BitmapAssumption

LEMMA PlaceUnique ==
    ASSUME NEW p \in Int, NEW q \in Int, NEW o \in 0 .. WordBits - 1, NEW r \in 0 .. WordBits - 1,
           WordBits * p + o = WordBits * q + r
    PROVE  p = q /\ o = r
<1>1. ~(p < q)
  BY WordsApart, BitmapAssumption
<1>2. ~(q < p)
  BY WordsApart, BitmapAssumption
<1> QED BY <1>1, <1>2, BitmapAssumption

LEMMA AtIs ==
    ASSUME NEW b \in Bufs, NEW n \in Int
    PROVE  /\ At(b, n) \in Iterators /\ At(b, n).buf = b
           /\ At(b, n).p \in Int /\ At(b, n).o \in 0 .. WordBits - 1
           /\ WordBits * At(b, n).p + At(b, n).o = n
BY PlaceOf DEF At, It, Iterators

LEMMA IsAt ==
    ASSUME NEW b \in Bufs, NEW p \in Int, NEW o \in 0 .. WordBits - 1, NEW n \in Int, WordBits * p + o = n
    PROVE  It(b, p, o) = At(b, n)
<1>1. n \div WordBits \in Int /\ n % WordBits \in 0 .. WordBits - 1
  BY PlaceOf
<1>2. n = WordBits * (n \div WordBits) + (n % WordBits)
  BY PlaceOf
<1>3. p = n \div WordBits /\ o = n % WordBits
  BY <1>1, <1>2, PlaceUnique
<1> QED BY <1>3 DEF At

LEMMA SameAt ==
    ASSUME NEW b \in Bufs, NEW c \in Bufs, NEW n \in Int, NEW k \in Int
    PROVE  At(b, n) = At(c, k) <=> b = c /\ n = k
<1>1. At(b, n) = At(c, k) => b = c /\ n = k
  BY AtIs
<1> QED BY <1>1

LEMMA ItIs ==
    ASSUME NEW b, NEW p \in Int, NEW o \in Int
    PROVE  /\ It(b, p, o).p = p /\ It(b, p, o).o = o /\ It(b, p, o).buf = b
           /\ BumpUp(It(b, p, o)) = IF o = WordBits - 1 THEN It(b, p + 1, 0) ELSE It(b, p, o + 1)
           /\ BumpDown(It(b, p, o)) = IF o = 0 THEN It(b, p - 1, WordBits - 1) ELSE It(b, p, o - 1)
BY DEF It, BumpUp, BumpDown

(* A place is the offset from the first bit x of its word.                 *)
LEMMA PlaceIs ==
    ASSUME NEW b \in Bufs, NEW n \in Int
    PROVE  \E p \in Int, o \in 0 .. WordBits - 1, x \in Int :
              At(b, n) = It(b, p, o) /\ x = WordBits * p /\ x + o = n
<1> DEFINE p == n \div WordBits
           o == n % WordBits
<1>1. p \in Int /\ o \in 0 .. WordBits - 1 /\ n = WordBits * p + o
  BY PlaceOf
<1>2. At(b, n) = It(b, p, o)
  BY DEF At
<1> HIDE DEF p, o
<1>3. WordBits * p \in Int
  BY <1>1, WordsAdd
<1> QED BY <1>1, <1>2, <1>3

LEMMA BumpsAt ==
    ASSUME NEW b \in Bufs, NEW n \in Int
    PROVE  BumpUp(At(b, n)) = At(b, n + 1) /\ BumpDown(At(b, n)) = At(b, n - 1)
<1>1. PICK p \in Int, o \in 0 .. WordBits - 1, x \in Int : At(b, n) = It(b, p, o) /\ x = WordBits * p /\ x + o = n
  BY PlaceIs
<1>2. WordBits * (p + 1) = x + WordBits /\ WordBits * (p - 1) = x - WordBits /\ WordBits \in Nat \ {0}
  BY <1>1, WordsAdd, BitmapAssumption
<1>3. BumpUp(It(b, p, o)) = At(b, n + 1)
  <2>1. CASE o = WordBits - 1
    <3>1. WordBits * (p + 1) + 0 = n + 1 /\ 0 \in 0 .. WordBits - 1
      BY <2>1, <1>1, <1>2
    <3> QED BY <2>1, <3>1, IsAt, ItIs
  <2>2. CASE o # WordBits - 1
    <3>1. x + (o + 1) = n + 1 /\ o + 1 \in 0 .. WordBits - 1
      BY <2>2, <1>1, <1>2
    <3>2. WordBits * p + (o + 1) = n + 1
      BY <3>1, <1>1
    <3>3. It(b, p, o + 1) = At(b, n + 1)
      BY <3>1, <3>2, IsAt
    <3> QED BY <2>2, <3>3, ItIs
  <2> QED BY <2>1, <2>2
<1>4. BumpDown(It(b, p, o)) = At(b, n - 1)
  <2>1. CASE o = 0
    <3>1. WordBits * (p - 1) + (WordBits - 1) = n - 1 /\ WordBits - 1 \in 0 .. WordBits - 1
      BY <2>1, <1>1, <1>2
    <3> QED BY <2>1, <3>1, IsAt, ItIs
  <2>2. CASE o # 0
    <3>1. x + (o - 1) = n - 1 /\ o - 1 \in 0 .. WordBits - 1
      BY <2>2, <1>1, <1>2
    <3>2. WordBits * p + (o - 1) = n - 1
      BY <3>1, <1>1
    <3>3. It(b, p, o - 1) = At(b, n - 1)
      BY <3>1, <3>2, IsAt
    <3> QED BY <2>2, <3>3, ItIs
  <2> QED BY <2>1, <2>2
<1> QED BY <1>1, <1>3, <1>4

LEMMA DiffAt ==
    ASSUME NEW b \in Bufs, NEW c \in Bufs, NEW n \in Int, NEW k \in Int
    PROVE  Diff(At(b, n), At(c, k)) = n - k
<1>1. PICK p \in Int, o \in 0 .. WordBits - 1, x \in Int : At(b, n) = It(b, p, o) /\ x = WordBits * p /\ x + o = n
  BY PlaceIs
<1>2. PICK q \in Int, r \in 0 .. WordBits - 1, y \in Int : At(c, k) = It(c, q, r) /\ y = WordBits * q /\ y + r = k
  BY PlaceIs
<1>3. WordBits * (p - q) = x - y
  BY <1>1, <1>2, WordsAdd
<1>4. Diff(It(b, p, o), It(c, q, r)) = (x - y) + o - r
  BY <1>3, ItIs DEF Diff
<1>5. o \in Int /\ r \in Int
  BY BitmapAssumption
<1> QED BY <1>1, <1>2, <1>4, <1>5

(* The division truncates towards zero; the remainder is put right.        *)
LEMMA Truncates ==
    ASSUME NEW k \in Int
    PROVE  \E q \in Int, r \in Int, y \in Int :
              /\ q = Quotient(k)
              /\ y = WordBits * q /\ q * WordBits = y /\ y + r = k /\ r > 0 - WordBits /\ r < WordBits
<1>0. WordBits \in Nat \ {0}
  BY BitmapAssumption
<1>1. CASE k >= 0
  <2> DEFINE z == k \div WordBits
             s == k % WordBits
  <2>1. z \in Int /\ s \in 0 .. WordBits - 1 /\ k = WordBits * z + s
    BY PlaceOf
  <2>2. z = Quotient(k)
    BY <1>1 DEF Quotient
  <2> HIDE DEF z, s
  <2>3. z * WordBits = WordBits * z /\ WordBits * z \in Int
    BY <2>1, WordsAdd
  <2> DEFINE y == WordBits * z
  <2>4. y \in Int /\ y = WordBits * z /\ z * WordBits = y /\ y + s = k
    BY <2>1, <2>3
  <2> HIDE DEF y
  <2>5. s \in Int /\ s > 0 - WordBits /\ s < WordBits
    BY <2>1, <1>0
  <2> QED BY <2>1, <2>2, <2>4, <2>5
<1>2. CASE ~(k >= 0)
  <2> DEFINE l == 0 - k
             z == l \div WordBits
             s == l % WordBits
  <2>1. l \in Int
    OBVIOUS
  <2>2. 0 - z = Quotient(k) /\ k = 0 - l
    BY <1>2 DEF Quotient
  <2> HIDE DEF l
  <2>3. z \in Int /\ s \in 0 .. WordBits - 1 /\ l = WordBits * z + s
    BY <2>1, PlaceOf
  <2> HIDE DEF z, s
  <2>a. 0 - z \in Int
    BY <2>3
  <2>4. /\ WordBits * (0 - z) = WordBits * 0 - WordBits * z /\ WordBits * z \in Int /\ WordBits * 0 = 0
        /\ (0 - z) * WordBits = WordBits * (0 - z)
    <3>1. WordBits * (0 - z) = WordBits * 0 - WordBits * z
      BY <2>3, WordsAdd
    <3>2. WordBits * z \in Int /\ WordBits * 0 = 0
      BY <2>3, WordsAdd
    <3>3. (0 - z) * WordBits = WordBits * (0 - z)
      BY <2>a, WordsAdd
    <3> QED BY <3>1, <3>2, <3>3
  <2> DEFINE y == WordBits * z
  <2>5. y \in Int /\ WordBits * (0 - z) = 0 - y /\ (0 - z) * WordBits = 0 - y /\ l = y + s
    BY <2>3, <2>4
  <2> HIDE DEF y
  <2>6. 0 - z \in Int /\ 0 - s \in Int /\ 0 - y \in Int /\ (0 - y) + (0 - s) = k /\ 0 - s > 0 - WordBits /\ 0 - s < WordBits
    BY <2>2, <2>3, <2>5, <1>0
  <2> QED BY <2>2, <2>5, <2>6
<1> QED BY <1>1, <1>2

LEMMA AdvanceAt ==
    ASSUME NEW b \in Bufs, NEW n \in Int, NEW d \in Int
    PROVE  Advance(At(b, n), d) = At(b, n + d)
<1>0. WordBits \in Nat \ {0}
  BY BitmapAssumption
<1>1. PICK p \in Int, o \in 0 .. WordBits - 1, x \in Int : At(b, n) = It(b, p, o) /\ x = WordBits * p /\ x + o = n
  BY PlaceIs
<1>2. d + o \in Int
  BY <1>0
<1>3. PICK q \in Int, r \in Int, y \in Int :
         /\ q = Quotient(d + o)
         /\ y = WordBits * q /\ q * WordBits = y /\ y + r = d + o /\ r > 0 - WordBits /\ r < WordBits
  BY <1>2, Truncates
<1>4. r = d + o - q * WordBits
  BY <1>2, <1>3
<1>5. Advance(It(b, p, o), d) = IF r < 0 THEN It(b, p + q - 1, r + WordBits) ELSE It(b, p + q, r)
  <2>1. It(b, p, o).o = o /\ It(b, p, o).p = p /\ It(b, p, o).buf = b
    BY DEF It
  <2> QED BY <1>3, <1>4, <2>1 DEF Advance
<1> DEFINE u == p + q
           v == p + q - 1
<1>6. u \in Int /\ v \in Int /\ v = u - 1 /\ n + d \in Int /\ WordBits * u = WordBits * p + WordBits * q
  BY WordsAdd
<1>7. Advance(It(b, p, o), d) = IF r < 0 THEN It(b, v, r + WordBits) ELSE It(b, u, r)
  BY <1>5
<1> HIDE DEF u, v
<1>8. WordBits * u = x + y /\ WordBits * v = x + y - WordBits
  <2>1. WordBits * (u - 1) = WordBits * u - WordBits
    BY <1>6, WordsAdd
  <2>2. WordBits * u = x + y
    BY <1>1, <1>3, <1>6
  <2>3. WordBits * v = WordBits * (u - 1)
    BY <1>6
  <2> QED BY <2>1, <2>2, <2>3, <1>0, <1>6
<1>9. CASE r < 0
  <2>0. o \in Int /\ x + o = n /\ y + r = d + o /\ r > 0 - WordBits
    BY <1>0, <1>1, <1>3
  <2>1. (x + y - WordBits) + (r + WordBits) = n + d /\ r + WordBits \in 0 .. WordBits - 1
    BY <2>0, <1>0, <1>9
  <2>2. WordBits * v + (r + WordBits) = n + d
    BY <2>1, <1>8
  <2>3. It(b, v, r + WordBits) = At(b, n + d)
    BY <2>1, <2>2, <1>6, IsAt
  <2> QED BY <1>1, <1>7, <1>9, <2>3
<1>10. CASE ~(r < 0)
  <2>1. (x + y) + r = n + d /\ r \in 0 .. WordBits - 1
    BY <1>0, <1>1, <1>3, <1>10
  <2>2. WordBits * u + r = n + d
    BY <2>1, <1>8
  <2>3. It(b, u, r) = At(b, n + d)
    BY <2>1, <2>2, <1>6, IsAt
  <2> QED BY <1>1, <1>7, <1>10, <2>3
<1> QED BY <1>9, <1>10

-----------------------------------------------------------------------------
(* Buffers. What is at a place of one of the two buffers.                  *)

Word     == [1 .. WordBits -> Int]
Memories == [old : Seq(Word), new : Seq(Word), ok : BOOLEAN]
Half(m, b) == IF b = "old" THEN m.old ELSE m.new
Extent(m, b) == WordBits * Len(Half(m, b))
View(m, b, n) == Bit(m, At(b, n))

LEMMA ExtentIs ==
    ASSUME NEW m \in Memories, NEW b \in Bufs
    PROVE  /\ Half(m, b) \in Seq(Word) /\ Len(Half(m, b)) \in Nat /\ Extent(m, b) \in Nat
           /\ DOMAIN Half(m, b) = 1 .. Len(Half(m, b)) /\ m.ok \in BOOLEAN
<1>1. Half(m, b) \in Seq(Word) /\ m.ok \in BOOLEAN
  BY DEF Memories, Half
<1>2. Len(Half(m, b)) \in Nat /\ DOMAIN Half(m, b) = 1 .. Len(Half(m, b))
  BY <1>1, LenProperties
<1>3. WordBits * Len(Half(m, b)) \in Nat
  BY <1>2, BitmapAssumption
<1> QED BY <1>1, <1>2, <1>3 DEF Extent

LEMMA InsideAt ==
    ASSUME NEW m \in Memories, NEW b \in Bufs, NEW n \in Int
    PROVE  InWords(m, At(b, n)) <=> n \in 0 .. Extent(m, b) - 1
<1>0. WordBits \in Nat \ {0}
  BY BitmapAssumption
<1>1. PICK p \in Int, o \in 0 .. WordBits - 1, x \in Int : At(b, n) = It(b, p, o) /\ x = WordBits * p /\ x + o = n
  BY PlaceIs
<1> DEFINE l == Len(Half(m, b))
<1>2. l \in Nat /\ DOMAIN Half(m, b) = 1 .. l /\ Extent(m, b) = WordBits * l /\ Extent(m, b) \in Nat
  BY ExtentIs DEF Extent
<1>3. InWords(m, At(b, n)) <=> p + 1 \in 1 .. l
  <2>1. At(b, n).p = p /\ At(b, n).o = o /\ At(b, n).buf = b
    BY <1>1, <1>0, ItIs
  <2>2. Words(m, At(b, n)) = Half(m, b)
    BY <2>1 DEF Words, Half
  <2> QED BY <2>1, <2>2, <1>2 DEF InWords
<1> HIDE DEF l
<1>4. ASSUME p < 0 PROVE n < 0
  <2>1. WordBits * p + WordBits <= WordBits * 0 /\ WordBits * 0 = 0
    BY <1>4, WordsApart, WordsAdd
  <2> QED BY <2>1, <1>0, <1>1
<1>5. ASSUME p >= 0 PROVE n >= 0
  <2>1. CASE p = 0
    BY <2>1, <1>0, <1>1, WordsAdd
  <2>2. CASE p > 0
    <3>1. WordBits * 0 + WordBits <= WordBits * p /\ WordBits * 0 = 0
      BY <2>2, WordsApart, WordsAdd
    <3> QED BY <3>1, <1>0, <1>1
  <2> QED BY <1>5, <2>1, <2>2
<1>6. ASSUME p < l PROVE n < Extent(m, b)
  <2>1. WordBits * p + WordBits <= WordBits * l
    BY <1>2, <1>6, WordsApart
  <2> QED BY <2>1, <1>0, <1>1, <1>2
<1>7. ASSUME p >= l PROVE n >= Extent(m, b)
  <2>1. CASE p = l
    BY <2>1, <1>0, <1>1, <1>2
  <2>2. CASE p > l
    <3>1. WordBits * l + WordBits <= WordBits * p
      BY <2>2, <1>2, WordsApart
    <3> QED BY <3>1, <1>0, <1>1, <1>2
  <2> QED BY <1>2, <1>7, <2>1, <2>2
<1> QED BY <1>2, <1>3, <1>4, <1>5, <1>6, <1>7

(* A bit that is inside is the one of its word.                            *)
LEMMA ViewIs ==
    ASSUME NEW m \in Memories, NEW b \in Bufs, NEW n \in Int
    PROVE  /\ View(m, b, n) \in Int
           /\ n \in 0 .. Extent(m, b) - 1 =>
                /\ At(b, n).p + 1 \in 1 .. Len(Half(m, b)) /\ At(b, n).o + 1 \in 1 .. WordBits
                /\ View(m, b, n) = Half(m, b)[At(b, n).p + 1][At(b, n).o + 1]
           /\ n \notin 0 .. Extent(m, b) - 1 => View(m, b, n) = Blank
<1> DEFINE i == At(b, n)
<1>1. i.buf = b /\ i.p \in Int /\ i.o \in 0 .. WordBits - 1
  BY AtIs
<1>2. InWords(m, i) <=> n \in 0 .. Extent(m, b) - 1
  BY InsideAt
<1> HIDE DEF i
<1>3. Words(m, i) = Half(m, b) /\ Half(m, b) \in Seq(Word) /\ DOMAIN Half(m, b) = 1 .. Len(Half(m, b))
  BY <1>1, ExtentIs DEF Words, Half
<1>4. i.o + 1 \in 1 .. WordBits
  BY <1>1, BitmapAssumption
<1>5. CASE InWords(m, i)
  <2>1. i.p + 1 \in 1 .. Len(Half(m, b)) /\ Bit(m, i) = Half(m, b)[i.p + 1][i.o + 1]
    BY <1>3, <1>5 DEF InWords, Bit
  <2>2. Half(m, b)[i.p + 1] \in Word
    BY <1>3, <2>1, ElementOfSeq
  <2>3. Half(m, b)[i.p + 1][i.o + 1] \in Int
    BY <1>4, <2>2 DEF Word
  <2> QED BY <1>2, <1>4, <1>5, <2>1, <2>3 DEF View, i
<1>6. CASE ~InWords(m, i)
  BY <1>2, <1>6 DEF View, Bit, Blank, i
<1> QED BY <1>5, <1>6

(* A bit is set, and every other one is as before.                         *)
Sets(m, b, n, v, e) ==
    /\ e \in Memories /\ e.ok = m.ok /\ \A c \in Bufs : Len(Half(e, c)) = Len(Half(m, c))
    /\ \A c \in Bufs, k \in Int : View(e, c, k) = IF c = b /\ k = n THEN v ELSE View(m, c, k)

LEMMA PokeSets ==
    ASSUME NEW m \in Memories, NEW b \in Bufs, NEW n \in 0 .. Extent(m, b) - 1, NEW v \in Int
    PROVE  Sets(m, b, n, v, PokeBit(m, At(b, n), v))
<1> DEFINE i == At(b, n)
           p == i.p + 1
           o == i.o + 1
           B == Half(m, b)
           e == PokeBit(m, i, v)
<1>0. n \in Int /\ Extent(m, b) \in Nat
  BY ExtentIs
<1>1. i.buf = b /\ InWords(m, i)
  BY <1>0, AtIs, InsideAt
<1>2. p \in 1 .. Len(B) /\ o \in 1 .. WordBits
  BY <1>0, ViewIs
<1>3. B \in Seq(Word) /\ Len(B) \in Nat /\ DOMAIN B = 1 .. Len(B)
  BY ExtentIs
<1> DEFINE w == [B[p] EXCEPT ![o] = v]
           D == [B EXCEPT ![p] = w]
<1>4. w \in Word /\ \A k \in 1 .. WordBits : w[k] = IF k = o THEN v ELSE B[p][k]
  <2>1. B[p] \in Word
    BY <1>2, <1>3, ElementOfSeq
  <2> QED BY <2>1, <1>2 DEF Word
<1>5. D \in Seq(Word) /\ Len(D) = Len(B) /\ \A k \in 1 .. Len(B) : D[k] = IF k = p THEN w ELSE B[k]
  BY <1>2, <1>3, <1>4, ExceptSeq
<1>6. e \in Memories /\ e.ok = m.ok /\ \A c \in Bufs : Half(e, c) = IF c = b THEN D ELSE Half(m, c)
  <2>1. SetBit(B, i, v) = D
    BY DEF SetBit
  <2> HIDE DEF D, i
  <2>2. CASE b = "old"
    <3>1. e = [m EXCEPT !.old = D] /\ B = m.old
      BY <2>1, <2>2, <1>1 DEF PokeBit, Half
    <3> QED BY <3>1, <2>2, <1>5 DEF Memories, Half, Bufs
  <2>3. CASE b = "new"
    <3>1. e = [m EXCEPT !.new = D] /\ B = m.new
      BY <2>1, <2>3, <1>1 DEF PokeBit, Half
    <3> QED BY <3>1, <2>3, <1>5 DEF Memories, Half, Bufs
  <2> QED BY <2>2, <2>3 DEF Bufs
<1> HIDE DEF e, D, w
<1>7. \A c \in Bufs : Len(Half(e, c)) = Len(Half(m, c)) /\ Extent(e, c) = Extent(m, c)
  BY <1>5, <1>6 DEF Extent
<1>8. ASSUME NEW c \in Bufs, NEW k \in Int
      PROVE  View(e, c, k) = IF c = b /\ k = n THEN v ELSE View(m, c, k)
  <2>1. CASE k \notin 0 .. Extent(m, c) - 1
    <3>1. View(e, c, k) = Blank /\ View(m, c, k) = Blank
      BY <1>6, <1>7, <2>1, ViewIs
    <3> QED BY <3>1, <2>1
  <2>2. CASE k \in 0 .. Extent(m, c) - 1
    <3> DEFINE j == At(c, k)
    <3>1. /\ j.p + 1 \in 1 .. Len(Half(m, c)) /\ j.o + 1 \in 1 .. WordBits
          /\ View(m, c, k) = Half(m, c)[j.p + 1][j.o + 1]
          /\ View(e, c, k) = Half(e, c)[j.p + 1][j.o + 1]
      <4>1. k \in 0 .. Extent(e, c) - 1
        BY <1>7, <2>2
      <4> QED BY <1>6, <2>2, <4>1, ViewIs
    <3>2. CASE c # b
      BY <3>1, <3>2, <1>6
    <3>3. CASE c = b
      <4>1. j.p + 1 = p /\ j.o + 1 = o <=> k = n
        <5>1. ASSUME j.p + 1 = p, j.o + 1 = o PROVE k = n
          <6>1. /\ i.p \in Int /\ i.o \in 0 .. WordBits - 1 /\ j.p \in Int /\ j.o \in 0 .. WordBits - 1
                /\ WordBits * i.p + i.o = n /\ WordBits * j.p + j.o = k
            BY <1>0, AtIs
          <6> HIDE DEF i, j
          <6>2. j.p = i.p /\ j.o = i.o
            BY <5>1, <6>1
          <6> QED BY <6>1, <6>2
        <5>2. ASSUME k = n PROVE j.p + 1 = p /\ j.o + 1 = o
          BY <5>2, <3>3
        <5> QED BY <5>1, <5>2
      <4> HIDE DEF j, p, o
      <4>2. Half(e, c)[j.p + 1] = IF j.p + 1 = p THEN w ELSE B[j.p + 1]
        BY <1>5, <1>6, <3>1, <3>3
      <4>3. CASE j.p + 1 = p
        BY <4>1, <4>2, <4>3, <1>4, <3>1, <3>3
      <4>4. CASE j.p + 1 # p
        BY <4>1, <4>2, <4>4, <3>1, <3>3
      <4> QED BY <4>3, <4>4
    <3> QED BY <3>2, <3>3
  <2> QED BY <2>1, <2>2
<1>9. Sets(m, b, n, v, e)
  BY <1>6, <1>7, <1>8 DEF Sets
<1> QED BY <1>9 DEF e, i

-----------------------------------------------------------------------------
(* The loops over bits.                                                    *)

(* The round k of a loop: of kind "copy", "back" or "write", of vs.        *)
RoundOf(kind, vs, k, e) ==
    IF kind = "copy" THEN CopyRound(e) ELSE IF kind = "back" THEN BackRound(e) ELSE WriteRound(e, vs[k])

Loops(kind, vs, d, n, e) ==
    /\ DOMAIN e = 0 .. n /\ e[0] = d
    /\ \A k \in 1 .. n : e[k] = RoundOf(kind, vs, k, e[k - 1])

LEMMA LoopExists ==
    ASSUME NEW kind, NEW vs, NEW d, NEW n \in Nat
    PROVE  \E e : Loops(kind, vs, d, n, e)
<1> DEFINE T == {m \in Nat : ~\E e : Loops(kind, vs, d, m, e)}
<1> SUFFICES ASSUME T # {} PROVE FALSE
  OBVIOUS
<1>1. PICK m \in T : \A y \in T : m <= y
  BY LeastNumber
<1>2. m # 0
  <2> DEFINE e == [k \in 0 .. 0 |-> d]
  <2>1. Loops(kind, vs, d, 0, e)
    BY DEF Loops
  <2> QED BY <2>1
<1>3. m - 1 \in Nat /\ m - 1 \notin T
  BY <1>1, <1>2
<1>4. PICK e : Loops(kind, vs, d, m - 1, e)
  BY <1>3
<1> DEFINE g == [k \in 0 .. m |-> IF k = m THEN RoundOf(kind, vs, m, e[m - 1]) ELSE e[k]]
<1>5. Loops(kind, vs, d, m, g)
  <2>1. DOMAIN g = 0 .. m /\ g[0] = d
    BY <1>2, <1>4 DEF Loops
  <2>2. ASSUME NEW k \in 1 .. m PROVE g[k] = RoundOf(kind, vs, k, g[k - 1])
    <3>1. CASE k = m
      BY <3>1, <1>2
    <3>2. CASE k # m
      <4>1. k \in 1 .. m - 1 /\ k \in 0 .. m /\ k - 1 \in 0 .. m /\ k - 1 # m
        BY <3>2
      <4>2. e[k] = RoundOf(kind, vs, k, e[k - 1])
        BY <4>1, <1>4 DEF Loops
      <4> QED BY <4>1, <4>2, <3>2
    <3> QED BY <3>1, <3>2
  <2> QED BY <2>1, <2>2 DEF Loops
<1> QED BY <1>5

LEMMA CopyLoops ==
    ASSUME NEW m, NEW i, NEW j, NEW r, NEW n \in Nat, Rounds(Diff(j, i)) = n
    PROVE  \E e : Loops("copy", <<>>, [m |-> m, from |-> i, to |-> r], n, e) /\ BitCopy(m, i, j, r) = e[n]
<1> DEFINE d == [m |-> m, from |-> i, to |-> r]
           F(e) == [k \in 0 .. n |-> IF k = 0 THEN d ELSE CopyRound(e[k - 1])]
           f == CHOOSE e : e = F(e)
<1>1. PICK e : Loops("copy", <<>>, d, n, e)
  BY LoopExists
<1>2. \E h : h = F(h)
  <2> DEFINE h == [k \in 0 .. n |-> e[k]]
  <2>1. ASSUME NEW k \in 0 .. n PROVE h[k] = F(h)[k]
    <3>1. CASE k = 0
      BY <3>1, <1>1 DEF Loops
    <3>2. CASE k # 0
      <4>1. k \in 1 .. n /\ k - 1 \in 0 .. n
        BY <3>2
      <4> QED BY <4>1, <3>2, <1>1 DEF Loops, RoundOf
    <3> QED BY <3>1, <3>2
  <2>2. h = F(h)
    BY <2>1
  <2> QED BY <2>2
<1>3. f = F(f)
  BY <1>2
<1>4. BitCopy(m, i, j, r) = f[n]
  BY DEF BitCopy
<1> HIDE DEF f
<1>5. Loops("copy", <<>>, d, n, f)
  <2>1. DOMAIN f = 0 .. n /\ f[0] = d
    BY <1>3
  <2>2. ASSUME NEW k \in 1 .. n PROVE f[k] = RoundOf("copy", <<>>, k, f[k - 1])
    BY <1>3 DEF RoundOf
  <2> QED BY <2>1, <2>2 DEF Loops
<1> QED BY <1>4, <1>5

LEMMA BackLoops ==
    ASSUME NEW m, NEW i, NEW j, NEW r, NEW n \in Nat, Rounds(Diff(j, i)) = n
    PROVE  \E e : Loops("back", <<>>, [m |-> m, from |-> j, to |-> r], n, e) /\ BitCopyBackward(m, i, j, r) = e[n].m
<1> DEFINE d == [m |-> m, from |-> j, to |-> r]
           F(e) == [k \in 0 .. n |-> IF k = 0 THEN d ELSE BackRound(e[k - 1])]
           f == CHOOSE e : e = F(e)
<1>1. PICK e : Loops("back", <<>>, d, n, e)
  BY LoopExists
<1>2. \E h : h = F(h)
  <2> DEFINE h == [k \in 0 .. n |-> e[k]]
  <2>1. ASSUME NEW k \in 0 .. n PROVE h[k] = F(h)[k]
    <3>1. CASE k = 0
      BY <3>1, <1>1 DEF Loops
    <3>2. CASE k # 0
      <4>1. k \in 1 .. n /\ k - 1 \in 0 .. n
        BY <3>2
      <4> QED BY <4>1, <3>2, <1>1 DEF Loops, RoundOf
    <3> QED BY <3>1, <3>2
  <2>2. h = F(h)
    BY <2>1
  <2> QED BY <2>2
<1>3. f = F(f)
  BY <1>2
<1>4. BitCopyBackward(m, i, j, r) = f[n].m
  BY DEF BitCopyBackward
<1> HIDE DEF f
<1>5. Loops("back", <<>>, d, n, f)
  <2>1. DOMAIN f = 0 .. n /\ f[0] = d
    BY <1>3
  <2>2. ASSUME NEW k \in 1 .. n PROVE f[k] = RoundOf("back", <<>>, k, f[k - 1])
    BY <1>3 DEF RoundOf
  <2> QED BY <2>1, <2>2 DEF Loops
<1> QED BY <1>4, <1>5

LEMMA WriteLoops ==
    ASSUME NEW m, NEW i, NEW vs \in Seq(Int)
    PROVE  \E e : Loops("write", vs, [m |-> m, to |-> i], Len(vs), e) /\ Write(m, i, vs) = e[Len(vs)]
<1> DEFINE n == Len(vs)
           d == [m |-> m, to |-> i]
           F(e) == [k \in 0 .. n |-> IF k = 0 THEN d ELSE WriteRound(e[k - 1], vs[k])]
           f == CHOOSE e : e = F(e)
<1>0. n \in Nat
  BY LenProperties
<1>1. PICK e : Loops("write", vs, d, n, e)
  BY <1>0, LoopExists
<1>2. \E h : h = F(h)
  <2> DEFINE h == [k \in 0 .. n |-> e[k]]
  <2>1. ASSUME NEW k \in 0 .. n PROVE h[k] = F(h)[k]
    <3>1. CASE k = 0
      BY <3>1, <1>1 DEF Loops
    <3>2. CASE k # 0
      <4>1. k \in 1 .. n /\ k - 1 \in 0 .. n
        BY <3>2, <1>0
      <4> QED BY <4>1, <3>2, <1>1 DEF Loops, RoundOf
    <3> QED BY <3>1, <3>2
  <2>2. h = F(h)
    BY <2>1
  <2> QED BY <2>2
<1>3. f = F(f)
  BY <1>2
<1>4. Write(m, i, vs) = f[n]
  BY DEF Write
<1> HIDE DEF f, n, d
<1>5. Loops("write", vs, d, n, f)
  <2>1. DOMAIN f = 0 .. n /\ f[0] = d
    BY <1>3, <1>0
  <2>2. ASSUME NEW k \in 1 .. n PROVE f[k] = RoundOf("write", vs, k, f[k - 1])
    <3>1. k \in 0 .. n /\ k # 0
      BY <1>0
    <3>2. f[k] = WriteRound(f[k - 1], vs[k])
      BY <3>1, <1>3
    <3> QED BY <3>2 DEF RoundOf
  <2> QED BY <2>1, <2>2 DEF Loops
<1> QED BY <1>4, <1>5 DEF n, d

(* The elements J of ws are at the places from t on of b.                  *)
Wrote(m, b, t, ws, J, e) ==
    /\ e \in Memories /\ e.ok = m.ok /\ \A c \in Bufs : Len(Half(e, c)) = Len(Half(m, c))
    /\ \A c \in Bufs, k \in Int :
         View(e, c, k) = IF c = b /\ k - t + 1 \in J THEN ws[k - t + 1] ELSE View(m, c, k)

(* What is seen afterwards in the buffer that was written, and elsewhere.  *)
LEMMA WroteSees ==
    ASSUME NEW m, NEW b \in Bufs, NEW t, NEW ws, NEW J, NEW e, Wrote(m, b, t, ws, J, e), NEW k \in Int
    PROVE  View(e, b, k) = IF k - t + 1 \in J THEN ws[k - t + 1] ELSE View(m, b, k)
BY DEF Wrote

LEMMA WroteElsewhere ==
    ASSUME NEW m, NEW b, NEW t, NEW ws, NEW J, NEW e, Wrote(m, b, t, ws, J, e),
           NEW c \in Bufs, c # b, NEW k \in Int
    PROVE  View(e, c, k) = View(m, c, k)
BY DEF Wrote

LEMMA NothingWrote ==
    ASSUME NEW m \in Memories, NEW b, NEW t, NEW ws PROVE Wrote(m, b, t, ws, {}, m)
BY DEF Wrote

LEMMA OneMoreWrote ==
    ASSUME NEW m \in Memories, NEW b \in Bufs, NEW t \in Int, NEW ws, NEW J \in SUBSET Int, NEW e,
           Wrote(m, b, t, ws, J, e), NEW j \in Int, ws[j] \in Int, t + j - 1 \in 0 .. Extent(m, b) - 1
    PROVE  Wrote(m, b, t, ws, J \cup {j}, PokeBit(e, At(b, t + j - 1), ws[j]))
<1> DEFINE n == t + j - 1
           f == PokeBit(e, At(b, n), ws[j])
<1>1. e \in Memories /\ Extent(e, b) = Extent(m, b)
  BY DEF Wrote, Extent
<1>2. Sets(e, b, n, ws[j], f)
  BY <1>1, PokeSets
<1>3. n \in Int /\ \A k \in Int : k = n <=> k - t + 1 = j
  OBVIOUS
<1> HIDE DEF f, n
<1>4. ASSUME NEW c \in Bufs, NEW k \in Int
      PROVE  View(f, c, k) = IF c = b /\ k - t + 1 \in J \cup {j} THEN ws[k - t + 1] ELSE View(m, c, k)
  <2>1. View(f, c, k) = IF c = b /\ k = n THEN ws[j] ELSE View(e, c, k)
    BY <1>2 DEF Sets
  <2>2. View(e, c, k) = IF c = b /\ k - t + 1 \in J THEN ws[k - t + 1] ELSE View(m, c, k)
    BY DEF Wrote
  <2> QED BY <2>1, <2>2, <1>3
<1>5. f \in Memories /\ f.ok = m.ok /\ \A c \in Bufs : Len(Half(f, c)) = Len(Half(m, c))
  BY <1>2 DEF Sets, Wrote
<1>6. Wrote(m, b, t, ws, J \cup {j}, f)
  BY <1>4, <1>5 DEF Wrote
<1> QED BY <1>6 DEF f, n

(* The n bits from the place f on.                                         *)
Seen(m, b, f, n) == [i \in 1 .. n |-> View(m, b, f + i - 1)]

LEMMA SeenIs ==
    ASSUME NEW m \in Memories, NEW b \in Bufs, NEW f \in Int, NEW n \in Nat
    PROVE  /\ Seen(m, b, f, n) \in Seq(Int) /\ Len(Seen(m, b, f, n)) = n
           /\ \A i \in 1 .. n : Seen(m, b, f, n)[i] = View(m, b, f + i - 1) /\ Seen(m, b, f, n)[i] \in Int
<1> DEFINE s == Seen(m, b, f, n)
<1>1. \A i \in 1 .. n : View(m, b, f + i - 1) \in Int
  BY ViewIs
<1>2. DOMAIN s = 1 .. n /\ (\A i \in 1 .. n : s[i] = View(m, b, f + i - 1)) /\ s = [i \in 1 .. n |-> s[i]]
  BY DEF Seen
<1> HIDE DEF s
<1>3. s \in Seq(Int) /\ Len(s) = n
  BY <1>1, <1>2, FunctionSeq
<1> QED BY <1>1, <1>2, <1>3 DEF s

LEMMA WritesAt ==
    ASSUME NEW m \in Memories, NEW b \in Bufs, NEW t \in Nat, NEW vs \in Seq(Int), t + Len(vs) <= Extent(m, b)
    PROVE  /\ Wrote(m, b, t, vs, 1 .. Len(vs), Write(m, At(b, t), vs).m)
           /\ Write(m, At(b, t), vs).to = At(b, t + Len(vs))
<1> DEFINE n == Len(vs)
<1>1. n \in Nat /\ (\A k \in 1 .. n : vs[k] \in Int) /\ Extent(m, b) \in Nat
  BY LenProperties, ElementOfSeq, ExtentIs
<1>2. PICK e : Loops("write", vs, [m |-> m, to |-> At(b, t)], n, e) /\ Write(m, At(b, t), vs) = e[n]
  BY WriteLoops
<1>3. t + n <= Extent(m, b)
  OBVIOUS
<1> HIDE DEF n
<1> DEFINE Right(k) == Wrote(m, b, t, vs, 1 .. k, e[k].m) /\ e[k].to = At(b, t + k)
           T == {k \in 0 .. n : ~Right(k)}
<1> HIDE DEF Right
<1>4. T = {}
  <2> SUFFICES ASSUME T # {} PROVE FALSE
    OBVIOUS
  <2>1. PICK k \in T : \A y \in T : k <= y
    <3>1. T \in SUBSET Nat
      BY <1>1
    <3> QED BY <3>1, LeastNumber
  <2>2. k # 0
    <3>1. 1 .. 0 = {} /\ e[0].m = m /\ e[0].to = At(b, t) /\ t + 0 = t
      BY <1>2 DEF Loops
    <3> QED BY <3>1, NothingWrote DEF Right
  <2>3. k - 1 \in 0 .. n /\ k \in 1 .. n /\ k \in Int /\ ~Right(k) /\ Right(k - 1)
    <3>1. k - 1 \in 0 .. n /\ ~(k <= k - 1)
      BY <1>1, <2>1, <2>2
    <3>2. k - 1 \notin T /\ k \in 1 .. n
      BY <3>1, <2>1
    <3> QED BY <3>1, <3>2, <2>1
  <2> HIDE DEF T
  <2>4. Wrote(m, b, t, vs, 1 .. k - 1, e[k - 1].m) /\ e[k - 1].to = At(b, t + (k - 1))
    BY <2>3 DEF Right
  <2>5. e[k].m = PokeBit(e[k - 1].m, e[k - 1].to, vs[k]) /\ e[k].to = BumpUp(e[k - 1].to)
    <3>1. e[k] = WriteRound(e[k - 1], vs[k])
      BY <1>2, <2>3 DEF Loops, RoundOf
    <3> QED BY <3>1 DEF WriteRound
  <2>6. e[k - 1].to = At(b, t + k - 1) /\ t + k - 1 \in 0 .. Extent(m, b) - 1 /\ vs[k] \in Int
    <3>1. t + (k - 1) = t + k - 1
      BY <2>3
    <3> QED BY <3>1, <2>3, <2>4, <1>1, <1>3
  <2>7. 1 .. k = (1 .. k - 1) \cup {k} /\ 1 .. k - 1 \in SUBSET Int
    BY <2>3
  <2>8. Wrote(m, b, t, vs, (1 .. k - 1) \cup {k}, PokeBit(e[k - 1].m, At(b, t + k - 1), vs[k]))
    <3> DEFINE J == 1 .. k - 1
    <3>1. Wrote(m, b, t, vs, J, e[k - 1].m) /\ J \in SUBSET Int
      BY <2>4, <2>7
    <3> HIDE DEF J
    <3> DEFINE ws == vs
               x  == e[k - 1].m
    <3>2. Wrote(m, b, t, ws, J, x) /\ ws[k] \in Int
      BY <3>1, <2>6
    <3> HIDE DEF ws, x
    <3>3. t \in Int /\ k \in Int /\ t + k - 1 \in 0 .. Extent(m, b) - 1
      BY <2>3, <2>6
    <3>4. Wrote(m, b, t, ws, J \cup {k}, PokeBit(x, At(b, t + k - 1), ws[k]))
      BY <3>1, <3>2, <3>3, OneMoreWrote
    <3> QED BY <3>4 DEF J, ws, x
  <2>9. e[k].to = At(b, t + k)
    <3>1. t + k - 1 \in Int /\ (t + k - 1) + 1 = t + k
      BY <2>3
    <3> QED BY <3>1, <2>5, <2>6, BumpsAt
  <2>10. Right(k)
    BY <2>5, <2>6, <2>7, <2>8, <2>9 DEF Right
  <2> QED BY <2>10, <2>3
<1>5. Right(n)
  <2>1. n \in 0 .. n
    BY <1>1
  <2> QED BY <2>1, <1>4
<1> QED BY <1>2, <1>5 DEF n, Right

LEMMA RoundsIs == ASSUME NEW n \in Nat PROVE Rounds(n) = n
BY DEF Rounds

CopyLeaves(m, b, c, f, l, t, n) ==
    LET u == BitCopy(m, At(b, f), At(b, l), At(c, t))
    IN  Wrote(m, c, t, Seen(m, b, f, n), 1 .. n, u.m) /\ u.to = At(c, t + n)

(* A copy upwards, to another buffer or to lower places, leaves what was   *)
(* there before it.                                                        *)
LEMMA CopiesAt ==
    ASSUME NEW m \in Memories, NEW b \in Bufs, NEW c \in Bufs, NEW f \in Nat, NEW l \in Nat, NEW t \in Nat, NEW n \in Nat,
           f + n = l, t + n <= Extent(m, c), b # c \/ t <= f
    PROVE  CopyLeaves(m, b, c, f, l, t, n)
<1> DEFINE ws == Seen(m, b, f, n)
<1>1. Extent(m, c) \in Nat /\ \A k \in 1 .. n : ws[k] = View(m, b, f + k - 1) /\ ws[k] \in Int
  BY SeenIs, ExtentIs
<1> HIDE DEF ws
<1>2. Rounds(Diff(At(b, l), At(b, f))) = n
  <2>1. Diff(At(b, l), At(b, f)) = l - f /\ l - f = n
    BY DiffAt
  <2> QED BY <2>1, RoundsIs
<1>3. PICK e : /\ Loops("copy", <<>>, [m |-> m, from |-> At(b, f), to |-> At(c, t)], n, e)
               /\ BitCopy(m, At(b, f), At(b, l), At(c, t)) = e[n]
  BY <1>2, CopyLoops
<1> DEFINE Right(k) == Wrote(m, c, t, ws, 1 .. k, e[k].m) /\ e[k].to = At(c, t + k) /\ e[k].from = At(b, f + k)
           T == {k \in 0 .. n : ~Right(k)}
<1> HIDE DEF Right
<1>4. T = {}
  <2> SUFFICES ASSUME T # {} PROVE FALSE
    OBVIOUS
  <2>1. PICK k \in T : \A y \in T : k <= y
    <3>1. T \in SUBSET Nat
      OBVIOUS
    <3> QED BY <3>1, LeastNumber
  <2>2. k # 0
    <3>1. 1 .. 0 = {} /\ e[0].m = m /\ e[0].to = At(c, t) /\ e[0].from = At(b, f) /\ t + 0 = t /\ f + 0 = f
      BY <1>3 DEF Loops
    <3> QED BY <3>1, NothingWrote DEF Right
  <2>3. k - 1 \in 0 .. n /\ k \in 1 .. n /\ k \in Int /\ ~Right(k) /\ Right(k - 1)
    <3>1. k - 1 \in 0 .. n /\ ~(k <= k - 1)
      BY <2>1, <2>2
    <3>2. k - 1 \notin T /\ k \in 1 .. n
      BY <3>1, <2>1
    <3> QED BY <3>1, <3>2, <2>1
  <2> HIDE DEF T
  <2>4. /\ Wrote(m, c, t, ws, 1 .. k - 1, e[k - 1].m)
        /\ e[k - 1].to = At(c, t + (k - 1)) /\ e[k - 1].from = At(b, f + (k - 1))
    BY <2>3 DEF Right
  <2>5. /\ e[k].m = PokeBit(e[k - 1].m, e[k - 1].to, Bit(e[k - 1].m, e[k - 1].from))
        /\ e[k].to = BumpUp(e[k - 1].to) /\ e[k].from = BumpUp(e[k - 1].from)
    <3>1. e[k] = CopyRound(e[k - 1])
      BY <1>3, <2>3 DEF Loops, RoundOf
    <3> QED BY <3>1 DEF CopyRound
  <2>6. /\ e[k - 1].to = At(c, t + k - 1) /\ t + k - 1 \in 0 .. Extent(m, c) - 1
        /\ e[k - 1].from = At(b, f + k - 1) /\ f + k - 1 \in Int /\ t + k - 1 \in Int
    <3>1. t + (k - 1) = t + k - 1 /\ f + (k - 1) = f + k - 1
      BY <2>3
    <3> QED BY <3>1, <2>3, <2>4, <1>1
  <2>7. 1 .. k = (1 .. k - 1) \cup {k} /\ 1 .. k - 1 \in SUBSET Int
    BY <2>3
  <2>a. Bit(e[k - 1].m, e[k - 1].from) = ws[k] /\ ws[k] \in Int
    <3>1. ~(b = c /\ (f + k - 1) - t + 1 \in 1 .. k - 1)
      BY <2>3
    <3>2. View(e[k - 1].m, b, f + k - 1) = View(m, b, f + k - 1)
      BY <3>1, <2>4, <2>6 DEF Wrote
    <3> QED BY <3>2, <2>3, <2>6, <1>1 DEF View
  <2>8. Wrote(m, c, t, ws, (1 .. k - 1) \cup {k}, PokeBit(e[k - 1].m, At(c, t + k - 1), ws[k]))
    <3> DEFINE J == 1 .. k - 1
    <3>1. Wrote(m, c, t, ws, J, e[k - 1].m) /\ J \in SUBSET Int
      BY <2>4, <2>7
    <3> HIDE DEF J
    <3>2. Wrote(m, c, t, ws, J \cup {k}, PokeBit(e[k - 1].m, At(c, t + k - 1), ws[k]))
      BY <3>1, <2>3, <2>6, <2>a, OneMoreWrote
    <3> QED BY <3>2 DEF J
  <2>9. e[k].to = At(c, t + k) /\ e[k].from = At(b, f + k)
    <3>1. (t + k - 1) + 1 = t + k /\ (f + k - 1) + 1 = f + k
      BY <2>3
    <3> QED BY <3>1, <2>5, <2>6, BumpsAt
  <2>10. Right(k)
    BY <2>5, <2>6, <2>7, <2>8, <2>9, <2>a DEF Right
  <2> QED BY <2>10, <2>3
<1>5. Right(n)
  <2>1. n \in 0 .. n
    OBVIOUS
  <2> QED BY <2>1, <1>4
<1> QED BY <1>3, <1>5 DEF ws, Right, CopyLeaves

(* A copy downwards, to higher places, does, too.                          *)
LEMMA CopiesBackAt ==
    ASSUME NEW m \in Memories, NEW b \in Bufs, NEW f \in Nat, NEW l \in Nat, NEW t \in Nat, NEW u \in Nat, NEW n \in Nat,
           f + n = l, t + n = u, u <= Extent(m, b), f <= t
    PROVE  Wrote(m, b, t, Seen(m, b, f, n), 1 .. n, BitCopyBackward(m, At(b, f), At(b, l), At(b, u)))
<1> DEFINE ws == Seen(m, b, f, n)
<1>1. Extent(m, b) \in Nat /\ \A k \in 1 .. n : ws[k] = View(m, b, f + k - 1) /\ ws[k] \in Int
  BY SeenIs, ExtentIs
<1> HIDE DEF ws
<1>2. Rounds(Diff(At(b, l), At(b, f))) = n
  <2>1. Diff(At(b, l), At(b, f)) = l - f /\ l - f = n
    BY DiffAt
  <2> QED BY <2>1, RoundsIs
<1>3. PICK e : /\ Loops("back", <<>>, [m |-> m, from |-> At(b, l), to |-> At(b, u)], n, e)
               /\ BitCopyBackward(m, At(b, f), At(b, l), At(b, u)) = e[n].m
  BY <1>2, BackLoops
<1> DEFINE Ending(k) == n - k + 1 .. n
           Right(k) == Wrote(m, b, t, ws, Ending(k), e[k].m) /\ e[k].to = At(b, u - k) /\ e[k].from = At(b, l - k)
           T == {k \in 0 .. n : ~Right(k)}
<1> HIDE DEF Right
<1>4. T = {}
  <2> SUFFICES ASSUME T # {} PROVE FALSE
    OBVIOUS
  <2>1. PICK k \in T : \A y \in T : k <= y
    <3>1. T \in SUBSET Nat
      OBVIOUS
    <3> QED BY <3>1, LeastNumber
  <2>2. k # 0
    <3>1. Ending(0) = {} /\ e[0].m = m /\ e[0].to = At(b, u) /\ e[0].from = At(b, l) /\ u - 0 = u /\ l - 0 = l
      BY <1>3 DEF Loops
    <3> QED BY <3>1, NothingWrote DEF Right
  <2>3. k - 1 \in 0 .. n /\ k \in 1 .. n /\ k \in Int /\ ~Right(k) /\ Right(k - 1)
    <3>1. k - 1 \in 0 .. n /\ ~(k <= k - 1)
      BY <2>1, <2>2
    <3>2. k - 1 \notin T /\ k \in 1 .. n
      BY <3>1, <2>1
    <3> QED BY <3>1, <3>2, <2>1
  <2> HIDE DEF T
  <2>4. /\ Wrote(m, b, t, ws, Ending(k - 1), e[k - 1].m)
        /\ e[k - 1].to = At(b, u - (k - 1)) /\ e[k - 1].from = At(b, l - (k - 1))
    BY <2>3 DEF Right
  <2> DEFINE j == n - k + 1
  <2>j. j \in 1 .. n /\ j \in Int /\ t + j - 1 = u - k /\ f + j - 1 = l - k /\ u - k \in Int /\ l - k \in Int
    BY <2>3
  <2>5. /\ e[k].to = BumpDown(e[k - 1].to) /\ e[k].from = BumpDown(e[k - 1].from)
        /\ e[k].m = PokeBit(e[k - 1].m, e[k].to, Bit(e[k - 1].m, e[k].from))
    <3>1. e[k] = BackRound(e[k - 1])
      BY <1>3, <2>3 DEF Loops, RoundOf
    <3> QED BY <3>1 DEF BackRound
  <2>6. e[k].to = At(b, t + j - 1) /\ e[k].from = At(b, f + j - 1)
    <3>1. (u - (k - 1)) - 1 = u - k /\ (l - (k - 1)) - 1 = l - k /\ u - (k - 1) \in Int /\ l - (k - 1) \in Int
      BY <2>3
    <3>2. e[k].to = At(b, u - k) /\ e[k].from = At(b, l - k)
      BY <3>1, <2>4, <2>5, BumpsAt
    <3> QED BY <3>2, <2>j
  <2>7. Ending(k) = Ending(k - 1) \cup {j} /\ Ending(k - 1) \in SUBSET Int
    BY <2>3
  <2>s. t + j - 1 \in 0 .. Extent(m, b) - 1 /\ f + j - 1 \in Int
    BY <2>j, <1>1
  <2>o. (f + j - 1) - t + 1 \notin Ending(k - 1)
    BY <2>3
  <2> HIDE DEF j, Ending
  <2>a. Bit(e[k - 1].m, e[k].from) = ws[j] /\ ws[j] \in Int
    <3>1. View(e[k - 1].m, b, f + j - 1) = View(m, b, f + j - 1)
      BY <2>4, <2>o, <2>s DEF Wrote
    <3> QED BY <3>1, <2>j, <2>6, <1>1 DEF View
  <2>8. Wrote(m, b, t, ws, Ending(k - 1) \cup {j}, PokeBit(e[k - 1].m, At(b, t + j - 1), ws[j]))
    BY <2>j, <2>s, <2>4, <2>7, <2>a, OneMoreWrote
  <2>10. Right(k)
    BY <2>5, <2>6, <2>7, <2>8, <2>a, <2>j DEF Right
  <2> QED BY <2>10, <2>3
<1>5. Right(n)
  <2>1. n \in 0 .. n
    OBVIOUS
  <2> QED BY <2>1, <1>4
<1>6. Ending(n) = 1 .. n
  OBVIOUS
<1> HIDE DEF Ending
<1> QED BY <1>3, <1>5, <1>6 DEF ws, Right

-----------------------------------------------------------------------------
(* Bitmaps that show given bits.                                           *)

Bitmaps == [words : Seq(Word), f : Int \X Int, ok : BOOLEAN]
BitRoom(d) == WordBits * Len(d.words)

Shows(d, vs) ==
    /\ d \in Bitmaps /\ d.ok /\ Finish(d) = At("old", Len(vs)) /\ Len(vs) <= BitRoom(d)
    /\ \A i \in 1 .. Len(vs) : View(Memory(d, 0), "old", i - 1) = vs[i]

LEMMA AllocIs ==
    ASSUME NEW n \in Nat
    PROVE  /\ BitAlloc(n) \in Seq(Word) /\ Len(BitAlloc(n)) \in Nat
           /\ Len(BitAlloc(n)) = (n + WordBits - 1) \div WordBits /\ n <= WordBits * Len(BitAlloc(n))
           /\ \A p \in 1 .. Len(BitAlloc(n)) : BitAlloc(n)[p] = [o \in 1 .. WordBits |-> Blank]
<1> DEFINE q == (n + WordBits - 1) \div WordBits
           s == BitAlloc(n)
           z == [o \in 1 .. WordBits |-> Blank]
<1>1. WordBits \in Nat \ {0} /\ n + WordBits - 1 \in Int
  BY BitmapAssumption
<1>2. q \in Nat /\ n <= WordBits * q
  <2> DEFINE k == n + WordBits - 1
             r == k % WordBits
  <2>1. q \in Int /\ r \in 0 .. WordBits - 1 /\ k = WordBits * q + r
    BY <1>1, PlaceOf
  <2>2. k \in Nat /\ n = k - WordBits + 1
    BY <1>1
  <2> HIDE DEF q, r, k
  <2>3. WordBits * q \in Int
    BY <2>1, <1>1
  <2>4. n <= WordBits * q
    BY <2>1, <2>2, <2>3, <1>1
  <2>5. q >= 0
    <3> SUFFICES ASSUME q < 0 PROVE FALSE
      BY <2>1
    <3>1. WordBits * q + WordBits <= WordBits * 0 /\ WordBits * 0 = 0
      BY <2>1, WordsApart, WordsAdd
    <3> QED BY <3>1, <2>3, <2>4, <1>1
  <2> QED BY <2>1, <2>4, <2>5
<1>3. z \in Word
  BY DEF Word, Blank
<1>4. DOMAIN s = 1 .. q /\ (\A p \in 1 .. q : s[p] = z) /\ s = [p \in 1 .. q |-> s[p]]
  BY DEF BitAlloc
<1> HIDE DEF s, z, q
<1>5. s \in Seq(Word) /\ Len(s) = q
  BY <1>2, <1>3, <1>4, FunctionSeq
<1> QED BY <1>2, <1>4, <1>5 DEF s, z, q

LEMMA MemoryIs ==
    ASSUME NEW d \in Bitmaps, NEW n \in Nat
    PROVE  /\ Memory(d, n) \in Memories /\ Half(Memory(d, n), "old") = d.words /\ Memory(d, n).ok = d.ok
           /\ Extent(Memory(d, n), "old") = BitRoom(d) /\ BitRoom(d) \in Nat
           /\ n <= Extent(Memory(d, n), "new") /\ Extent(Memory(d, n), "new") \in Nat
<1> DEFINE m == Memory(d, n)
<1>1. BitAlloc(n) \in Seq(Word) /\ Len(BitAlloc(n)) \in Nat /\ n <= WordBits * Len(BitAlloc(n))
  BY AllocIs
<1>2. m = [old |-> d.words, new |-> BitAlloc(n), ok |-> d.ok]
  BY DEF Memory
<1> HIDE DEF m
<1>3. m \in Memories /\ Half(m, "old") = d.words /\ Half(m, "new") = BitAlloc(n) /\ m.ok = d.ok
  BY <1>1, <1>2 DEF Memories, Bitmaps, Half
<1>4. Extent(m, "old") = BitRoom(d) /\ Extent(m, "new") = WordBits * Len(BitAlloc(n))
  BY <1>3 DEF Extent, BitRoom
<1>5. Extent(m, "old") \in Nat /\ Extent(m, "new") \in Nat
  BY <1>3, ExtentIs DEF Bufs
<1> QED BY <1>1, <1>3, <1>4, <1>5 DEF m

LEMMA SameBits ==
    ASSUME NEW m, NEW e, NEW b \in Bufs, NEW c \in Bufs, NEW k \in Int, Half(m, b) = Half(e, c)
    PROVE  View(m, b, k) = View(e, c, k)
<1>1. At(b, k).p = At(c, k).p /\ At(b, k).o = At(c, k).o /\ At(b, k).buf = b /\ At(c, k).buf = c
  BY DEF At, It
<1>2. Words(m, At(b, k)) = Half(m, b) /\ Words(e, At(c, k)) = Half(e, c)
  BY <1>1 DEF Words, Half
<1> QED BY <1>1, <1>2 DEF View, Bit, InWords

LEMMA StartIs == ASSUME NEW d PROVE Start(d) = At("old", 0)
<1>1. WordBits * 0 + 0 = 0 /\ 0 \in 0 .. WordBits - 1 /\ "old" \in Bufs
  BY BitmapAssumption DEF Bufs
<1> QED BY <1>1, IsAt DEF Start

LEMMA ShowsIs ==
    ASSUME NEW d, NEW vs \in Seq(Int), Shows(d, vs)
    PROVE  /\ d \in Bitmaps /\ d.ok /\ Len(vs) \in Nat /\ BitRoom(d) \in Nat /\ Len(vs) <= BitRoom(d)
           /\ Size(d) = Len(vs) /\ Capacity(d) = BitRoom(d)
           /\ AtEnd(d) <=> Len(vs) = BitRoom(d)
           /\ Start(d) = At("old", 0) /\ Finish(d) = At("old", Len(vs))
           /\ \A k \in Int : Pos(d, k) = At("old", k)
<1> DEFINE n == Len(vs)
           l == Len(d.words)
<1>1. d \in Bitmaps /\ d.ok /\ Finish(d) = At("old", n) /\ n <= BitRoom(d) /\ BitRoom(d) = WordBits * l
  BY DEF Shows, BitRoom
<1>2. n \in Nat /\ l \in Nat /\ "old" \in Bufs
  BY <1>1, LenProperties DEF Bitmaps, Bufs
<1> HIDE DEF n, l
<1>3. BitRoom(d) \in Nat
  BY <1>1, MemoryIs
<1>4. Start(d) = At("old", 0)
  BY StartIs
<1>5. Size(d) = n
  <2>1. Diff(At("old", n), At("old", 0)) = n - 0
    BY <1>2, DiffAt
  <2> QED BY <2>1, <1>1, <1>2, <1>4 DEF Size
<1>6. Capacity(d) = BitRoom(d)
  <2>1. WordBits * l + 0 = BitRoom(d) /\ 0 \in 0 .. WordBits - 1
    BY <1>1, <1>3, BitmapAssumption
  <2>2. It("old", l, 0) = At("old", BitRoom(d))
    BY <2>1, <1>2, <1>3, IsAt
  <2>3. Diff(At("old", BitRoom(d)), At("old", 0)) = BitRoom(d) - 0
    BY <1>2, <1>3, DiffAt
  <2>4. Capacity(d) = BitRoom(d) - 0
    BY <2>2, <2>3, <1>4 DEF Capacity, l
  <2> QED BY <2>4, <1>3
<1>7. AtEnd(d) <=> n = BitRoom(d)
  <2> DEFINE p == d.f[1]
             o == d.f[2]
  <2>1. p = At("old", n).p /\ o = At("old", n).o
    BY <1>1 DEF Finish, It
  <2>2. p \in Int /\ o \in 0 .. WordBits - 1 /\ WordBits * p + o = n
    BY <2>1, <1>2, AtIs
  <2>3. AtEnd(d) <=> p = l
    BY DEF AtEnd, l
  <2> HIDE DEF p, o
  <2>4. ASSUME p = l PROVE n = BitRoom(d)
    <3>1. BitRoom(d) + o = n
      BY <2>2, <2>4, <1>1
    <3> QED BY <3>1, <2>2, <1>1, <1>2, <1>3, BitmapAssumption
  <2>5. ASSUME n = BitRoom(d) PROVE p = l
    <3>1. WordBits * p + o = WordBits * l + 0 /\ 0 \in 0 .. WordBits - 1
      BY <2>2, <2>5, <1>1, <1>3, BitmapAssumption
    <3> QED BY <3>1, <2>2, <1>2, PlaceUnique
  <2> QED BY <2>3, <2>4, <2>5
<1>8. \A k \in Int : Pos(d, k) = At("old", k)
  <2> TAKE k \in Int
  <2>1. Advance(At("old", 0), k) = At("old", 0 + k) /\ 0 + k = k
    BY <1>2, AdvanceAt
  <2> QED BY <2>1, <1>4 DEF Pos
<1> QED BY <1>1, <1>2, <1>3, <1>4, <1>5, <1>6, <1>7, <1>8 DEF n

LEMMA ShowsHolds ==
    ASSUME NEW d, NEW vs \in Seq(Int), Shows(d, vs)
    PROVE  HoldsBits(d, vs) /\ BitsOf(d) = vs
<1> DEFINE n == Len(vs)
<1>1. /\ d.ok /\ n \in Nat /\ Size(d) = n /\ Size(d) <= Capacity(d)
      /\ Finish(d) = At("old", n) /\ Start(d) = At("old", 0) /\ "old" \in Bufs
  BY ShowsIs DEF Bufs
<1>2. d.f[2] \in 0 .. WordBits - 1
  <2>1. d.f[2] = At("old", n).o
    BY <1>1 DEF Finish, It
  <2> QED BY <2>1, <1>1, AtIs
<1>3. BitsOf(d) = vs
  <2>1. ASSUME NEW k \in 1 .. n PROVE Bit(Memory(d, 0), Advance(Start(d), k - 1)) = vs[k]
    <3>1. k - 1 \in Int /\ 0 + (k - 1) = k - 1
      OBVIOUS
    <3>2. Advance(At("old", 0), k - 1) = At("old", k - 1)
      BY <3>1, <1>1, AdvanceAt
    <3>3. View(Memory(d, 0), "old", k - 1) = vs[k]
      BY DEF Shows
    <3> QED BY <3>2, <3>3, <1>1 DEF View
  <2>2. vs = [k \in 1 .. n |-> vs[k]]
    BY SeqEqual, LenProperties
  <2>3. BitsOf(d) = [k \in 1 .. n |-> vs[k]]
    BY <2>1, <1>1 DEF BitsOf
  <2> QED BY <2>2, <2>3
<1> QED BY <1>1, <1>2, <1>3 DEF HoldsBits

(* A call that has put its bits in a buffer.                               *)
LEMMA BufferShows ==
    ASSUME NEW e \in Memories, NEW b \in Bufs, e.ok, NEW vs \in Seq(Int), Len(vs) <= Extent(e, b),
           \A i \in 1 .. Len(vs) : View(e, b, i - 1) = vs[i]
    PROVE  Shows([words |-> Half(e, b), f |-> <<At(b, Len(vs)).p, At(b, Len(vs)).o>>, ok |-> e.ok], vs)
<1> DEFINE n == Len(vs)
           i0 == At(b, n)
           d == [words |-> Half(e, b), f |-> <<i0.p, i0.o>>, ok |-> e.ok]
<1>1. n \in Nat /\ "old" \in Bufs
  BY LenProperties DEF Bufs
<1>2. i0.p \in Int /\ i0.o \in Int
  BY <1>1, AtIs, BitmapAssumption
<1>3. It("old", i0.p, i0.o) = At("old", n)
  BY DEF At, It
<1> HIDE DEF i0
<1>4. Half(e, b) \in Seq(Word) /\ Extent(e, b) = WordBits * Len(Half(e, b)) /\ e.ok \in BOOLEAN
  BY ExtentIs DEF Extent
<1>5. d \in Bitmaps /\ d.words = Half(e, b) /\ d.ok = e.ok /\ d.f[1] = i0.p /\ d.f[2] = i0.o
  BY <1>2, <1>4 DEF Bitmaps
<1> HIDE DEF d
<1>6. Half(Memory(d, 0), "old") = Half(e, b)
  BY <1>5, MemoryIs
<1>7. ASSUME NEW i \in 1 .. n PROVE View(Memory(d, 0), "old", i - 1) = vs[i]
  <2>1. View(Memory(d, 0), "old", i - 1) = View(e, b, i - 1)
    BY <1>1, <1>6, SameBits
  <2> QED BY <2>1
<1>8. Shows(d, vs)
  BY <1>3, <1>4, <1>5, <1>7 DEF Shows, Finish, BitRoom
<1> QED BY <1>8 DEF d, i0

LEMMA KeepingShows ==
    ASSUME NEW e \in Memories, e.ok, NEW vs \in Seq(Int), Len(vs) <= Extent(e, "old"),
           \A i \in 1 .. Len(vs) : View(e, "old", i - 1) = vs[i]
    PROVE  Shows(Keeping(e, At("old", Len(vs))), vs)
<1>1. Half(e, "old") = e.old /\ "old" \in Bufs
  BY DEF Half, Bufs
<1> QED BY <1>1, BufferShows DEF Keeping

LEMMA AdoptingShows ==
    ASSUME NEW e \in Memories, e.ok, NEW vs \in Seq(Int), Len(vs) <= Extent(e, "new"),
           \A i \in 1 .. Len(vs) : View(e, "new", i - 1) = vs[i]
    PROVE  Shows(Adopting(e, At("new", Len(vs))), vs)
<1>1. Half(e, "new") = e.new /\ "new" \in Bufs
  BY DEF Half, Bufs
<1> QED BY <1>1, BufferShows DEF Adopting

(* The memory at the start of a call.                                      *)
LEMMA CallStarts ==
    ASSUME NEW d, NEW w \in Seq(Int), Shows(d, w), NEW n \in Nat
    PROVE  /\ Memory(d, n) \in Memories /\ Memory(d, n).ok = TRUE
           /\ Extent(Memory(d, n), "old") = BitRoom(d) /\ n <= Extent(Memory(d, n), "new")
           /\ \A k \in 0 .. Len(w) - 1 : View(Memory(d, n), "old", k) = w[k + 1]
<1>1. d \in Bitmaps /\ d.ok /\ Len(w) \in Nat /\ "old" \in Bufs /\ d.ok \in BOOLEAN
  BY ShowsIs DEF Bufs, Bitmaps
<1>2. Memory(d, n).ok = d.ok
  BY <1>1, MemoryIs
<1>3. ASSUME NEW k \in 0 .. Len(w) - 1 PROVE View(Memory(d, n), "old", k) = w[k + 1]
  <2>1. k + 1 \in 1 .. Len(w) /\ (k + 1) - 1 = k
    BY <1>1
  <2>2. View(Memory(d, 0), "old", k) = w[k + 1]
    BY <2>1 DEF Shows
  <2>3. Half(Memory(d, n), "old") = Half(Memory(d, 0), "old")
    BY <1>1, MemoryIs
  <2> QED BY <2>2, <2>3, <1>1, SameBits
<1>4. Memory(d, n) \in Memories /\ Extent(Memory(d, n), "old") = BitRoom(d) /\ n <= Extent(Memory(d, n), "new")
  BY <1>1, MemoryIs
<1> QED BY <1>1, <1>2, <1>3, <1>4

LEMMA MoveUpShows ==
    ASSUME NEW d, NEW w \in Seq(Int), Shows(d, w), NEW k \in 0 .. Len(w), NEW vs \in Seq(Int),
           Len(w) + Len(vs) <= BitRoom(d), NEW t, Joined(w, k, k, Len(w), vs, t)
    PROVE  Shows(MoveUp(d, At("old", k), vs), t)
<1> DEFINE n == Len(w)
           j == Len(vs)
           m == Memory(d, 0)
           a1 == BitCopyBackward(m, At("old", k), At("old", n), At("old", n + j))
           a2 == Write(a1, At("old", k), vs).m
           S == Seen(m, "old", k, n - k)
<1>1. /\ n \in Nat /\ j \in Nat /\ k \in Nat /\ n - k \in Nat /\ k + j \in Nat /\ n + j \in Nat
      /\ k + (n - k) = n /\ (k + j) + (n - k) = n + j /\ n + j <= BitRoom(d) /\ k + j <= n + j /\ k <= k + j
  BY LenProperties
<1>2. /\ Finish(d) = At("old", n) /\ "old" \in Bufs
      /\ Advance(Finish(d), j) = At("old", n + j)
  BY <1>1, ShowsIs, AdvanceAt DEF Bufs
<1>3. /\ m \in Memories /\ m.ok = TRUE /\ Extent(m, "old") = BitRoom(d)
      /\ \A x \in 0 .. n - 1 : View(m, "old", x) = w[x + 1]
  BY CallStarts
<1>t. t \in Seq(Int) /\ Len(t) = n + j /\ \A i \in 1 .. n + j : t[i] = Element(w, k, k, vs, i)
  BY <1>1 DEF Joined
<1>4. MoveUp(d, At("old", k), vs) = Keeping(a2, At("old", n + j))
  BY <1>2 DEF MoveUp
<1> HIDE DEF m, a1, a2, S
<1>5. Wrote(m, "old", k + j, S, 1 .. n - k, a1)
  <2> DEFINE u == n + j
             z == k + j
             q == n - k
  <2>1. /\ u \in Nat /\ z \in Nat /\ q \in Nat /\ k + q = n /\ z + q = u /\ u <= Extent(m, "old") /\ k <= z
        /\ a1 = BitCopyBackward(m, At("old", k), At("old", n), At("old", u)) /\ S = Seen(m, "old", k, q)
    BY <1>1, <1>3 DEF a1, S
  <2> HIDE DEF u, z, q, n
  <2>2. n \in Nat /\ k \in Nat
    BY <1>1
  <2>3. Wrote(m, "old", z, S, 1 .. q, a1)
    BY <2>1, <2>2, <1>2, <1>3, CopiesBackAt
  <2> QED BY <2>3 DEF z, q
<1>6. a1 \in Memories /\ a1.ok = TRUE /\ Extent(a1, "old") = BitRoom(d)
  BY <1>2, <1>3, <1>5 DEF Wrote, Extent
<1>7. Wrote(a1, "old", k, vs, 1 .. j, a2)
  <2>1. k + j <= Extent(a1, "old")
    <3>1. k + j <= n + j /\ n + j <= Extent(a1, "old") /\ Extent(a1, "old") \in Nat
      BY <1>1, <1>2, <1>6, ExtentIs
    <3> HIDE DEF n, j
    <3> QED BY <3>1, <1>1
  <2> QED BY <1>1, <1>2, <1>6, <2>1, WritesAt DEF a2
<1>8. a2 \in Memories /\ a2.ok = TRUE /\ Extent(a2, "old") = BitRoom(d)
  BY <1>2, <1>6, <1>7 DEF Wrote, Extent
<1>9. ASSUME NEW i \in 1 .. n + j PROVE View(a2, "old", i - 1) = t[i]
  <2>0. i - 1 \in Int
    BY <1>1
  <2>1. View(a2, "old", i - 1) = IF (i - 1) - k + 1 \in 1 .. j THEN vs[(i - 1) - k + 1] ELSE View(a1, "old", i - 1)
    BY <1>2, <2>0, <1>7, WroteSees
  <2>2. View(a1, "old", i - 1) =
          IF (i - 1) - (k + j) + 1 \in 1 .. n - k THEN S[(i - 1) - (k + j) + 1] ELSE View(m, "old", i - 1)
    BY <1>2, <2>0, <1>5, WroteSees
  <2>3. CASE i <= k
    <3>1. i - 1 \in 0 .. n - 1 /\ (i - 1) + 1 = i
      BY <2>3, <1>1
    <3>2. View(a2, "old", i - 1) = View(m, "old", i - 1)
      BY <2>1, <2>2, <2>3, <1>1
    <3> QED BY <2>3, <3>1, <3>2, <1>3, <1>t DEF Element
  <2>4. CASE ~(i <= k) /\ i <= k + j
    <3>1. (i - 1) - k + 1 = i - k /\ i - k \in 1 .. j
      BY <2>4, <1>1
    <3> QED BY <2>1, <2>4, <3>1, <1>t DEF Element
  <2>5. CASE ~(i <= k + j)
    <3> DEFINE x == i - j - k
    <3>1. /\ x \in 1 .. n - k /\ (i - 1) - (k + j) + 1 = x /\ ~((i - 1) - k + 1 \in 1 .. j) /\ ~(i <= k)
          /\ k + x - 1 \in 0 .. n - 1 /\ (k + x - 1) + 1 = i - j + k - k
      BY <2>5, <1>1
    <3> HIDE DEF x
    <3>2. View(a2, "old", i - 1) = S[x]
      BY <2>1, <2>2, <3>1
    <3>3. S[x] = View(m, "old", k + x - 1)
      BY <3>1, <1>1, <1>2, <1>3, SeenIs DEF S
    <3> QED BY <2>5, <3>1, <3>2, <3>3, <1>3, <1>t DEF Element
  <2> QED BY <2>3, <2>4, <2>5
<1>10. Shows(Keeping(a2, At("old", Len(t))), t)
  <2>1. Len(t) <= Extent(a2, "old") /\ \A i \in 1 .. Len(t) : View(a2, "old", i - 1) = t[i]
    BY <1>1, <1>8, <1>9, <1>t
  <2> QED BY <2>1, <1>8, <1>t, KeepingShows
<1> QED BY <1>4, <1>10, <1>t

(* Three loops that put the bits before a place in the fresh buffer, then   *)
(* the new ones, then those behind it.                                     *)
ThreeLoops(w, k, vs, m, f, g, e) ==
    /\ \A y \in 0 .. Len(w) - 1 : View(m, "old", y) = w[y + 1]
    /\ Wrote(m, "new", 0, Seen(m, "old", 0, k), 1 .. k, f)
    /\ Wrote(f, "new", k, vs, 1 .. Len(vs), g)
    /\ Wrote(g, "new", k + Len(vs), Seen(g, "old", k, Len(w) - k), 1 .. Len(w) - k, e)

LEMMA JoinedViews ==
    ASSUME NEW w \in Seq(Int), NEW k \in 0 .. Len(w), NEW vs \in Seq(Int), NEW t,
           Joined(w, k, k, Len(w), vs, t), NEW m \in Memories, NEW f, NEW g \in Memories, NEW e,
           ThreeLoops(w, k, vs, m, f, g, e)
    PROVE  \A i \in 1 .. Len(w) + Len(vs) : View(e, "new", i - 1) = t[i]
<1> SUFFICES ASSUME NEW i \in 1 .. Len(w) + Len(vs) PROVE View(e, "new", i - 1) = t[i]
  OBVIOUS
<1> DEFINE n == Len(w)
           j == Len(vs)
           S == Seen(m, "old", 0, k)
           R == Seen(g, "old", k, n - k)
<1>a. /\ n \in Nat /\ j \in Nat /\ k \in Nat /\ n - k \in Nat /\ k + j \in Nat /\ n + j \in Nat
      /\ k + (n - k) = n /\ (k + j) + (n - k) = n + j /\ k + j <= n + j /\ k <= k + j /\ 0 + k = k
      /\ i \in 1 .. n + j
  BY LenProperties
<1>b. "old" \in Bufs /\ "new" \in Bufs /\ "old" # "new"
  BY DEF Bufs
<1>m. \A y \in 0 .. n - 1 : View(m, "old", y) = w[y + 1]
  BY DEF ThreeLoops
<1>t. t \in Seq(Int) /\ Len(t) = n + j /\ \A y \in 1 .. n + j : t[y] = Element(w, k, k, vs, y)
  BY <1>a DEF Joined
<1>f. Wrote(m, "new", 0, S, 1 .. k, f)
  BY DEF ThreeLoops
<1>g. Wrote(f, "new", k, vs, 1 .. j, g)
  BY DEF ThreeLoops
<1>e. Wrote(g, "new", k + j, R, 1 .. n - k, e)
  BY DEF ThreeLoops
<1> HIDE DEF S, R
<1>0. i - 1 \in Int
  BY <1>a
<1>1. View(g, "new", i - 1) = IF (i - 1) - k + 1 \in 1 .. j THEN vs[(i - 1) - k + 1] ELSE View(f, "new", i - 1)
  BY <1>a, <1>b, <1>0, <1>g, WroteSees
<1>2. View(f, "new", i - 1) = IF (i - 1) - 0 + 1 \in 1 .. k THEN S[(i - 1) - 0 + 1] ELSE View(m, "new", i - 1)
  BY <1>a, <1>b, <1>0, <1>f, WroteSees
<1>3. View(e, "new", i - 1) =
        IF (i - 1) - (k + j) + 1 \in 1 .. n - k THEN R[(i - 1) - (k + j) + 1] ELSE View(g, "new", i - 1)
  BY <1>a, <1>b, <1>0, <1>e, WroteSees
<1>4. CASE i <= k
  <2>1. i - 1 \in 0 .. n - 1 /\ (i - 1) + 1 = i /\ i \in 1 .. k /\ (i - 1) - 0 + 1 = i /\ 0 + i - 1 = i - 1
    BY <1>4, <1>a
  <2>2. View(e, "new", i - 1) = View(g, "new", i - 1)
    BY <1>3, <1>4, <1>a
  <2>3. View(g, "new", i - 1) = View(f, "new", i - 1)
    BY <1>1, <1>4, <1>a
  <2>4. View(f, "new", i - 1) = S[i]
    BY <1>2, <2>1
  <2>5. S[i] = View(m, "old", 0 + i - 1)
    BY <2>1, <1>a, <1>b, <1>m, SeenIs DEF S
  <2>6. t[i] = w[i]
    BY <1>4, <1>t DEF Element
  <2> QED BY <2>1, <2>2, <2>3, <2>4, <2>5, <2>6, <1>m
<1>5. CASE ~(i <= k) /\ i <= k + j
  <2>1. (i - 1) - k + 1 = i - k /\ i - k \in 1 .. j
    BY <1>5, <1>a
  <2>2. View(e, "new", i - 1) = View(g, "new", i - 1)
    BY <1>3, <1>5, <1>a
  <2>3. t[i] = vs[i - k]
    BY <1>5, <1>t DEF Element
  <2> QED BY <1>1, <2>1, <2>2, <2>3
<1>6. CASE ~(i <= k + j)
  <2> DEFINE y == i - j - k
  <2>1. /\ y \in 1 .. n - k /\ (i - 1) - (k + j) + 1 = y /\ ~(i <= k)
        /\ k + y - 1 \in 0 .. n - 1 /\ (k + y - 1) + 1 = i - j + k - k /\ k + y - 1 \in Int
    BY <1>6, <1>a
  <2> HIDE DEF y
  <2>2. View(e, "new", i - 1) = R[y]
    BY <1>3, <2>1
  <2>3. R[y] = View(g, "old", k + y - 1)
    BY <2>1, <1>a, <1>b, SeenIs DEF R
  <2>k. k + y - 1 \in Int
    BY <2>1
  <2>4. View(g, "old", k + y - 1) = View(f, "old", k + y - 1)
    BY <2>k, <1>b, <1>g, WroteElsewhere
  <2>5. View(f, "old", k + y - 1) = View(m, "old", k + y - 1)
    BY <2>k, <1>b, <1>f, WroteElsewhere
  <2>6. t[i] = w[i - j + k - k]
    BY <1>6, <2>1, <1>t DEF Element
  <2>7. View(m, "old", k + y - 1) = w[(k + y - 1) + 1]
    BY <2>1, <1>m
  <2> QED BY <2>1, <2>2, <2>3, <2>4, <2>5, <2>6, <2>7
<1> QED BY <1>4, <1>5, <1>6

LEMMA RegrowShows ==
    ASSUME NEW d, NEW w \in Seq(Int), Shows(d, w), NEW k \in 0 .. Len(w), NEW vs \in Seq(Int),
           NEW len \in Nat, Len(w) + Len(vs) <= len, NEW t, Joined(w, k, k, Len(w), vs, t)
    PROVE  Shows(Regrow(d, At("old", k), vs, len), t)
<1> DEFINE n == Len(w)
           j == Len(vs)
           m == Memory(d, len)
           u == BitCopy(m, At("old", 0), At("old", k), At("new", 0))
           v == Write(u.m, u.to, vs)
           x == BitCopy(v.m, At("old", k), At("old", n), v.to)
           S == Seen(m, "old", 0, k)
           R == Seen(v.m, "old", k, n - k)
<1>1. /\ n \in Nat /\ j \in Nat /\ k \in Nat /\ n - k \in Nat /\ k + j \in Nat /\ n + j \in Nat
      /\ k + (n - k) = n /\ (k + j) + (n - k) = n + j /\ n + j <= len /\ k + j <= n + j /\ k <= k + j /\ 0 + k = k
  BY LenProperties
<1>2. Finish(d) = At("old", n) /\ Start(d) = At("old", 0) /\ "old" \in Bufs /\ "new" \in Bufs /\ "old" # "new"
  BY ShowsIs DEF Bufs
<1>w. It("new", 0, 0) = At("new", 0)
  <2>1. WordBits * 0 + 0 = 0 /\ 0 \in 0 .. WordBits - 1
    BY BitmapAssumption
  <2> QED BY <2>1, <1>2, IsAt
<1>3. /\ m \in Memories /\ m.ok = TRUE /\ len <= Extent(m, "new") /\ Extent(m, "new") \in Nat
      /\ \A y \in 0 .. n - 1 : View(m, "old", y) = w[y + 1]
  <2>1. m \in Memories /\ m.ok = TRUE /\ len <= Extent(m, "new") /\ \A y \in 0 .. n - 1 : View(m, "old", y) = w[y + 1]
    BY CallStarts
  <2> HIDE DEF m
  <2> QED BY <2>1, <1>2, ExtentIs
<1>t. t \in Seq(Int) /\ Len(t) = n + j /\ \A i \in 1 .. n + j : t[i] = Element(w, k, k, vs, i)
  BY <1>1 DEF Joined
<1>4. Regrow(d, At("old", k), vs, len) = Adopting(x.m, x.to)
  BY <1>2, <1>w DEF Regrow
<1> HIDE DEF m, u, v, x, S, R
<1>5. Wrote(m, "new", 0, S, 1 .. k, u.m) /\ u.to = At("new", k)
  <2>1. k <= Extent(m, "new")
    BY <1>1, <1>3
  <2>2. CopyLeaves(m, "old", "new", 0, k, 0, k)
    BY <1>1, <1>2, <1>3, <2>1, CopiesAt
  <2> QED BY <1>1, <2>2 DEF u, S, CopyLeaves
<1>6. u.m \in Memories /\ u.m.ok = TRUE /\ Extent(u.m, "new") = Extent(m, "new")
  BY <1>2, <1>3, <1>5 DEF Wrote, Extent
<1>7. Wrote(u.m, "new", k, vs, 1 .. j, v.m) /\ v.to = At("new", k + j)
  <2>1. k + j <= Extent(u.m, "new")
    BY <1>1, <1>3, <1>6
  <2> QED BY <1>1, <1>2, <1>5, <1>6, <2>1, WritesAt DEF v
<1>8. v.m \in Memories /\ v.m.ok = TRUE /\ Extent(v.m, "new") = Extent(m, "new")
  BY <1>2, <1>6, <1>7 DEF Wrote, Extent
<1>9. Wrote(v.m, "new", k + j, R, 1 .. n - k, x.m) /\ x.to = At("new", n + j)
  <2> DEFINE z == k + j
             q == n - k
  <2>1. /\ z \in Nat /\ q \in Nat /\ k + q = n /\ z + q = n + j /\ z + q <= Extent(v.m, "new")
        /\ x = BitCopy(v.m, At("old", k), At("old", n), At("new", z)) /\ R = Seen(v.m, "old", k, q)
    BY <1>1, <1>3, <1>7, <1>8 DEF x, R
  <2> DEFINE y == v.m
  <2>y. /\ y \in Memories /\ z + q <= Extent(y, "new")
        /\ x = BitCopy(y, At("old", k), At("old", n), At("new", z)) /\ R = Seen(y, "old", k, q)
    BY <2>1, <1>8
  <2> HIDE DEF z, q, n, y
  <2>2. n \in Nat /\ k \in Nat
    BY <1>1
  <2>3. Wrote(y, "new", z, R, 1 .. q, x.m) /\ x.to = At("new", z + q)
    <3>1. CopyLeaves(y, "old", "new", k, n, z, q)
      BY <2>1, <2>2, <2>y, <1>2, CopiesAt
    <3> QED BY <3>1, <2>y DEF CopyLeaves
  <2> QED BY <2>1, <2>3 DEF y, z, q
<1>10. x.m \in Memories /\ x.m.ok = TRUE /\ Extent(x.m, "new") = Extent(m, "new")
  BY <1>2, <1>8, <1>9 DEF Wrote, Extent
<1>11. ASSUME NEW i \in 1 .. n + j PROVE View(x.m, "new", i - 1) = t[i]
  <2> DEFINE f == u.m
             g == v.m
             e == x.m
  <2>1. /\ m \in Memories /\ g \in Memories
        /\ \A y \in 0 .. Len(w) - 1 : View(m, "old", y) = w[y + 1]
    BY <1>3, <1>8
  <2>2. Wrote(m, "new", 0, Seen(m, "old", 0, k), 1 .. k, f)
    BY <1>5 DEF S
  <2>3. Wrote(f, "new", k, vs, 1 .. Len(vs), g)
    BY <1>7
  <2>4. Wrote(g, "new", k + Len(vs), Seen(g, "old", k, Len(w) - k), 1 .. Len(w) - k, e)
    BY <1>9 DEF R
  <2> HIDE DEF f, g, e
  <2>5. View(e, "new", i - 1) = t[i]
    <3>1. ThreeLoops(w, k, vs, m, f, g, e)
      BY <2>1, <2>2, <2>3, <2>4 DEF ThreeLoops
    <3>2. \A y \in 1 .. Len(w) + Len(vs) : View(e, "new", y - 1) = t[y]
      BY <3>1, <2>1, JoinedViews
    <3> QED BY <3>2
  <2> QED BY <2>5 DEF e
<1>12. Shows(Adopting(x.m, At("new", Len(t))), t)
  <2>1. Len(t) = n + j /\ Len(t) <= Extent(x.m, "new")
    BY <1>1, <1>3, <1>10, <1>t
  <2>v. \A i \in 1 .. Len(t) : View(x.m, "new", i - 1) = t[i]
    BY <2>1, <1>11
  <2> QED BY <2>1, <2>v, <1>10, <1>t, AdoptingShows
<1> QED BY <1>4, <1>9, <1>12, <1>t

LEMMA PutLastShows ==
    ASSUME NEW d, NEW w \in Seq(Int), Shows(d, w), Len(w) # BitRoom(d), NEW x \in Int,
           NEW t, Joined(w, Len(w), Len(w), Len(w), <<x>>, t)
    PROVE  Shows(PutLast(d, x), t)
<1> DEFINE n == Len(w)
           m == Memory(d, 0)
           s == <<x>>
           e == PokeBit(m, At("old", n), x)
<1>1. n \in Nat /\ n < BitRoom(d) /\ BitRoom(d) \in Nat /\ Finish(d) = At("old", n) /\ "old" \in Bufs
  BY ShowsIs DEF Bufs
<1>2. m \in Memories /\ m.ok = TRUE /\ Extent(m, "old") = BitRoom(d) /\ \A y \in 0 .. n - 1 : View(m, "old", y) = w[y + 1]
  BY CallStarts
<1>s. s \in Seq(Int) /\ Len(s) = 1 /\ s[1] = x
  BY OneIs
<1>3. PutLast(d, x) = Keeping(e, At("old", n + 1))
  BY <1>1, BumpsAt DEF PutLast
<1> HIDE DEF m
<1>4. Sets(m, "old", n, x, e)
  BY <1>1, <1>2, PokeSets
<1> HIDE DEF e, s
<1>t. t \in Seq(Int) /\ Len(t) = n + 1 /\ \A i \in 1 .. n + 1 : t[i] = Element(w, n, n, s, i)
  <2>1. Joined(w, n, n, n, s, t)
    BY DEF s
  <2> QED BY <2>1, <1>1, <1>s DEF Joined
<1> HIDE DEF n
<1>5. e \in Memories /\ e.ok = TRUE /\ Extent(e, "old") = BitRoom(d)
  BY <1>1, <1>2, <1>4 DEF Sets, Extent
<1>6. ASSUME NEW i \in 1 .. n + 1 PROVE View(e, "old", i - 1) = t[i]
  <2>1. View(e, "old", i - 1) = IF i - 1 = n THEN x ELSE View(m, "old", i - 1)
    BY <1>1, <1>4 DEF Sets
  <2>2. CASE i = n + 1
    <3>1. i - 1 = n /\ ~(i <= n) /\ i <= n + 1 /\ i - n = 1
      BY <2>2, <1>1
    <3> QED BY <2>1, <3>1, <1>s, <1>t DEF Element
  <2>3. CASE i # n + 1
    <3>1. i - 1 # n /\ i <= n /\ i - 1 \in 0 .. n - 1 /\ (i - 1) + 1 = i
      BY <2>3, <1>1
    <3> QED BY <2>1, <3>1, <1>2, <1>t DEF Element
  <2> QED BY <2>2, <2>3
<1>7. Shows(Keeping(e, At("old", Len(t))), t)
  <2>1. Len(t) <= Extent(e, "old") /\ \A i \in 1 .. Len(t) : View(e, "old", i - 1) = t[i]
    BY <1>1, <1>5, <1>6, <1>t
  <2> QED BY <2>1, <1>5, <1>t, KeepingShows
<1> QED BY <1>3, <1>7, <1>t

LEMMA InsertAuxShows ==
    ASSUME NEW d, NEW w \in Seq(Int), Shows(d, w), NEW k \in 0 .. Len(w), NEW x \in Int,
           NEW t, Joined(w, k, k, Len(w), <<x>>, t)
    PROVE  Shows(InsertAux(d, At("old", k), x), t)
<1> DEFINE s == <<x>>
<1>1. /\ Len(w) \in Nat /\ BitRoom(d) \in Nat /\ Len(w) <= BitRoom(d) /\ Size(d) = Len(w)
      /\ AtEnd(d) <=> Len(w) = BitRoom(d)
  BY ShowsIs
<1>s. s \in Seq(Int) /\ Len(s) = 1
  BY OneIs
<1> DEFINE len == IF Size(d) > 0 THEN 2 * Size(d) ELSE WordBits
<1>2. len \in Nat /\ Len(w) + 1 <= len
  BY <1>1, BitmapAssumption
<1>3. InsertAux(d, At("old", k), x) = IF ~AtEnd(d) THEN MoveUp(d, At("old", k), s) ELSE Regrow(d, At("old", k), s, len)
  BY DEF InsertAux
<1>4. Joined(w, k, k, Len(w), s, t)
  OBVIOUS
<1> HIDE DEF s, len
<1>5. ASSUME ~AtEnd(d) PROVE Shows(MoveUp(d, At("old", k), s), t)
  <2>1. Len(w) + Len(s) <= BitRoom(d)
    BY <1>1, <1>s, <1>5
  <2> QED BY <2>1, <1>4, <1>s, MoveUpShows
<1>6. Shows(Regrow(d, At("old", k), s, len), t)
  <2>1. Len(w) + Len(s) <= len
    BY <1>2, <1>s
  <2> QED BY <2>1, <1>2, <1>4, <1>s, RegrowShows
<1> QED BY <1>3, <1>5, <1>6

LEMMA InsertBitShows ==
    ASSUME NEW d, NEW w \in Seq(Int), Shows(d, w), NEW k \in 0 .. Len(w), NEW x \in Int,
           NEW t, Joined(w, k, k, Len(w), <<x>>, t)
    PROVE  Shows(InsertBit(d, At("old", k), x), t)
<1>1. Len(w) \in Nat /\ Finish(d) = At("old", Len(w)) /\ (AtEnd(d) <=> Len(w) = BitRoom(d)) /\ "old" \in Bufs
  BY ShowsIs DEF Bufs
<1>2. At("old", k) = Finish(d) <=> k = Len(w)
  BY <1>1, SameAt
<1>3. Shows(InsertAux(d, At("old", k), x), t)
  BY InsertAuxShows
<1>4. ASSUME ~AtEnd(d), k = Len(w) PROVE Shows(PutLast(d, x), t)
  BY <1>1, <1>4, PutLastShows
<1> QED BY <1>2, <1>3, <1>4 DEF InsertBit

LEMMA PushBitShows ==
    ASSUME NEW d, NEW w \in Seq(Int), Shows(d, w), NEW x \in Int,
           NEW t, Joined(w, Len(w), Len(w), Len(w), <<x>>, t)
    PROVE  Shows(PushBit(d, x), t)
<1>1. Len(w) \in 0 .. Len(w) /\ Finish(d) = At("old", Len(w)) /\ (AtEnd(d) <=> Len(w) = BitRoom(d))
  BY ShowsIs
<1>2. Shows(InsertAux(d, At("old", Len(w)), x), t)
  BY <1>1, InsertAuxShows
<1>3. ~AtEnd(d) => Shows(PutLast(d, x), t)
  BY <1>1, PutLastShows
<1> QED BY <1>1, <1>2, <1>3 DEF PushBit

(* Nothing put between the bits leaves them.                               *)
LEMMA NothingJoins ==
    ASSUME NEW w \in Seq(Int), NEW k \in 0 .. Len(w), NEW vs \in Seq(Int), Len(vs) = 0,
           NEW t, Joined(w, k, k, Len(w), vs, t)
    PROVE  t = w
<1>1. t \in Seq(Int) /\ Len(t) = Len(w) /\ Len(w) \in Nat
  BY LenProperties DEF Joined
<1>2. ASSUME NEW i \in 1 .. Len(w) PROVE t[i] = w[i]
  <2>1. t[i] = Element(w, k, k, vs, i)
    BY <1>1 DEF Joined
  <2>2. Element(w, k, k, vs, i) = w[i]
    <3>1. i - 0 + k - k = i /\ (i <= k \/ ~(i <= k + 0))
      BY <1>1
    <3> QED BY <3>1 DEF Element
  <2> QED BY <2>1, <2>2
<1> QED BY <1>1, <1>2, SeqEqual

LEMMA InsertBitsShows ==
    ASSUME NEW d, NEW w \in Seq(Int), Shows(d, w), NEW k \in 0 .. Len(w), NEW vs \in Seq(Int),
           NEW t, Joined(w, k, k, Len(w), vs, t)
    PROVE  Shows(InsertBits(d, At("old", k), vs), t)
<1> DEFINE n == Len(vs)
           len == Size(d) + (IF Size(d) > n THEN Size(d) ELSE n)
<1>1. /\ Len(w) \in Nat /\ n \in Nat /\ BitRoom(d) \in Nat /\ Len(w) <= BitRoom(d)
      /\ Size(d) = Len(w) /\ Capacity(d) = BitRoom(d)
  BY ShowsIs, LenProperties
<1>2. len \in Nat /\ Len(w) + n <= len
  BY <1>1
<1>3. InsertBits(d, At("old", k), vs) =
        IF n = 0 THEN d
        ELSE IF Capacity(d) - Size(d) >= n THEN MoveUp(d, At("old", k), vs) ELSE Regrow(d, At("old", k), vs, len)
  BY DEF InsertBits
<1> HIDE DEF len
<1>4. n = 0 => t = w
  BY NothingJoins
<1>5. ASSUME Capacity(d) - Size(d) >= n PROVE Shows(MoveUp(d, At("old", k), vs), t)
  <2>1. Len(w) + n <= BitRoom(d)
    BY <1>1, <1>5
  <2> QED BY <2>1, MoveUpShows
<1>6. Shows(Regrow(d, At("old", k), vs, len), t)
  BY <1>2, RegrowShows
<1> QED BY <1>3, <1>4, <1>5, <1>6

-----------------------------------------------------------------------------
(* Erasing.                                                                *)

(* The bits from k on have been moved to j.                                *)
LEMMA ErasedShows ==
    ASSUME NEW d, NEW w \in Seq(Int), Shows(d, w), NEW k \in 0 .. Len(w), NEW j \in 0 .. k, NEW e,
           Wrote(Memory(d, 0), "old", j, Seen(Memory(d, 0), "old", k, Len(w) - k), 1 .. Len(w) - k, e),
           NEW t, Joined(w, j, k, Len(w), <<>>, t)
    PROVE  Shows(Keeping(e, At("old", j + (Len(w) - k))), t)
<1> DEFINE n == Len(w)
           m == Memory(d, 0)
           q == n - k
           S == Seen(m, "old", k, q)
<1>1. /\ n \in Nat /\ k \in Nat /\ j \in Nat /\ q \in Nat /\ q = n - k /\ j <= k /\ k <= n
      /\ BitRoom(d) \in Nat /\ n <= BitRoom(d) /\ "old" \in Bufs
  BY ShowsIs DEF Bufs
<1>2. /\ m \in Memories /\ m.ok = TRUE /\ Extent(m, "old") = BitRoom(d)
      /\ \A y \in 0 .. n - 1 : View(m, "old", y) = w[y + 1]
  BY CallStarts
<1>3. Wrote(m, "old", j, S, 1 .. q, e)
  OBVIOUS
<1>t. t \in Seq(Int) /\ Len(t) = j + q /\ \A i \in 1 .. j + q : t[i] = Element(w, j, k, <<>>, i)
  <2>1. Joined(w, j, k, n, <<>>, t)
    OBVIOUS
  <2>2. n + 0 - (k - j) = j + q
    BY <1>1
  <2> QED BY <2>1, <2>2, NoneIs DEF Joined
<1>4. \A y \in 1 .. q : S[y] = View(m, "old", k + y - 1)
  BY <1>1, <1>2, SeenIs
<1> HIDE DEF m, q, S, n
<1>5. e \in Memories /\ e.ok = TRUE /\ Extent(e, "old") = BitRoom(d)
  BY <1>1, <1>2, <1>3 DEF Wrote, Extent
<1>6. ASSUME NEW i \in 1 .. j + q PROVE View(e, "old", i - 1) = t[i]
  <2>0. i - 1 \in Int
    BY <1>1
  <2>1. View(e, "old", i - 1) = IF (i - 1) - j + 1 \in 1 .. q THEN S[(i - 1) - j + 1] ELSE View(m, "old", i - 1)
    BY <2>0, <1>1, <1>3, WroteSees
  <2>2. CASE i <= j
    <3>1. i - 1 \in 0 .. n - 1 /\ (i - 1) + 1 = i /\ ~((i - 1) - j + 1 \in 1 .. q)
      BY <2>2, <1>1
    <3>2. t[i] = w[i]
      BY <2>2, <1>t DEF Element
    <3> QED BY <2>1, <3>1, <3>2, <1>2
  <2>3. CASE ~(i <= j)
    <3> DEFINE y == i - j
    <3>1. /\ y \in 1 .. q /\ (i - 1) - j + 1 = y /\ k + y - 1 \in 0 .. n - 1 /\ (k + y - 1) + 1 = i - 0 + k - j
          /\ ~(i <= j + 0)
      BY <2>3, <1>1
    <3> HIDE DEF y
    <3>2. t[i] = w[i - 0 + k - j]
      BY <2>3, <3>1, <1>t, NoneIs DEF Element
    <3>3. View(e, "old", i - 1) = View(m, "old", k + y - 1)
      BY <2>1, <3>1, <1>4
    <3>4. View(m, "old", k + y - 1) = w[(k + y - 1) + 1]
      BY <3>1, <1>2
    <3> QED BY <3>1, <3>2, <3>3, <3>4
  <2> QED BY <2>2, <2>3
<1>7. Shows(Keeping(e, At("old", Len(t))), t)
  <2>1. Len(t) <= Extent(e, "old") /\ \A i \in 1 .. Len(t) : View(e, "old", i - 1) = t[i]
    BY <1>1, <1>5, <1>6, <1>t
  <2> QED BY <2>1, <1>5, <1>t, KeepingShows
<1> QED BY <1>7, <1>t DEF q, n

LEMMA CopiedDown ==
    ASSUME NEW d, NEW w \in Seq(Int), Shows(d, w), NEW k \in 0 .. Len(w), NEW j \in 0 .. k
    PROVE  CopyLeaves(Memory(d, 0), "old", "old", k, Len(w), j, Len(w) - k)
<1> DEFINE n == Len(w)
           m == Memory(d, 0)
           q == n - k
<1>1. /\ n \in Nat /\ k \in Nat /\ j \in Nat /\ q \in Nat /\ k + q = n /\ j <= k
      /\ BitRoom(d) \in Nat /\ j + q <= BitRoom(d) /\ "old" \in Bufs
  BY ShowsIs DEF Bufs
<1>2. m \in Memories /\ Extent(m, "old") = BitRoom(d)
  BY CallStarts
<1> HIDE DEF m, q, n
<1>3. CopyLeaves(m, "old", "old", k, n, j, q)
  BY <1>1, <1>2, CopiesAt
<1> QED BY <1>3 DEF m, q, n

LEMMA EraseBitsShows ==
    ASSUME NEW d, NEW w \in Seq(Int), Shows(d, w), NEW k \in 0 .. Len(w), NEW j \in 0 .. k,
           NEW t, Joined(w, j, k, Len(w), <<>>, t)
    PROVE  Shows(EraseBits(d, At("old", j), At("old", k)), t)
<1> DEFINE u == BitCopy(Memory(d, 0), At("old", k), At("old", Len(w)), At("old", j))
<1>1. EraseBits(d, At("old", j), At("old", k)) = Keeping(u.m, u.to)
  BY ShowsIs DEF EraseBits
<1>2. /\ Wrote(Memory(d, 0), "old", j, Seen(Memory(d, 0), "old", k, Len(w) - k), 1 .. Len(w) - k, u.m)
      /\ u.to = At("old", j + (Len(w) - k))
  BY CopiedDown DEF CopyLeaves
<1> HIDE DEF u
<1> QED BY <1>1, <1>2, ErasedShows

LEMMA EraseBitShows ==
    ASSUME NEW d, NEW w \in Seq(Int), Shows(d, w), NEW j \in 0 .. Len(w), j < Len(w),
           NEW t, Joined(w, j, j + 1, Len(w), <<>>, t)
    PROVE  Shows(EraseBit(d, At("old", j)), t)
<1> DEFINE m == Memory(d, 0)
           k == j + 1
           n == Len(w)
           u == BitCopy(m, At("old", k), At("old", n), At("old", j))
           e == IF At("old", k) # At("old", n) THEN u.m ELSE m
<1>1. n \in Nat /\ k \in 0 .. n /\ j \in 0 .. k /\ Finish(d) = At("old", n) /\ "old" \in Bufs /\ j + (n - k) = n - 1 /\ j \in Nat /\ k \in Nat
  BY ShowsIs DEF Bufs
<1>2. EraseBit(d, At("old", j)) = Keeping(e, At("old", n - 1))
  <2>1. Advance(At("old", j), 1) = At("old", k) /\ BumpDown(At("old", n)) = At("old", n - 1)
    BY <1>1, AdvanceAt, BumpsAt
  <2> QED BY <2>1, <1>1 DEF EraseBit
<1>j. Joined(w, j, k, n, <<>>, t)
  OBVIOUS
<1> HIDE DEF k
<1>3. Wrote(m, "old", j, Seen(m, "old", k, n - k), 1 .. n - k, e)
  <2>1. CASE k # n
    <3>1. At("old", k) # At("old", n)
      BY <2>1, <1>1, SameAt
    <3>2. CopyLeaves(m, "old", "old", k, n, j, n - k)
      BY <1>1, CopiedDown
    <3> QED BY <3>1, <3>2 DEF CopyLeaves
  <2>2. CASE k = n
    <3>1. 1 .. n - k = {} /\ e = m
      BY <2>2, <1>1
    <3>2. m \in Memories
      BY CallStarts
    <3> HIDE DEF m, e
    <3> QED BY <3>1, <3>2, NothingWrote
  <2> QED BY <2>1, <2>2
<1> HIDE DEF e
<1>4. Shows(Keeping(e, At("old", j + (n - k))), t)
  BY <1>1, <1>3, <1>j, ErasedShows
<1> QED BY <1>1, <1>2, <1>4

LEMMA PopBitShows ==
    ASSUME NEW d, NEW w \in Seq(Int), Shows(d, w), Len(w) > 0,
           NEW t, Joined(w, Len(w) - 1, Len(w), Len(w), <<>>, t)
    PROVE  Shows(PopBit(d), t)
<1> DEFINE m == Memory(d, 0)
           n == Len(w)
           j == n - 1
<1>1. n \in Nat /\ n \in 0 .. n /\ j \in 0 .. n /\ j \in Nat /\ Finish(d) = At("old", n) /\ "old" \in Bufs /\ j + (n - n) = n - 1
  BY ShowsIs DEF Bufs
<1>m. m \in Memories
  BY CallStarts
<1>2. PopBit(d) = Keeping(m, At("old", n - 1))
  BY <1>1, BumpsAt DEF PopBit
<1>3. Wrote(m, "old", j, Seen(m, "old", n, n - n), 1 .. n - n, m)
  <2>1. 1 .. n - n = {}
    BY <1>1
  <2> HIDE DEF m
  <2> QED BY <2>1, <1>1, <1>m, NothingWrote
<1>4. Joined(w, j, n, n, <<>>, t)
  OBVIOUS
<1> HIDE DEF j
<1>5. Shows(Keeping(m, At("old", j + (n - n))), t)
  BY <1>1, <1>3, <1>4, ErasedShows
<1> QED BY <1>1, <1>2, <1>5

-----------------------------------------------------------------------------
(* Sizes and whole contents.                                               *)

LEMMA ReserveShows ==
    ASSUME NEW d, NEW w \in Seq(Int), Shows(d, w), NEW n \in Nat
    PROVE  Shows(ReserveBits(d, n), w) /\ Capacity(ReserveBits(d, n)) >= n
<1> DEFINE l == Len(w)
           m == Memory(d, n)
           u == BitCopy(m, At("old", 0), At("old", l), At("new", 0))
           x == Adopting(u.m, At("new", l))
<1>1. /\ l \in Nat /\ l <= BitRoom(d) /\ BitRoom(d) \in Nat /\ Capacity(d) = BitRoom(d)
      /\ Start(d) = At("old", 0) /\ Finish(d) = At("old", l) /\ "old" \in Bufs /\ "new" \in Bufs /\ "old" # "new"
  BY ShowsIs DEF Bufs
<1>2. It("new", 0, 0) = At("new", 0)
  <2>1. WordBits * 0 + 0 = 0 /\ 0 \in 0 .. WordBits - 1
    BY BitmapAssumption
  <2> QED BY <2>1, <1>1, IsAt
<1>3. CASE Capacity(d) < n
  <2>1. m \in Memories /\ m.ok = TRUE /\ n <= Extent(m, "new") /\ \A k \in 0 .. l - 1 : View(m, "old", k) = w[k + 1]
    BY CallStarts
  <2> HIDE DEF m
  <2>2. Extent(m, "new") \in Nat /\ l <= Extent(m, "new")
    BY <2>1, <1>1, <1>3, ExtentIs
  <2> HIDE DEF l
  <2>3. CopyLeaves(m, "old", "new", 0, l, 0, l)
    <3>1. 0 + l = l /\ 0 + l <= Extent(m, "new") /\ 0 \in Nat
      BY <1>1, <2>2
    <3> QED BY <3>1, <1>1, <2>1, CopiesAt
  <2>4. Wrote(m, "new", 0, Seen(m, "old", 0, l), 1 .. l, u.m) /\ u.to = At("new", l)
    <3>1. 0 + l = l
      BY <1>1
    <3> QED BY <3>1, <2>3 DEF CopyLeaves
  <2> DEFINE e == u.m
             S == Seen(m, "old", 0, l)
  <2>5. \A k \in 1 .. l : S[k] = View(m, "old", 0 + k - 1)
    BY <1>1, <2>1, SeenIs
  <2>w. Wrote(m, "new", 0, S, 1 .. l, e)
    BY <2>4
  <2>a. ReserveBits(d, n) = Adopting(e, At("new", l))
    BY <1>1, <1>2, <1>3, <2>4 DEF ReserveBits, m
  <2> HIDE DEF e, S
  <2>6. e \in Memories /\ e.ok = TRUE /\ Extent(e, "new") = Extent(m, "new")
    BY <2>1, <2>w, <1>1 DEF Wrote, Extent
  <2>7. ASSUME NEW i \in 1 .. l PROVE View(e, "new", i - 1) = w[i]
    <3>1. (i - 1) - 0 + 1 = i /\ 0 + i - 1 = i - 1 /\ i - 1 \in 0 .. l - 1 /\ (i - 1) + 1 = i
      BY <1>1
    <3>2. View(e, "new", i - 1) = S[i]
      BY <3>1, <2>w, <1>1 DEF Wrote
    <3> QED BY <3>1, <3>2, <2>1, <2>5
  <2>8. Shows(Adopting(e, At("new", l)), w)
    BY <2>2, <2>6, <2>7, AdoptingShows DEF l
  <2>9. Capacity(Adopting(e, At("new", l))) = Extent(m, "new")
    <3>1. Capacity(Adopting(e, At("new", l))) = BitRoom(Adopting(e, At("new", l)))
      BY <2>8, ShowsIs
    <3>2. BitRoom(Adopting(e, At("new", l))) = Extent(e, "new")
      BY DEF BitRoom, Adopting, Extent, Half
    <3> QED BY <3>1, <3>2, <2>6
  <2> QED BY <2>1, <2>2, <2>8, <2>9, <2>a
<1>4. CASE ~(Capacity(d) < n)
  <2>1. ReserveBits(d, n) = d
    BY <1>4 DEF ReserveBits
  <2> QED BY <2>1, <1>1, <1>4
<1> QED BY <1>3, <1>4

LEMMA SameTimes ==
    ASSUME NEW n \in Nat, NEW x \in Int
    PROVE  /\ [i \in 1 .. n |-> x] \in Seq(Int) /\ Len([i \in 1 .. n |-> x]) = n
           /\ \A i \in 1 .. n : [j \in 1 .. n |-> x][i] = x
BY TimesIs DEF Times

LEMMA ResizeShows ==
    ASSUME NEW d, NEW w \in Seq(Int), Shows(d, w), NEW n \in Nat, NEW x \in Int,
           NEW t \in Seq(Int), Len(t) = n, \A i \in 1 .. n : t[i] = IF i <= Len(w) THEN w[i] ELSE x
    PROVE  Shows(ResizeBits(d, n, x), t)
<1> DEFINE l == Len(w)
           r == n - l
           vs == [i \in 1 .. r |-> x]
<1>1. /\ l \in Nat /\ l \in 0 .. l /\ Size(d) = l /\ Start(d) = At("old", 0) /\ Finish(d) = At("old", l) /\ "old" \in Bufs
  BY ShowsIs DEF Bufs
<1>2. CASE n < l
  <2>1. Joined(w, n, l, l, <<>>, t)
    <3>1. Len(t) = l + Len(<<>>) - (l - n)
      BY <1>1, NoneIs
    <3>2. \A i \in 1 .. Len(t) : t[i] = Element(w, n, l, <<>>, i)
      BY <1>1, <1>2 DEF Element
    <3> QED BY <3>1, <3>2 DEF Joined
  <2>2. Advance(At("old", 0), n) = At("old", n)
    <3>1. 0 + n = n
      OBVIOUS
    <3> QED BY <3>1, <1>1, AdvanceAt
  <2>3. ResizeBits(d, n, x) = EraseBits(d, At("old", n), At("old", l))
    BY <1>1, <1>2, <2>2 DEF ResizeBits
  <2>4. n \in 0 .. l
    BY <1>1, <1>2
  <2> HIDE DEF l
  <2>5. l \in 0 .. Len(w) /\ Joined(w, n, l, Len(w), <<>>, t)
    BY <2>1, <1>1 DEF l
  <2> QED BY <2>3, <2>4, <2>5, EraseBitsShows
<1>3. CASE ~(n < l)
  <2>1. r \in Nat /\ l + r = n
    BY <1>1, <1>3
  <2>2. ResizeBits(d, n, x) = InsertBits(d, At("old", l), vs)
    BY <1>1, <1>3 DEF ResizeBits
  <2> HIDE DEF r
  <2>3. vs \in Seq(Int) /\ Len(vs) = r /\ \A i \in 1 .. r : vs[i] = x
    BY <2>1, SameTimes
  <2> HIDE DEF vs, l
  <2>4. Joined(w, l, l, l, vs, t)
    <3>1. Len(t) = l + Len(vs) - (l - l)
      BY <1>1, <2>1, <2>3
    <3>2. ASSUME NEW i \in 1 .. Len(t) PROVE t[i] = Element(w, l, l, vs, i)
      <4>1. CASE i <= l
        BY <4>1 DEF Element, l
      <4>2. CASE ~(i <= l)
        <5>1. i <= l + Len(vs) /\ i - l \in 1 .. r /\ i \in 1 .. n
          BY <4>2, <1>1, <2>1, <2>3
        <5>2. t[i] = x
          BY <4>2, <5>1 DEF l
        <5> QED BY <4>2, <5>1, <5>2, <2>3 DEF Element
      <4> QED BY <4>1, <4>2
    <3> QED BY <3>1, <3>2 DEF Joined
  <2>5. l \in 0 .. Len(w) /\ Joined(w, l, l, Len(w), vs, t)
    BY <2>4, <1>1 DEF l
  <2> QED BY <2>2, <2>3, <2>5, InsertBitsShows
<1> QED BY <1>2, <1>3

LEMMA InitializeShows ==
    ASSUME NEW n \in Nat
    PROVE  Shows(Initialize(n), [i \in 1 .. n |-> Blank]) /\ n <= BitRoom(Initialize(n))
<1> DEFINE d == Initialize(n)
           f == Advance(It("old", 0, 0), n)
           vs == [i \in 1 .. n |-> Blank]
<1>1. It("old", 0, 0) = At("old", 0) /\ "old" \in Bufs
  <2>1. WordBits * 0 + 0 = 0 /\ 0 \in 0 .. WordBits - 1 /\ "old" \in Bufs
    BY BitmapAssumption DEF Bufs
  <2> QED BY <2>1, IsAt
<1>2. f = At("old", n) /\ f.p \in Int /\ f.o \in Int /\ It("old", f.p, f.o) = At("old", n)
  <2>1. 0 + n = n
    OBVIOUS
  <2>2. f = At("old", n)
    BY <2>1, <1>1, AdvanceAt
  <2>3. At("old", n).p \in Int /\ At("old", n).o \in Int
    BY <1>1, AtIs, BitmapAssumption
  <2> QED BY <2>2, <2>3 DEF At, It
<1>3. /\ BitAlloc(n) \in Seq(Word) /\ n <= WordBits * Len(BitAlloc(n))
      /\ \A p \in 1 .. Len(BitAlloc(n)) : BitAlloc(n)[p] = [o \in 1 .. WordBits |-> Blank]
  BY AllocIs
<1>4. d = [words |-> BitAlloc(n), f |-> <<f.p, f.o>>, ok |-> TRUE]
  BY DEF Initialize
<1> HIDE DEF f, d
<1>5. d \in Bitmaps /\ d.ok /\ Finish(d) = At("old", n) /\ d.words = BitAlloc(n) /\ BitRoom(d) = WordBits * Len(BitAlloc(n))
  BY <1>2, <1>3, <1>4 DEF Bitmaps, Finish, BitRoom
<1>6. vs \in Seq(Int) /\ Len(vs) = n /\ \A i \in 1 .. n : vs[i] = Blank
  BY SameTimes DEF Blank
<1> HIDE DEF vs
<1> DEFINE m == Memory(d, 0)
<1>7. m \in Memories /\ Half(m, "old") = BitAlloc(n) /\ Extent(m, "old") = BitRoom(d) /\ BitRoom(d) \in Nat
  BY <1>5, MemoryIs
<1> HIDE DEF m
<1>8. ASSUME NEW i \in 1 .. n PROVE View(m, "old", i - 1) = vs[i]
  <2>1. i - 1 \in 0 .. Extent(m, "old") - 1 /\ i - 1 \in Int
    BY <1>3, <1>5, <1>7
  <2> DEFINE j == At("old", i - 1)
  <2>2. /\ j.p + 1 \in 1 .. Len(BitAlloc(n)) /\ j.o + 1 \in 1 .. WordBits
        /\ View(m, "old", i - 1) = BitAlloc(n)[j.p + 1][j.o + 1]
    BY <2>1, <1>1, <1>7, ViewIs
  <2> HIDE DEF j
  <2>3. BitAlloc(n)[j.p + 1][j.o + 1] = Blank
    BY <2>2, <1>3
  <2> QED BY <2>2, <2>3, <1>6
<1>9. Shows(d, vs)
  BY <1>3, <1>5, <1>6, <1>8 DEF Shows, m
<1> QED BY <1>3, <1>5, <1>9 DEF d, vs

LEMMA RewriteShows ==
    ASSUME NEW d, NEW w \in Seq(Int), Shows(d, w), NEW vs \in Seq(Int), Len(vs) <= BitRoom(d)
    PROVE  Shows(Keeping(Write(Memory(d, 0), Start(d), vs).m, At("old", Len(vs))), vs)
<1> DEFINE m == Memory(d, 0)
           e == Write(m, At("old", 0), vs).m
           n == Len(vs)
<1>1. n \in Nat /\ BitRoom(d) \in Nat /\ Start(d) = At("old", 0) /\ "old" \in Bufs
  BY ShowsIs, LenProperties DEF Bufs
<1>2. m \in Memories /\ m.ok = TRUE /\ Extent(m, "old") = BitRoom(d)
  BY CallStarts
<1> HIDE DEF m
<1>3. Wrote(m, "old", 0, vs, 1 .. n, e)
  <2>1. 0 \in Nat /\ 0 + Len(vs) <= Extent(m, "old")
    BY <1>1, <1>2
  <2> QED BY <2>1, <1>1, <1>2, WritesAt
<1> HIDE DEF e
<1>4. e \in Memories /\ e.ok = TRUE /\ Extent(e, "old") = BitRoom(d)
  BY <1>1, <1>2, <1>3 DEF Wrote, Extent
<1>5. ASSUME NEW i \in 1 .. n PROVE View(e, "old", i - 1) = vs[i]
  <2>1. i - 1 \in Int /\ (i - 1) - 0 + 1 = i
    OBVIOUS
  <2> QED BY <2>1, <1>1, <1>3 DEF Wrote
<1>6. Shows(Keeping(e, At("old", Len(vs))), vs)
  BY <1>4, <1>5, KeepingShows
<1> QED BY <1>1, <1>6 DEF e, m

LEMMA AssignBitsShows ==
    ASSUME NEW d, NEW w \in Seq(Int), Shows(d, w), NEW vs \in Seq(Int)
    PROVE  Shows(AssignBits(d, vs), vs)
<1> DEFINE e == IF Len(vs) > Capacity(d) THEN Initialize(Len(vs)) ELSE d
           z == [i \in 1 .. Len(vs) |-> Blank]
<1>1. Len(vs) \in Nat /\ BitRoom(d) \in Nat /\ Capacity(d) = BitRoom(d) /\ "old" \in Bufs
  BY ShowsIs, LenProperties DEF Bufs
<1>2. z \in Seq(Int) /\ Shows(Initialize(Len(vs)), z) /\ Len(vs) <= BitRoom(Initialize(Len(vs)))
  BY <1>1, SameTimes, InitializeShows DEF Blank
<1> HIDE DEF z
<1>3. PICK y \in Seq(Int) : Shows(e, y) /\ Len(vs) <= BitRoom(e)
  BY <1>1, <1>2
<1>4. AssignBits(d, vs) = Keeping(Write(Memory(e, 0), Start(e), vs).m, Advance(Start(e), Len(vs)))
  BY DEF AssignBits
<1> HIDE DEF e
<1>5. Advance(Start(e), Len(vs)) = At("old", Len(vs))
  <2>1. 0 + Len(vs) = Len(vs) /\ Start(e) = At("old", 0)
    BY <1>1, <1>3, ShowsIs
  <2> QED BY <2>1, <1>1, AdvanceAt
<1> QED BY <1>3, <1>4, <1>5, RewriteShows

LEMMA BitsFromShows == ASSUME NEW vs \in Seq(Int) PROVE Shows(BitsFrom(vs), vs)
<1> DEFINE d == Initialize(Len(vs))
           z == [i \in 1 .. Len(vs) |-> Blank]
<1>1. Len(vs) \in Nat
  BY LenProperties
<1>2. z \in Seq(Int) /\ Len(z) = Len(vs) /\ Shows(d, z) /\ Len(vs) <= BitRoom(d)
  BY <1>1, SameTimes, InitializeShows DEF Blank
<1>3. BitsFrom(vs) = Keeping(Write(Memory(d, 0), Start(d), vs).m, Finish(d))
  BY DEF BitsFrom
<1> HIDE DEF z, d
<1>4. Finish(d) = At("old", Len(vs))
  BY <1>2, ShowsIs
<1> QED BY <1>2, <1>3, <1>4, RewriteShows

-----------------------------------------------------------------------------
(* The invariant of the bitmap: both of them show their bits, numbered.    *)

Shown(d)  == \E n \in Nat : Shows(d, Counted(n))
BitmapInv == Shown(maps.a) /\ Shown(maps.b) /\ maps = [a |-> maps.a, b |-> maps.b]

LEMMA CountedIs ==
    ASSUME NEW n \in Nat
    PROVE  Counted(n) \in Seq(Int) /\ Len(Counted(n)) = n /\ \A i \in 1 .. n : Counted(n)[i] = i
<1> DEFINE s == Counted(n)
<1>1. DOMAIN s = 1 .. n /\ (\A i \in 1 .. n : s[i] = i) /\ s = [i \in 1 .. n |-> s[i]]
  BY DEF Counted
<1> HIDE DEF s
<1>2. s \in Seq(Int) /\ Len(s) = n
  <2>1. \A i \in 1 .. n : s[i] \in Int
    BY <1>1
  <2> QED BY <1>1, <2>1, FunctionSeq
<1> QED BY <1>1, <1>2 DEF s

LEMMA NumberedShows ==
    ASSUME NEW d, NEW w \in Seq(Int), Shows(d, w)
    PROVE  Shows(NumberedBits(d), Counted(Len(w)))
<1> DEFINE n == Len(w)
           l == Len(d.words)
           Place(k) == IF k <= Size(d) THEN k ELSE Blank
           ws == [p \in 1 .. l |-> [o \in 1 .. WordBits |-> Place((p - 1) * WordBits + o)]]
           e == NumberedBits(d)
           m == Memory(e, 0)
<1>0. WordBits \in Nat \ {0}
  BY BitmapAssumption
<1>1. d \in Bitmaps /\ d.ok /\ n \in Nat /\ n <= BitRoom(d) /\ Size(d) = n /\ Finish(d) = At("old", n) /\ "old" \in Bufs
  BY ShowsIs DEF Bufs
<1>2. l \in Nat /\ BitRoom(d) = WordBits * l /\ BitRoom(d) \in Nat
  BY <1>1, LenProperties, MemoryIs DEF BitRoom, Bitmaps
<1>3. \A p \in 1 .. l, o \in 1 .. WordBits : ws[p][o] = Place((p - 1) * WordBits + o)
  OBVIOUS
<1>4. ws \in Seq(Word) /\ Len(ws) = l
  <2>1. ASSUME NEW p \in 1 .. l PROVE ws[p] \in Word
    <3>1. \A o \in 1 .. WordBits : Place((p - 1) * WordBits + o) \in Int
      <4>1. (p - 1) * WordBits \in Int
        BY <1>0, <1>2
      <4> DEFINE x == (p - 1) * WordBits
      <4> HIDE DEF x
      <4>2. \A o \in 1 .. WordBits : Place(x + o) \in Int
        BY <1>0, <1>1, <4>1 DEF Blank, x
      <4> QED BY <4>2 DEF x
    <3> HIDE DEF Place
    <3> QED BY <3>1 DEF Word
  <2>2. DOMAIN ws = 1 .. l /\ ws = [p \in 1 .. l |-> ws[p]]
    OBVIOUS
  <2> HIDE DEF ws
  <2> QED BY <2>1, <2>2, <1>2, FunctionSeq
<1>5. e = [d EXCEPT !.words = ws]
  BY DEF NumberedBits
<1> HIDE DEF ws, e
<1>6. e \in Bitmaps /\ e.ok /\ Finish(e) = At("old", n) /\ e.words = ws /\ BitRoom(e) = BitRoom(d)
  <2>1. e \in Bitmaps /\ e.ok = d.ok /\ e.f = d.f /\ e.words = ws
    BY <1>1, <1>4, <1>5 DEF Bitmaps
  <2> QED BY <2>1, <1>1, <1>2, <1>4 DEF Finish, BitRoom
<1>7. m \in Memories /\ Half(m, "old") = ws /\ Extent(m, "old") = BitRoom(d)
  BY <1>6, MemoryIs
<1> HIDE DEF m, n, l
<1>8. ASSUME NEW i \in 1 .. n PROVE View(m, "old", i - 1) = i
  <2> DEFINE j == At("old", i - 1)
  <2>1. i - 1 \in 0 .. Extent(m, "old") - 1 /\ i - 1 \in Int
    BY <1>1, <1>2, <1>7
  <2>2. j.p + 1 \in 1 .. l /\ j.o + 1 \in 1 .. WordBits /\ View(m, "old", i - 1) = ws[j.p + 1][j.o + 1]
    BY <2>1, <1>1, <1>4, <1>7, ViewIs
  <2>3. j.p \in Int /\ j.o \in 0 .. WordBits - 1 /\ WordBits * j.p + j.o = i - 1
    BY <2>1, <1>1, AtIs
  <2> HIDE DEF j
  <2>4. ws[j.p + 1][j.o + 1] = Place(((j.p + 1) - 1) * WordBits + (j.o + 1))
    BY <2>2, <1>3
  <2>5. ((j.p + 1) - 1) * WordBits + (j.o + 1) = i
    <3>1. (j.p + 1) - 1 = j.p
      BY <2>3
    <3>2. j.p * WordBits = WordBits * j.p /\ WordBits * j.p \in Int
      BY <2>3, WordsAdd
    <3> DEFINE x == WordBits * j.p
    <3>3. x + j.o = i - 1 /\ x \in Int /\ j.p * WordBits = x /\ j.o \in Int
      BY <2>3, <3>2, <1>0
    <3> HIDE DEF x
    <3>4. x + (j.o + 1) = i
      BY <3>3
    <3> QED BY <3>1, <3>3, <3>4
  <2>6. Place(i) = i
    BY <1>1
  <2> QED BY <2>2, <2>4, <2>5, <2>6
<1> DEFINE c == Counted(n)
<1>9. Len(c) = n /\ \A i \in 1 .. n : c[i] = i
  BY <1>1, CountedIs
<1> HIDE DEF c
<1>10. Shows(e, c)
  <2>1. \A i \in 1 .. Len(c) : View(Memory(e, 0), "old", i - 1) = c[i]
    BY <1>8, <1>9 DEF m
  <2> QED BY <2>1, <1>1, <1>6, <1>9 DEF Shows
<1> QED BY <1>10 DEF c, e, n

LEMMA PutBitsKeeps ==
    ASSUME BitmapInv, NEW d, PutBits(d), NEW w \in Seq(Int), Shows(d, w)
    PROVE  BitmapInv'
<1> DEFINE e == NumberedBits(d)
<1>1. maps' = [a |-> e, b |-> maps.b] /\ maps'.a = e /\ maps'.b = maps.b
  BY DEF PutBits, BitmapInv
<1>2. Shown(e)
  BY NumberedShows, LenProperties DEF Shown
<1> HIDE DEF e
<1>3. Shown(maps.b)
  BY DEF BitmapInv
<1>4. Shown(maps'.a) /\ Shown(maps'.b)
  BY <1>1, <1>2, <1>3
<1>5. maps' = [a |-> maps'.a, b |-> maps'.b]
  BY <1>1
<1> QED BY <1>4, <1>5 DEF BitmapInv, Shown, Shows, Bitmaps, BitRoom, Finish

LEMMA InitBitmapInv == InitBitmap => BitmapInv
<1> SUFFICES ASSUME InitBitmap PROVE BitmapInv
  OBVIOUS
<1>1. "old" \in Bufs /\ WordBits * 0 + 0 = 0 /\ 0 \in 0 .. WordBits - 1 /\ WordBits * 0 = 0
  BY BitmapAssumption DEF Bufs
<1>2. NoBits \in Bitmaps /\ NoBits.ok /\ BitRoom(NoBits) = 0
  <2>1. <<>> \in Seq(Word) /\ Len(<<>>) = 0
    OBVIOUS
  <2> QED BY <2>1, <1>1 DEF NoBits, Bitmaps, BitRoom
<1>3. Finish(NoBits) = At("old", 0)
  <2>1. Finish(NoBits) = It("old", 0, 0)
    BY DEF NoBits, Finish
  <2> QED BY <2>1, <1>1, IsAt
<1>4. Shows(NoBits, Counted(0))
  <2>1. Len(Counted(0)) = 0
    BY CountedIs
  <2> QED BY <2>1, <1>2, <1>3 DEF Shows
<1>5. maps = [a |-> NoBits, b |-> NoBits]
  BY DEF InitBitmap
<1> QED BY <1>4, <1>5 DEF BitmapInv, Shown

LEMMA JoinsLast ==
    ASSUME NEW w \in Seq(Int), NEW x \in Int
    PROVE  Joined(w, Len(w), Len(w), Len(w), <<x>>, Append(w, x))
<1> DEFINE n == Len(w)
           s == <<x>>
           t == Append(w, x)
<1>1. n \in Nat /\ t \in Seq(Int) /\ Len(t) = n + 1 /\ (\A i \in 1 .. n : t[i] = w[i]) /\ t[n + 1] = x
  BY LenProperties, AppendProperties
<1>2. Len(s) = 1 /\ s[1] = x
  BY OneIs
<1> HIDE DEF t, s, n
<1>3. ASSUME NEW i \in 1 .. n + 1 PROVE t[i] = Element(w, n, n, s, i)
  <2>1. CASE i = n + 1
    <3>1. ~(i <= n) /\ i <= n + Len(s) /\ i - n = 1
      BY <2>1, <1>1, <1>2
    <3> QED BY <3>1, <2>1, <1>1, <1>2 DEF Element
  <2>2. CASE i # n + 1
    <3>1. i <= n /\ i \in 1 .. n
      BY <2>2, <1>1
    <3> QED BY <3>1, <1>1 DEF Element
  <2> QED BY <2>1, <2>2
<1>4. Joined(w, n, n, n, s, t)
  BY <1>1, <1>2, <1>3 DEF Joined
<1> QED BY <1>4 DEF t, s, n

LEMMA JoinsInside ==
    ASSUME NEW w \in Seq(Int), NEW k \in 0 .. Len(w), NEW vs \in Seq(Int)
    PROVE  \E t \in Seq(Int) : Joined(w, k, k, Len(w), vs, t) /\ t = SubSeq(w, 1, k) \o vs \o SubSeq(w, k + 1, Len(w))
<1>1. Len(w) \in 0 .. Len(w) /\ k \in 0 .. k
  BY LenProperties
<1>2. Joined(w, k, k, Len(w), vs, SubSeq(w, 1, k) \o vs \o SubSeq(w, k + 1, Len(w)))
  BY <1>1, Joins
<1> QED BY <1>2 DEF Joined

LEMMA JoinsWithout ==
    ASSUME NEW w \in Seq(Int), NEW k \in 0 .. Len(w), NEW j \in 0 .. k
    PROVE  \E t \in Seq(Int) : Joined(w, j, k, Len(w), <<>>, t) /\ t = SubSeq(w, 1, j) \o SubSeq(w, k + 1, Len(w))
<1> DEFINE s == SubSeq(w, 1, j)
<1>1. Len(w) \in 0 .. Len(w)
  BY LenProperties
<1>2. Joined(w, j, k, Len(w), <<>>, s \o <<>> \o SubSeq(w, k + 1, Len(w)))
  BY <1>1, NoneIs, Joins
<1>3. s \in Seq(Int)
  <2>1. \A i \in 1 .. j : w[i] \in Int
    BY <1>1, ElementOfSeq
  <2> QED BY <2>1, SubSeqProperties
<1> HIDE DEF s
<1>4. s \o <<>> = s
  BY <1>3, ConcatEmptySeq
<1>5. Joined(w, j, k, Len(w), <<>>, s \o SubSeq(w, k + 1, Len(w)))
  BY <1>2, <1>4
<1>6. s \o SubSeq(w, k + 1, Len(w)) \in Seq(Int)
  BY <1>5 DEF Joined
<1> QED BY <1>5, <1>6 DEF s

LEMMA MapIs ==
    ASSUME BitmapInv
    PROVE  \E w \in Seq(Int) :
              /\ Shows(map, w) /\ Len(w) = Size(map) /\ BitsOf(map) = w /\ w = Counted(Size(map))
              /\ Size(map) \in Nat /\ BitPlaces = 0 .. Len(w) /\ \A i \in 1 .. Len(w) : w[i] = i
              /\ \A k \in Int : Pos(map, k) = At("old", k)
              /\ Start(map) = At("old", 0) /\ Finish(map) = At("old", Len(w))
<1>1. PICK n \in Nat : Shows(map, Counted(n))
  BY DEF BitmapInv, Shown, map
<1> DEFINE w == Counted(n)
<1>2. w \in Seq(Int) /\ Len(w) = n /\ \A i \in 1 .. n : w[i] = i
  BY CountedIs
<1>3. Shows(map, w)
  BY <1>1
<1>w. w = Counted(n)
  OBVIOUS
<1> HIDE DEF w
<1>4. /\ Size(map) = n /\ (\A k \in Int : Pos(map, k) = At("old", k))
      /\ Start(map) = At("old", 0) /\ Finish(map) = At("old", Len(w))
  BY <1>2, <1>3, ShowsIs
<1>5. BitsOf(map) = w
  BY <1>2, <1>3, ShowsHolds
<1>6. BitPlaces = 0 .. n
  BY <1>4 DEF BitPlaces
<1> QED BY <1>2, <1>3, <1>4, <1>5, <1>6, <1>w

LEMMA BlankIs == Blank \in Int
BY DEF Blank

LEMMA StepBitmapInv == BitmapInv /\ [NextBitmap]_maps => BitmapInv'
<1> SUFFICES ASSUME BitmapInv, [NextBitmap]_maps PROVE BitmapInv'
  OBVIOUS
<1>1. PICK w \in Seq(Int) :
         /\ Shows(map, w) /\ Len(w) = Size(map) /\ BitsOf(map) = w /\ w = Counted(Size(map))
         /\ Size(map) \in Nat /\ BitPlaces = 0 .. Len(w) /\ (\A i \in 1 .. Len(w) : w[i] = i)
         /\ \A k \in Int : Pos(map, k) = At("old", k)
         /\ Start(map) = At("old", 0) /\ Finish(map) = At("old", Len(w))
  BY MapIs
<1>2. WordBits \in Nat \ {0} /\ MaxWords \in Nat /\ MaxBits \in Nat /\ WordBits * MaxWords \in Nat
  BY BitmapAssumption
<1> DEFINE n == Len(w)
<1>3. n \in Nat /\ n \in 0 .. n /\ BitPlaces = 0 .. n
  BY <1>1
<1>4. CASE PushStep
  <2>1. Shows(PushBit(map, Blank), Append(w, Blank)) /\ Append(w, Blank) \in Seq(Int)
    BY <1>1, BlankIs, JoinsLast, PushBitShows, AppendProperties
  <2> QED BY <1>4, <2>1, PutBitsKeeps DEF PushStep
<1>5. CASE PopStep
  <2>1. n > 0 /\ PutBits(PopBit(map)) /\ n - 1 \in 0 .. n
    BY <1>1, <1>3, <1>5 DEF PopStep
  <2>2. PICK t \in Seq(Int) : Joined(w, n - 1, n, n, <<>>, t)
    BY <1>3, <2>1, JoinsWithout
  <2>3. Shows(PopBit(map), t)
    BY <1>1, <2>1, <2>2, PopBitShows
  <2> QED BY <2>1, <2>3, PutBitsKeeps
<1>6. CASE InsertStep
  <2>1. PICK k \in BitPlaces :
           \/ PutBits(InsertBit(map, Pos(map, k), Blank))
           \/ \E m \in 1 .. MaxBits : PutBits(InsertBits(map, Pos(map, k), Blanks(m)))
    BY <1>6 DEF InsertStep
  <2>2. k \in 0 .. n /\ Pos(map, k) = At("old", k)
    BY <1>1, <1>3
  <2>3. CASE PutBits(InsertBit(map, Pos(map, k), Blank))
    <3> DEFINE s == <<Blank>>
    <3>1. s \in Seq(Int)
      BY BlankIs, OneIs
    <3>2. PICK t \in Seq(Int) : Joined(w, k, k, n, s, t)
      BY <2>2, <3>1, JoinsInside
    <3>3. Shows(InsertBit(map, At("old", k), Blank), t)
      BY <1>1, <2>2, <3>2, BlankIs, InsertBitShows
    <3> QED BY <2>2, <2>3, <3>3, PutBitsKeeps
  <2>4. ASSUME NEW m \in 1 .. MaxBits, PutBits(InsertBits(map, Pos(map, k), Blanks(m))) PROVE BitmapInv'
    <3> DEFINE vs == Blanks(m)
    <3>1. vs \in Seq(Int)
      BY <1>2, BlankIs, SameTimes DEF Blanks
    <3>2. PutBits(InsertBits(map, At("old", k), vs))
      BY <2>2, <2>4
    <3> HIDE DEF vs
    <3>3. PICK t \in Seq(Int) : Joined(w, k, k, n, vs, t)
      BY <2>2, <3>1, JoinsInside
    <3>4. Shows(InsertBits(map, At("old", k), vs), t)
      BY <1>1, <2>2, <3>1, <3>3, InsertBitsShows
    <3> QED BY <3>2, <3>4, PutBitsKeeps
  <2> QED BY <2>1, <2>3, <2>4
<1>7. CASE EraseStep
  <2>1. PICK j \in BitPlaces, k \in BitPlaces :
           \/ j <= k /\ PutBits(EraseBits(map, Pos(map, j), Pos(map, k)))
           \/ j < Size(map) /\ PutBits(EraseBit(map, Pos(map, j)))
    BY <1>7 DEF EraseStep
  <2>2. j \in 0 .. n /\ k \in 0 .. n /\ Pos(map, j) = At("old", j) /\ Pos(map, k) = At("old", k)
    BY <1>1, <1>3
  <2>3. CASE j <= k /\ PutBits(EraseBits(map, Pos(map, j), Pos(map, k)))
    <3>1. j \in 0 .. k
      BY <2>2, <2>3
    <3>2. PICK t \in Seq(Int) : Joined(w, j, k, n, <<>>, t)
      BY <2>2, <3>1, JoinsWithout
    <3>3. Shows(EraseBits(map, At("old", j), At("old", k)), t)
      BY <1>1, <2>2, <3>1, <3>2, EraseBitsShows
    <3> QED BY <2>2, <2>3, <3>3, PutBitsKeeps
  <2>4. CASE j < Size(map) /\ PutBits(EraseBit(map, Pos(map, j)))
    <3> DEFINE i == j + 1
    <3>1. j \in 0 .. i /\ i \in 0 .. n /\ j < n
      BY <1>1, <2>2, <2>4
    <3> HIDE DEF i
    <3>2. PICK t \in Seq(Int) : Joined(w, j, i, n, <<>>, t)
      BY <3>1, JoinsWithout
    <3>3. Shows(EraseBit(map, At("old", j)), t)
      BY <1>1, <2>2, <3>1, <3>2, EraseBitShows DEF i
    <3> QED BY <2>2, <2>4, <3>3, PutBitsKeeps
  <2> QED BY <2>1, <2>3, <2>4
<1>8. CASE SizeStep
  <2>1. PICK m \in 0 .. WordBits * MaxWords : PutBits(ResizeBits(map, m, Blank)) \/ PutBits(ReserveBits(map, m))
    BY <1>8 DEF SizeStep
  <2>2. m \in Nat
    BY <1>2
  <2>3. CASE PutBits(ResizeBits(map, m, Blank))
    <3> DEFINE t == [i \in 1 .. m |-> IF i <= n THEN w[i] ELSE Blank]
    <3>1. DOMAIN t = 1 .. m /\ (\A i \in 1 .. m : t[i] = IF i <= n THEN w[i] ELSE Blank) /\ t = [i \in 1 .. m |-> t[i]]
      OBVIOUS
    <3>2. \A i \in 1 .. m : t[i] \in Int
      BY <1>1, <1>3, BlankIs
    <3> HIDE DEF t
    <3>3. t \in Seq(Int) /\ Len(t) = m
      BY <2>2, <3>1, <3>2, FunctionSeq
    <3>4. Shows(ResizeBits(map, m, Blank), t)
      BY <1>1, <2>2, <3>1, <3>3, BlankIs, ResizeShows
    <3> QED BY <2>3, <3>3, <3>4, PutBitsKeeps
  <2>4. CASE PutBits(ReserveBits(map, m))
    <3>1. Shows(ReserveBits(map, m), w)
      BY <1>1, <2>2, ReserveShows
    <3> QED BY <2>4, <3>1, PutBitsKeeps
  <2> QED BY <2>1, <2>3, <2>4
<1>9. CASE ClearStep
  <2>0. 0 \in 0 .. n
    BY <1>3
  <2>1. PICK t \in Seq(Int) : Joined(w, 0, n, n, <<>>, t)
    BY <2>0, <1>3, JoinsWithout
  <2>2. Shows(EraseBits(map, At("old", 0), At("old", n)), t)
    BY <1>1, <1>3, <2>0, <2>1, EraseBitsShows
  <2>3. Shows(ClearBits(map), t)
    BY <1>1, <2>2 DEF ClearBits
  <2> QED BY <1>9, <2>3, PutBitsKeeps DEF ClearStep
<1>10. CASE OtherMap
  <2>1. PICK m \in 0 .. MaxBits : maps' = [maps EXCEPT !.b = BitsFrom(Counted(m))]
    BY <1>10 DEF OtherMap
  <2> DEFINE e == BitsFrom(Counted(m))
  <2>2. m \in Nat
    BY <1>2
  <2>3. Shows(e, Counted(m))
    BY <2>2, CountedIs, BitsFromShows
  <2>4. maps' = [a |-> maps.a, b |-> e] /\ maps'.a = maps.a /\ maps'.b = e
    BY <2>1 DEF BitmapInv
  <2> HIDE DEF e
  <2>5. Shown(e) /\ Shown(maps.a)
    BY <2>2, <2>3 DEF Shown, BitmapInv
  <2>6. Shown(maps'.a) /\ Shown(maps'.b) /\ maps' = [a |-> maps'.a, b |-> maps'.b]
    BY <2>4, <2>5
  <2> QED BY <2>6 DEF BitmapInv, Shown, Shows, Bitmaps, BitRoom, Finish
<1>11. CASE CopyStep
  <2>1. PICK m \in Nat : Shows(maps.b, Counted(m))
    BY DEF BitmapInv, Shown
  <2>2. Counted(m) \in Seq(Int)
    BY CountedIs
  <2>3. BitsOf(maps.b) = Counted(m)
    BY <2>1, <2>2, ShowsHolds
  <2>4. Shows(AssignBits(map, Counted(m)), Counted(m))
    BY <1>1, <2>2, AssignBitsShows
  <2> QED BY <1>11, <2>2, <2>3, <2>4, PutBitsKeeps DEF CopyStep
<1>12. CASE SwapStep
  <2>1. maps' = [a |-> maps.b, b |-> maps.a] /\ maps'.a = maps.b /\ maps'.b = maps.a
    BY <1>12 DEF SwapStep, map
  <2>2. Shown(maps.a) /\ Shown(maps.b)
    BY DEF BitmapInv
  <2>3. Shown(maps'.a) /\ Shown(maps'.b) /\ maps' = [a |-> maps'.a, b |-> maps'.b]
    BY <2>1, <2>2
  <2> QED BY <2>3 DEF BitmapInv, Shown, Shows, Bitmaps, BitRoom, Finish
<1>13. CASE UNCHANGED maps
  BY <1>13 DEF BitmapInv, Shown, Shows, Bitmaps, BitRoom, Finish
<1> QED BY <1>4, <1>5, <1>6, <1>7, <1>8, <1>9, <1>10, <1>11, <1>12, <1>13 DEF NextBitmap

-----------------------------------------------------------------------------
(* Each part of BitmapSound, in a state of the invariant.                  *)

LEMMA AddsAreSound == ASSUME BitmapInv PROVE AddsSound
<1>1. PICK w \in Seq(Int) :
         /\ Shows(map, w) /\ Len(w) = Size(map) /\ BitsOf(map) = w
         /\ Size(map) \in Nat /\ BitPlaces = 0 .. Len(w) /\ \A k \in Int : Pos(map, k) = At("old", k)
  BY MapIs
<1> DEFINE x == NewBit
<1>2. x \in Int
  BY <1>1 DEF NewBit
<1> HIDE DEF x
<1>3. HoldsBits(PushBit(map, x), Append(w, x))
  <2>1. Append(w, x) \in Seq(Int) /\ Shows(PushBit(map, x), Append(w, x))
    BY <1>1, <1>2, JoinsLast, PushBitShows, AppendProperties
  <2> QED BY <2>1, ShowsHolds
<1>4. ASSUME NEW k \in BitPlaces PROVE HoldsBits(InsertBit(map, Pos(map, k), x), WithBits(k, <<x>>))
  <2> DEFINE s == <<x>>
  <2>1. k \in 0 .. Len(w) /\ Pos(map, k) = At("old", k) /\ s \in Seq(Int)
    BY <1>1, <1>2, OneIs
  <2>2. PICK t \in Seq(Int) : Joined(w, k, k, Len(w), s, t) /\ t = SubSeq(w, 1, k) \o s \o SubSeq(w, k + 1, Len(w))
    BY <2>1, JoinsInside
  <2>3. WithBits(k, s) = t
    BY <1>1, <2>2 DEF WithBits
  <2>4. Shows(InsertBit(map, At("old", k), x), t)
    BY <1>1, <1>2, <2>1, <2>2, InsertBitShows
  <2> QED BY <2>1, <2>3, <2>4, ShowsHolds
<1>5. ASSUME NEW k \in BitPlaces, NEW m \in 0 .. MaxBits
      PROVE  HoldsBits(InsertBits(map, Pos(map, k), NewBits(m)), WithBits(k, NewBits(m)))
  <2> DEFINE vs == NewBits(m)
  <2>1. k \in 0 .. Len(w) /\ Pos(map, k) = At("old", k)
    BY <1>1
  <2>2. vs \in Seq(Int)
    <3>1. DOMAIN vs = 1 .. m /\ (\A i \in 1 .. m : vs[i] \in Int) /\ vs = [i \in 1 .. m |-> vs[i]] /\ m \in Nat
      BY <1>1, BitmapAssumption DEF NewBits
    <3> HIDE DEF vs
    <3> QED BY <3>1, FunctionSeq
  <2> HIDE DEF vs
  <2>3. PICK t \in Seq(Int) : Joined(w, k, k, Len(w), vs, t) /\ t = SubSeq(w, 1, k) \o vs \o SubSeq(w, k + 1, Len(w))
    BY <2>1, <2>2, JoinsInside
  <2>4. WithBits(k, vs) = t
    BY <1>1, <2>3 DEF WithBits
  <2>5. Shows(InsertBits(map, At("old", k), vs), t)
    BY <1>1, <2>1, <2>2, <2>3, InsertBitsShows
  <2>6. HoldsBits(InsertBits(map, Pos(map, k), vs), WithBits(k, vs))
    BY <2>1, <2>4, <2>5, ShowsHolds
  <2> QED BY <2>6 DEF vs
<1> QED BY <1>1, <1>3, <1>4, <1>5 DEF AddsSound, x

LEMMA RemovesAreSound == ASSUME BitmapInv PROVE RemovesSound
<1>1. PICK w \in Seq(Int) :
         /\ Shows(map, w) /\ Len(w) = Size(map) /\ BitsOf(map) = w
         /\ Size(map) \in Nat /\ BitPlaces = 0 .. Len(w) /\ (\A k \in Int : Pos(map, k) = At("old", k))
         /\ Start(map) = At("old", 0) /\ Finish(map) = At("old", Len(w))
  BY MapIs
<1> DEFINE n == Len(w)
<1>2. n \in Nat /\ n \in 0 .. n /\ 0 \in 0 .. n /\ Size(map) = n
  BY <1>1
<1>3. ASSUME NEW k \in 0 .. n, NEW j \in 0 .. k PROVE \E t \in Seq(Int) : Joined(w, j, k, n, <<>>, t) /\ t = WithoutBits(j, k)
  BY <1>1, <1>3, JoinsWithout DEF WithoutBits
<1>4. ASSUME NEW k \in 0 .. n, NEW j \in 0 .. k PROVE HoldsBits(EraseBits(map, At("old", j), At("old", k)), WithoutBits(j, k))
  <2>1. PICK t \in Seq(Int) : Joined(w, j, k, n, <<>>, t) /\ t = WithoutBits(j, k)
    BY <1>3
  <2>2. Shows(EraseBits(map, At("old", j), At("old", k)), t)
    BY <1>1, <2>1, EraseBitsShows
  <2> QED BY <2>1, <2>2, ShowsHolds
<1>5. HoldsBits(ClearBits(map), <<>>)
  <2>1. PICK t \in Seq(Int) : Joined(w, 0, n, n, <<>>, t)
    BY <1>2, JoinsWithout
  <2>2. Shows(EraseBits(map, At("old", 0), At("old", n)), t)
    BY <1>1, <1>2, <2>1, EraseBitsShows
  <2>3. t = <<>>
    <3>1. n + 0 - (n - 0) = 0
      BY <1>2
    <3>2. Len(t) = 0
      BY <2>1, <3>1, NoneIs DEF Joined
    <3> QED BY <3>2, EmptySeq
  <2>4. Shows(ClearBits(map), <<>>)
    BY <1>1, <2>2, <2>3 DEF ClearBits
  <2> QED BY <2>4, NoneIs, ShowsHolds
<1>6. ASSUME Size(map) > 0 PROVE HoldsBits(PopBit(map), WithoutBits(Size(map) - 1, Size(map)))
  <2> DEFINE j == n - 1
  <2>1. j \in 0 .. n
    BY <1>2, <1>6
  <2>2. PICK t \in Seq(Int) : Joined(w, j, n, n, <<>>, t) /\ t = WithoutBits(j, n)
    BY <1>2, <1>3, <2>1
  <2>3. Shows(PopBit(map), t)
    BY <1>1, <1>2, <1>6, <2>2, PopBitShows
  <2> QED BY <1>2, <2>2, <2>3, ShowsHolds
<1>7. ASSUME NEW j \in BitPlaces, NEW k \in BitPlaces, j <= k
      PROVE  HoldsBits(EraseBits(map, Pos(map, j), Pos(map, k)), WithoutBits(j, k))
  <2>1. k \in 0 .. n /\ j \in 0 .. k /\ Pos(map, j) = At("old", j) /\ Pos(map, k) = At("old", k)
    BY <1>1, <1>7
  <2> QED BY <1>4, <2>1
<1>8. ASSUME NEW j \in BitPlaces, j < Size(map) PROVE HoldsBits(EraseBit(map, Pos(map, j)), WithoutBits(j, j + 1))
  <2> DEFINE i == j + 1
  <2>1. j \in 0 .. i /\ i \in 0 .. n /\ j < n /\ j \in 0 .. n /\ Pos(map, j) = At("old", j)
    BY <1>1, <1>8
  <2> HIDE DEF i
  <2>2. PICK t \in Seq(Int) : Joined(w, j, i, n, <<>>, t) /\ t = WithoutBits(j, i)
    BY <1>3, <2>1
  <2>3. Shows(EraseBit(map, At("old", j)), t)
    BY <1>1, <2>1, <2>2, EraseBitShows DEF i
  <2>4. HoldsBits(EraseBit(map, Pos(map, j)), WithoutBits(j, i))
    BY <2>1, <2>2, <2>3, ShowsHolds
  <2> QED BY <2>4 DEF i
<1> QED BY <1>5, <1>6, <1>7, <1>8 DEF RemovesSound

LEMMA SizesAreSound == ASSUME BitmapInv PROVE SizesSound
<1>1. PICK w \in Seq(Int) :
         /\ Shows(map, w) /\ Len(w) = Size(map) /\ BitsOf(map) = w /\ Size(map) \in Nat
         /\ \A i \in 1 .. Len(w) : w[i] = i
  BY MapIs
<1> SUFFICES ASSUME NEW m \in 0 .. WordBits * MaxWords
             PROVE  /\ HoldsBits(AssignBits(map, NewBits(m)), NewBits(m))
                    /\ HoldsBits(ReserveBits(map, m), BitsOf(map)) /\ Capacity(ReserveBits(map, m)) >= m
                    /\ HoldsBits(ResizeBits(map, m, NewBit), [i \in 1 .. m |-> IF i <= Size(map) THEN i ELSE NewBit])
  BY DEF SizesSound
<1>2. m \in Nat
  <2>1. WordBits * MaxWords \in Nat
    BY BitmapAssumption
  <2> QED BY <2>1
<1>3. HoldsBits(AssignBits(map, NewBits(m)), NewBits(m))
  <2> DEFINE vs == NewBits(m)
  <2>1. vs \in Seq(Int)
    <3>1. DOMAIN vs = 1 .. m /\ (\A i \in 1 .. m : vs[i] \in Int) /\ vs = [i \in 1 .. m |-> vs[i]]
      BY <1>1 DEF NewBits
    <3> HIDE DEF vs
    <3> QED BY <1>2, <3>1, FunctionSeq
  <2> HIDE DEF vs
  <2>2. HoldsBits(AssignBits(map, vs), vs)
    BY <1>1, <2>1, AssignBitsShows, ShowsHolds
  <2> QED BY <2>2 DEF vs
<1>4. HoldsBits(ReserveBits(map, m), BitsOf(map)) /\ Capacity(ReserveBits(map, m)) >= m
  BY <1>1, <1>2, ReserveShows, ShowsHolds
<1>5. HoldsBits(ResizeBits(map, m, NewBit), [i \in 1 .. m |-> IF i <= Size(map) THEN i ELSE NewBit])
  <2> DEFINE x == NewBit
             t == [i \in 1 .. m |-> IF i <= Size(map) THEN i ELSE x]
  <2>1. x \in Int
    BY <1>1 DEF NewBit
  <2> HIDE DEF x
  <2>2. DOMAIN t = 1 .. m /\ (\A i \in 1 .. m : t[i] = IF i <= Size(map) THEN i ELSE x) /\ t = [i \in 1 .. m |-> t[i]]
    OBVIOUS
  <2> HIDE DEF t
  <2>3. \A i \in 1 .. m : t[i] \in Int
    BY <2>1, <2>2
  <2>4. t \in Seq(Int) /\ Len(t) = m
    BY <1>2, <2>2, <2>3, FunctionSeq
  <2>5. \A i \in 1 .. m : t[i] = IF i <= Len(w) THEN w[i] ELSE x
    BY <1>1, <2>2
  <2>6. Shows(ResizeBits(map, m, x), t)
    BY <1>1, <1>2, <2>1, <2>4, <2>5, ResizeShows
  <2>7. HoldsBits(ResizeBits(map, m, x), t)
    BY <2>4, <2>6, ShowsHolds
  <2> QED BY <2>7 DEF t, x
<1> QED BY <1>3, <1>4, <1>5

LEMMA IteratorsAreSound == ASSUME BitmapInv PROVE IteratorsSound
<1>1. Size(map) \in Nat /\ \A k \in Int : Pos(map, k) = At("old", k)
  BY MapIs
<1>2. "old" \in Bufs
  BY DEF Bufs
<1> SUFFICES ASSUME NEW j \in BitPlaces, NEW k \in BitPlaces
             PROVE  /\ Advance(Pos(map, j), k - j) = Pos(map, k) /\ Diff(Pos(map, k), Pos(map, j)) = k - j
                    /\ k > 0 => BumpDown(Pos(map, k)) = Pos(map, k - 1) /\ BumpUp(Pos(map, k - 1)) = Pos(map, k)
  BY DEF IteratorsSound
<1>3. j \in Int /\ k \in Int /\ j + (k - j) = k /\ (k - 1) + 1 = k /\ k - 1 \in Int /\ k - j \in Int
  BY <1>1 DEF BitPlaces
<1>4. Pos(map, j) = At("old", j) /\ Pos(map, k) = At("old", k) /\ Pos(map, k - 1) = At("old", k - 1)
  BY <1>1, <1>3
<1>5. Advance(At("old", j), k - j) = At("old", k)
  BY <1>2, <1>3, AdvanceAt
<1>6. Diff(At("old", k), At("old", j)) = k - j
  BY <1>2, <1>3, DiffAt
<1>7. BumpDown(At("old", k)) = At("old", k - 1) /\ BumpUp(At("old", k - 1)) = At("old", k)
  BY <1>2, <1>3, BumpsAt
<1> QED BY <1>4, <1>5, <1>6, <1>7

LEMMA BitmapInvSound == BitmapInv => BitmapSound
<1> SUFFICES ASSUME BitmapInv PROVE BitmapSound
  OBVIOUS
<1>1. HoldsBits(map, Counted(Size(map)))
  BY MapIs, ShowsHolds
<1> QED BY <1>1, AddsAreSound, RemovesAreSound, SizesAreSound, IteratorsAreSound DEF BitmapSound

(* Both bitmaps show the bits put into them, in every state, for every     *)
(* width of a word and every bound on the buffers.                         *)
THEOREM BitmapsStayInside == SpecBitmap => []BitmapInv
<1> QED BY InitBitmapInv, StepBitmapInv, PTL DEF SpecBitmap

(* Every call of a bitmap leaves the bits its definition says, over every  *)
(* word boundary, and iterators move as numbers do, for every width of a   *)
(* word and every number of bits.                                          *)
THEOREM BitmapStaysSound == SpecBitmap => []BitmapSound
<1> QED BY InitBitmapInv, StepBitmapInv, BitmapInvSound, PTL DEF SpecBitmap

=============================================================================
