-------------------------- MODULE ComponentProofs --------------------------
(***************************************************************************)
(* That the timers of Timer fire in order and stay silent once erased, and *)
(* that check never erases a node that is gone, when callbacks neither     *)
(* erase their own timer nor call check; and that DbConnection closes      *)
(* every handle once, for any number of objects and handles and any of the *)
(* three back ends. The two do not interact.                               *)
(***************************************************************************)
EXTENDS Timer, DbConnection, WellFoundedInduction, TLAPS

-----------------------------------------------------------------------------
(* Timers.                                                                 *)

(* The bounds are numbers, and callbacks are plain.                        *)
Plain ==
    /\ MaxTimers \in Nat /\ MaxTime \in Nat /\ Delays \subseteq Nat
    /\ InCallback \subseteq {"add", "erase"}

Typed ==
    /\ now \in Nat /\ lastId \in Nat
    /\ timers \subseteq Node /\ erased \subseteq Node
    /\ fired \in [1 .. MaxTimers -> Nat]

(* An id names one node for ever, and an erased node does not come back.   *)
IdsApart ==
    /\ \A n \in timers \cup erased : n.id <= lastId
    /\ \A m, n \in timers \cup erased : m.id = n.id => m = n
    /\ timers \cap erased = {}

(* At most one callback runs, that of a node which is still in the set.    *)
OneCallback == running = <<>> \/ \E n \in timers : running = <<n>>

Inv == Typed /\ IdsApart /\ OneCallback /\ fault = FALSE

-----------------------------------------------------------------------------
(* timer_set_.begin() is the node that is due first.                       *)

LEMMA LeastNumber ==
    ASSUME NEW T \in SUBSET Nat, T # {} PROVE \E x \in T : \A y \in T : x <= y
<1>1. IsWellFoundedOn({p \in Nat \X Nat : p[1] < p[2]}, Nat)
  BY NatLessThanWellFounded DEF OpToRel
<1>2. PICK x \in T : \A y \in T : ~(<<y, x>> \in {p \in Nat \X Nat : p[1] < p[2]})
  BY <1>1, WFMin
<1>3. ASSUME NEW y \in T PROVE x <= y
  <2>1. x \in Nat /\ y \in Nat /\ <<y, x>> \in Nat \X Nat
    OBVIOUS
  <2> QED BY <1>2, <2>1
<1> QED BY <1>3

LEMMA FirstIsLeast ==
    ASSUME timers \subseteq Node, timers # {}
    PROVE  First \in timers /\ \A m \in timers : m = First \/ Before(First, m)
<1>1. \A n \in timers : n.expire \in Nat /\ n.id \in Nat
  BY DEF Node
<1>2. PICK e \in {n.expire : n \in timers} : \A n \in timers : e <= n.expire
  <2>1. {n.expire : n \in timers} \in SUBSET Nat /\ {n.expire : n \in timers} # {}
    BY <1>1
  <2>2. \E x \in {n.expire : n \in timers} : \A y \in {n.expire : n \in timers} : x <= y
    BY <2>1, LeastNumber, Zenon
  <2> QED BY <2>2
<1> DEFINE early == {n \in timers : n.expire = e}
<1>3. PICK i \in {n.id : n \in early} : \A n \in early : i <= n.id
  <2>1. {n.id : n \in early} \in SUBSET Nat /\ {n.id : n \in early} # {}
    BY <1>1, <1>2
  <2>2. \E x \in {n.id : n \in early} : \A y \in {n.id : n \in early} : x <= y
    BY <2>1, LeastNumber, Zenon
  <2> QED BY <2>2
<1>4. PICK n \in timers : n.expire = e /\ n.id = i
  BY <1>3
<1>5. \A m \in timers : m = n \/ Before(n, m)
  <2> SUFFICES ASSUME NEW m \in timers, ~Before(n, m) PROVE m = n
    OBVIOUS
  <2>1. m.expire = e /\ m.id = i
    BY <1>1, <1>2, <1>3, <1>4 DEF Before
  <2> QED BY <1>4, <2>1 DEF Node
<1> QED BY <1>4, <1>5 DEF First

-----------------------------------------------------------------------------

LEMMA Invariant == ASSUME Plain PROVE SpecTimer => []Inv
<1>1. InitTimer => Inv
  BY DEF InitTimer, Inv, Typed, IdsApart, OneCallback, Plain
<1>2. ASSUME Inv, [NextTimer]_timerVars PROVE Inv'
  <2>1. CASE UNCHANGED timerVars
    BY <1>2, <2>1 DEF timerVars, Inv, Typed, IdsApart, OneCallback
  <2>2. CASE Tick \/ CheckNothing \/ Sleep \/ WakeUp
    BY <1>2, <2>2 DEF Tick, CheckNothing, Sleep, WakeUp, Inv, Typed, IdsApart, OneCallback
  <2>3. ASSUME NEW d \in Delays, Add(d) PROVE Inv'
    <3> DEFINE n == [expire |-> now + d, id |-> lastId + 1]
    <3>1. n \in Node /\ n.id = lastId + 1 /\ lastId' = n.id
      BY <1>2, <2>3 DEF Add, Inv, Typed, Node, Plain
    <3>2. timers' = timers \cup {n} /\ UNCHANGED <<now, running, fired, erased, fault>>
      BY <2>3 DEF Add
    <3>3. \A m \in timers \cup erased : m.id # n.id /\ m.id <= lastId /\ m.id \in Nat
      BY <1>2, <3>1 DEF Inv, Typed, IdsApart, Node
    <3> HIDE DEF n
    <3>4. Typed'
      BY <1>2, <3>1, <3>2 DEF Inv, Typed
    <3>5. IdsApart'
      BY <1>2, <3>1, <3>2, <3>3 DEF Inv, Typed, IdsApart
    <3> QED BY <1>2, <3>2, <3>4, <3>5 DEF Inv, OneCallback
  <2>4. ASSUME NEW n \in timers, Erase(n) PROVE Inv'
    <3>1. /\ timers' = timers \ {n} /\ erased' = erased \cup {n}
          /\ UNCHANGED <<now, lastId, running, fired, fault>>
      BY <2>4 DEF Erase
    <3>2. running = <<>> \/ Head(running) # n
      BY <2>4 DEF Erase, Calls, Idle, Plain
    <3>3. Typed' /\ IdsApart'
      BY <1>2, <3>1 DEF Inv, Typed, IdsApart
    <3>4. OneCallback'
      BY <1>2, <3>1, <3>2 DEF Inv, OneCallback
    <3> QED BY <1>2, <3>1, <3>3, <3>4 DEF Inv
  <2>5. ASSUME CheckDue PROVE Inv'
    <3>1. running = <<>>
      BY <2>5 DEF CheckDue, Calls, Idle, Plain
    <3>2. First \in timers
      BY <1>2, <2>5, FirstIsLeast DEF CheckDue, Due, Inv, Typed
    <3>3. /\ running' = <<First>> /\ UNCHANGED <<now, timers, lastId, erased, fault>>
          /\ fired' = [fired EXCEPT ![First.id] = @ + 1]
      BY <2>5, <3>1, <3>2 DEF CheckDue
    <3> HIDE DEF First
    <3>4. Typed'
      BY <1>2, <3>2, <3>3 DEF Inv, Typed, Node
    <3> QED BY <1>2, <3>2, <3>3, <3>4 DEF Inv, IdsApart, OneCallback
  <2>6. ASSUME CallbackReturns PROVE Inv'
    <3>1. PICK n \in timers : running = <<n>>
      BY <1>2, <2>6 DEF CallbackReturns, Idle, Inv, OneCallback
    <3>a. Head(running) = n /\ Tail(running) = <<>>
      BY <3>1
    <3>2. timers' = timers \ {n} /\ fault' = FALSE /\ running' = <<>>
          /\ UNCHANGED <<now, lastId, fired, erased>>
      BY <1>2, <2>6, <3>a DEF CallbackReturns, EraseFired, Inv
    <3> QED BY <1>2, <3>2 DEF Inv, Typed, IdsApart, OneCallback
  <2> QED BY <1>2, <2>1, <2>2, <2>3, <2>4, <2>5, <2>6 DEF NextTimer, LoopStep
<1> QED BY <1>1, <1>2, PTL DEF SpecTimer

\* When callbacks neither erase their own timer nor call check, check never
\* erases a node that has been removed meanwhile.
THEOREM NoEraseDangles == ASSUME Plain PROVE SpecTimer => []NoDanglingErase
<1>1. Inv => NoDanglingErase
  BY DEF Inv, NoDanglingErase
<1> QED BY <1>1, Invariant, PTL

(* Which timer a step fires: the first, and no other.                      *)
LEMMA FiresFirst ==
    ASSUME Inv, NextTimer, NEW n \in timers \cup erased, fired'[n.id] # fired[n.id]
    PROVE  First \in timers /\ n = First /\ \A m \in timers : n.expire <= m.expire
<1>1. CheckDue
  BY DEF NextTimer, LoopStep, Tick, Add, Erase, CallbackReturns, CheckNothing, Sleep, WakeUp
<1>2. First \in timers /\ \A m \in timers : m = First \/ Before(First, m)
  BY <1>1, FirstIsLeast DEF CheckDue, Due, Inv, Typed
<1>3. fired' = [fired EXCEPT ![First.id] = @ + 1]
  BY <1>1 DEF CheckDue
<1> HIDE DEF First
<1>4. n = First
  <2>1. n.id = First.id
    BY <1>2, <1>3 DEF Inv, Typed, Node
  <2> QED BY <1>2, <2>1 DEF Inv, IdsApart
<1>5. \A m \in timers : m.expire \in Nat
  BY DEF Inv, Typed, Node
<1> QED BY <1>2, <1>4, <1>5 DEF Before

\* Timers fire in the order of their expiry, and one for which erase returned
\* true never fires, whatever the callbacks add and erase meanwhile.
THEOREM FiringStaysSound == ASSUME Plain PROVE SpecTimer => FiringSound
<1>1. Inv /\ [NextTimer]_timerVars => [\A n \in erased : fired'[n.id] = fired[n.id]]_timerVars
  BY FiresFirst DEF Inv, IdsApart, timerVars
<1>2. Inv /\ [NextTimer]_timerVars =>
        [\A n \in timers : fired'[n.id] > fired[n.id] =>
            \A m \in timers \ {running[i] : i \in DOMAIN running} : n.expire <= m.expire]_timerVars
  <2> SUFFICES ASSUME Inv, NextTimer, NEW n \in timers, fired'[n.id] > fired[n.id]
               PROVE  \A m \in timers : n.expire <= m.expire
    BY DEF timerVars
  <2>1. fired'[n.id] # fired[n.id]
    BY DEF Inv, Typed, Node
  <2> QED BY <2>1, FiresFirst
<1> QED BY <1>1, <1>2, Invariant, PTL DEF SpecTimer, FiringSound, ErasedNeverFires, FiresInOrder

-----------------------------------------------------------------------------
(* Connections.                                                            *)

(* The types of the variables, and no pointer without an object.           *)
ConnTyped ==
    /\ kind \in [Connects -> Kinds \cup {"none"}] /\ ptr \in [Connects -> NativeHandles \cup {Null}]
    /\ native \subseteq NativeHandles /\ leaks \subseteq native
    /\ misuse \in BOOLEAN /\ failed \in BOOLEAN
    /\ \A o \in Connects \ Live : ptr[o] = Null

ConnInv == ConnTyped /\ HandlesSound

(* What the proofs take of the constants: the null pointer is no handle,   *)
(* and only users of Redis close connections themselves.                   *)
Usual ==
    /\ Null \notin NativeHandles /\ "none" \notin Kinds
    /\ Kinds \subseteq {"mysql", "sqlite", "redis"} /\ UserCloses \subseteq {"redis"}

-----------------------------------------------------------------------------

(* An object whose handle is open, or null, changes it for s.p: nothing    *)
(* else is opened or closed, but for the handles in L, which are leaked.   *)
LEMMA Swap ==
    ASSUME Usual, ConnInv, ~failed, NEW o \in Connects, NEW k \in Kinds \cup {"none"},
           NEW p \in NativeHandles \cup {Null}, NEW L \in SUBSET (NativeHandles \ native),
           p \notin native \ {ptr[o]}, p \notin L, k = "none" => p = Null,
           kind' = [kind EXCEPT ![o] = k], ptr' = [ptr EXCEPT ![o] = p],
           native' = ((native \ {ptr[o]}) \cup L) \cup ({p} \ {Null}),
           leaks' = leaks \cup L, ~misuse', misuse' \in BOOLEAN, failed' \in BOOLEAN
    PROVE  ConnInv'
<1>1. /\ native = leaks \cup ({ptr[u] : u \in Live} \ {Null})
      /\ \A u \in Connects : ptr[u] # Null => ptr[u] \in native /\ ptr[u] \notin leaks
    BY DEF ConnInv, ConnTyped, HandlesSound, Live
<1>2. ConnTyped'
    BY <1>1 DEF ConnInv, ConnTyped, Usual, Live
<1>3. \A u, v \in Connects : u # v /\ ptr[u] # Null => ptr[u] # ptr[v]
    BY <1>1 DEF ConnInv, ConnTyped, HandlesSound, Live
<1>4. \A u, v \in Live' : ptr'[u] = ptr'[v] /\ ptr'[u] # Null => u = v /\ ptr'[u] \notin leaks'
    BY <1>1, <1>3 DEF ConnInv, ConnTyped, Live
<1>5. \A h \in native' : h \in leaks' \/ (h # Null /\ \E u \in Live' : h = ptr'[u])
  <2> SUFFICES ASSUME NEW h \in native', h \notin leaks'
               PROVE  h # Null /\ \E u \in Live' : h = ptr'[u]
    OBVIOUS
  <2>1. CASE h = p
    BY <2>1, <1>1 DEF ConnInv, ConnTyped, Live, Usual
  <2>2. CASE h # p
    <3>1. h \in native /\ h # ptr[o]
      BY <2>2, <1>1
    <3>2. PICK u \in Live : h = ptr[u]
      BY <3>1, <1>1
    <3>3. u # o /\ u \in Live' /\ ptr'[u] = h
      BY <3>1, <3>2 DEF Live, ConnInv, ConnTyped
    <3> QED BY <3>1, <3>3 DEF ConnInv, ConnTyped, Usual
  <2> QED BY <2>1, <2>2
<1>6. leaks' \subseteq native'
    BY <1>1 DEF ConnInv, ConnTyped, Usual
<1>7. \A u \in Live' : ptr'[u] # Null => ptr'[u] \in native'
    BY <1>1, <1>3 DEF ConnInv, ConnTyped, Live
<1>8. native' = leaks' \cup ({ptr'[u] : u \in Live'} \ {Null})
    BY <1>5, <1>6, <1>7
<1> QED BY <1>2, <1>4, <1>8 DEF ConnInv, HandlesSound

LEMMA Change ==
    ASSUME Usual, ConnInv, ~failed, NEW o \in Connects, NEW k \in Kinds \cup {"none"},
           NEW p \in NativeHandles \cup {Null}, NEW open, NEW L \in SUBSET (NativeHandles \ native),
           p \notin native \ {ptr[o]}, p \notin L,
           Becomes(o, k, [p |-> p, open |-> open, bad |-> FALSE]),
           leaks' = leaks \cup L, failed' \in BOOLEAN,
           k = "none" => open = (native \ {ptr[o]}) \cup L,
           k # "none" => open = ((native \ {ptr[o]}) \cup L) \cup ({p} \ {Null})
    PROVE  ConnInv'
<1>1. /\ kind' = [kind EXCEPT ![o] = k] /\ native' = open /\ misuse' = FALSE
      /\ ptr' = [ptr EXCEPT ![o] = IF k = "none" THEN Null ELSE p]
  BY DEF Becomes
<1>2. CASE k = "none"
  <2>1. native' = ((native \ {ptr[o]}) \cup L) \cup ({Null} \ {Null})
    BY <1>1, <1>2
  <2>2. Null \notin native \ {ptr[o]} /\ Null \notin L
    BY DEF Usual, ConnInv, ConnTyped
  <2> QED BY <1>1, <1>2, <2>1, <2>2, Swap
<1>3. CASE k # "none"
  BY <1>1, <1>3, Swap
<1> QED BY <1>2, <1>3

(* What opening and closing a handle does to an object and the open ones.  *)
LEMMA Opened ==
    ASSUME NEW p, NEW open, NEW h
    PROVE  OpenHandle([p |-> p, open |-> open, bad |-> FALSE], h)
             = [p |-> h, open |-> open \cup {h}, bad |-> FALSE]
BY DEF OpenHandle

LEMMA Closed ==
    ASSUME NEW k, NEW p, NEW open, p = Null \/ p \in open
    PROVE  CloseHandle(k, [p |-> p, open |-> open, bad |-> FALSE])
             = [p |-> IF k = "redis" THEN Null ELSE p, open |-> open \ {p}, bad |-> FALSE]
<1>1. ~Dangling([p |-> p, open |-> open, bad |-> FALSE])
  BY DEF Dangling
<1> QED BY <1>1 DEF CloseHandle

(* connect_to of a SQLite connection leaves one more handle open, or none. *)
LEMMA SqliteConnected ==
    ASSUME NEW p, NEW open, NEW h, NEW q, NEW ok \in BOOLEAN,
           h \notin open, q \notin open
    PROVE  SqliteConnect([p |-> p, open |-> open, bad |-> FALSE], h, q, ok)
             = [p |-> q, open |-> IF ok THEN open \cup {q} ELSE open, bad |-> FALSE]
<1> DEFINE t == [p |-> q, open |-> open \cup {q}, bad |-> FALSE]
<1>1. CloseHandle("sqlite", [p |-> h, open |-> open \cup {h}, bad |-> FALSE])
        = [p |-> h, open |-> open, bad |-> FALSE]
  <2>1. (open \cup {h}) \ {h} = open
    OBVIOUS
  <2> QED BY <2>1, Closed
<1>2. CloseHandle("sqlite", t) = [p |-> q, open |-> open, bad |-> FALSE]
  <2>1. (open \cup {q}) \ {q} = open
    OBVIOUS
  <2> QED BY <2>1, Closed
<1>3. /\ OpenHandle([p |-> p, open |-> open, bad |-> FALSE], h)
           = [p |-> h, open |-> open \cup {h}, bad |-> FALSE]
      /\ OpenHandle([p |-> h, open |-> open, bad |-> FALSE], q) = t
  BY Opened
<1>4. SqliteConnect([p |-> p, open |-> open, bad |-> FALSE], h, q, ok)
        = IF ok THEN t ELSE CloseHandle("sqlite", t)
  BY <1>1, <1>3, Zenon DEF SqliteConnect
<1> QED BY <1>2, <1>4

LEMMA StepKeeps == ASSUME Usual, ConnInv, [NextConnect]_connVars PROVE ConnInv'
<1>1. CASE UNCHANGED connVars
  BY <1>1 DEF connVars, ConnInv, ConnTyped, HandlesSound, Live
<1>2. ASSUME NextConnect PROVE ConnInv'
  <2>0. failed = FALSE /\ misuse = FALSE
    BY <1>2 DEF NextConnect, ConnInv, ConnTyped, HandlesSound
  <2>a. \A o \in Connects : ptr[o] # Null => ptr[o] \in native
    BY <2>0 DEF ConnInv, ConnTyped, HandlesSound, Live
  <2>b. \A o \in Connects : ~Dangling(View(o))
    BY <2>a DEF Dangling, View
  <2>1. ASSUME NEW o \in Connects, NEW k \in Kinds, NEW ok \in BOOLEAN, Create(o, k, ok)
        PROVE  ConnInv'
    <3>0. ptr[o] = Null
      BY <2>1 DEF Create, ConnInv, ConnTyped, Live
    <3>1. PICK f, h, q \in NativeHandles \ native :
             /\ f # h /\ f # q
             /\ LET s == ConnectTo(k, Construct(k, View(o), f), h, q, ok)
                IN  IF ok THEN Becomes(o, k, s) ELSE Becomes(o, "none", Discard(k, s))
             /\ leaks' = IF k = "sqlite" THEN leaks \cup {f} ELSE leaks
             /\ UNCHANGED failed
      BY <2>1 DEF Create
    <3>2. View(o) = [p |-> Null, open |-> native, bad |-> FALSE]
      BY <3>0, <2>0 DEF View
    <3>3. native \ {Null} = native /\ \A x \in {f, h, q} : (native \cup {x}) \ {x} = native
      BY DEF ConnInv, ConnTyped, Usual
    <3> DEFINE s == ConnectTo(k, Construct(k, View(o), f), h, q, ok)
    <3>4. CASE k = "mysql"
      <4> DEFINE t == [p |-> f, open |-> native \cup {f}, bad |-> FALSE]
      <4>1. s = t
        BY <3>2, <3>4, Opened DEF ConnectTo, Construct
      <4>2. Discard(k, t) = [p |-> f, open |-> native, bad |-> FALSE]
        BY <3>3, <3>4, Closed DEF Discard
      <4>3. leaks' = leaks \cup {} /\ failed' \in BOOLEAN
        BY <3>1, <3>4, <2>0
      <4>4. CASE ok
        <5>1. Becomes(o, k, t)
          BY <3>1, <4>1, <4>4, Zenon
        <5>2. native \cup {f} = ((native \ {ptr[o]}) \cup {}) \cup ({f} \ {Null})
          BY <3>0, <3>3 DEF Usual
        <5>3. f \notin native \ {ptr[o]} /\ f \notin {} /\ k # "none" /\ {} \in SUBSET (NativeHandles \ native)
          BY <3>4
        <5> HIDE DEF s
        <5> QED BY <4>3, <5>1, <5>2, <5>3, <2>0, Change
      <4>5. CASE ~ok
        <5>1. Becomes(o, "none", [p |-> f, open |-> native, bad |-> FALSE])
          BY <3>1, <4>1, <4>2, <4>5, Zenon
        <5> HIDE DEF s
        <5> QED BY <3>0, <3>1, <3>3, <4>3, <5>1, <2>0, <2>1, Change, ZenonT(60)
      <4> QED BY <4>4, <4>5
    <3>5. CASE k = "sqlite"
      <4> DEFINE all == native \cup {f}
                 t == [p |-> q, open |-> IF ok THEN all \cup {q} ELSE all, bad |-> FALSE]
      <4>1. s = SqliteConnect([p |-> f, open |-> all, bad |-> FALSE], h, q, ok)
        BY <3>2, <3>5, Opened DEF ConnectTo, Construct
      <4>2. s = t
        BY <3>1, <4>1, SqliteConnected
      <4>3. Becomes(o, IF ok THEN k ELSE "none", t)
        BY <3>1, <3>5, <4>2 DEF Discard
      <4>4. /\ leaks' = leaks \cup {f} /\ failed' \in BOOLEAN
            /\ q \notin native /\ q \notin {f} /\ q # Null /\ {f} \in SUBSET (NativeHandles \ native)
        BY <3>1, <3>5, <2>0 DEF Usual
      <4>5. native \ {ptr[o]} = native
        BY <3>0, <3>3
      <4> HIDE DEF s
      <4>6. CASE ok
        <5>1. all \cup {q} = ((native \ {ptr[o]}) \cup {f}) \cup ({q} \ {Null})
          BY <4>4, <4>5
        <5> QED BY <3>5, <4>3, <4>4, <4>5, <4>6, <5>1, <2>0, Change
      <4>7. CASE ~ok
        <5>1. Becomes(o, "none", [p |-> q, open |-> all, bad |-> FALSE])
          BY <4>3, <4>7
        <5> QED BY <4>4, <4>5, <5>1, <2>0, Change
      <4> QED BY <4>6, <4>7
    <3>6. CASE k = "redis"
      <4> DEFINE t == [p |-> IF ok THEN h ELSE Null,
                       open |-> IF ok THEN native \cup {h} ELSE native, bad |-> FALSE]
      <4>1. s = RedisConnect([p |-> Null, open |-> native, bad |-> FALSE], h, ok)
        BY <3>2, <3>6 DEF ConnectTo, Construct
      <4>a. s = t
        BY <4>1 DEF RedisConnect, OpenHandle
      <4>2. ~ok => Discard(k, t) = t
        BY <3>3, <3>6, Closed DEF Discard
      <4>3. Becomes(o, IF ok THEN k ELSE "none", t)
        BY <3>1, <4>a, <4>2, Zenon
      <4>4. leaks' = leaks \cup {} /\ failed' \in BOOLEAN
        BY <3>1, <3>6, <2>0
      <4>5. native \ {ptr[o]} = native /\ h # Null
        BY <3>0, <3>3 DEF Usual
      <4> HIDE DEF s
      <4>6. CASE ok
        <5>1. native \cup {h} = ((native \ {ptr[o]}) \cup {}) \cup ({h} \ {Null})
          BY <4>5
        <5> QED BY <3>6, <4>3, <4>4, <4>5, <4>6, <5>1, <2>0, Change
      <4>7. CASE ~ok
        <5>1. Becomes(o, "none", [p |-> Null, open |-> native, bad |-> FALSE])
          BY <4>3, <4>7
        <5> QED BY <4>4, <4>5, <3>3, <5>1, <2>0, Change, ZenonT(60)
      <4> QED BY <4>6, <4>7
    <3> QED BY <3>4, <3>5, <3>6 DEF Usual
  <2>2. ASSUME NEW o \in Connects, NEW ok \in BOOLEAN, Reset(o, ok) PROVE ConnInv'
    <3>1. PICK h, q \in NativeHandles \ (native \ {ptr[o]}) :
             /\ Becomes(o, kind[o], ResetTo(kind[o], View(o), h, q, ok))
             /\ failed' = (kind[o] = "sqlite" /\ ~ok) /\ UNCHANGED leaks
      BY <2>2 DEF Reset
    <3> DEFINE rest == native \ {ptr[o]}
    <3>2. /\ View(o) = [p |-> ptr[o], open |-> native, bad |-> FALSE]
          /\ ptr[o] = Null \/ ptr[o] \in native
          /\ kind[o] \in Kinds
      BY <2>2, <2>0, <2>a DEF Reset, View, Live, ConnInv, ConnTyped
    <3>3. rest \subseteq NativeHandles /\ (rest \cup {}) = rest
      BY DEF ConnInv, ConnTyped
    <3> DEFINE s == ResetTo(kind[o], View(o), h, q, ok)
    <3>a. /\ leaks' = leaks \cup {} /\ failed' \in BOOLEAN
          /\ h \notin rest /\ q \notin rest /\ h # Null /\ q # Null
      BY <3>1, <2>2 DEF Usual
    <3>4. CASE kind[o] = "mysql"
      <4> DEFINE t == [p |-> h, open |-> rest \cup {h}, bad |-> FALSE]
      <4>1. s = OpenHandle([p |-> ptr[o], open |-> rest, bad |-> FALSE], h)
        BY <3>2, <3>4, Closed DEF ResetTo
      <4>2. Becomes(o, kind[o], t)
        BY <3>1, <4>1, Opened
      <4> HIDE DEF s
      <4> QED BY <3>1, <3>2, <3>a, <3>4, <4>2, <2>0, Change
    <3>5. CASE kind[o] = "sqlite"
      <4>1. s = SqliteConnect([p |-> ptr[o], open |-> rest, bad |-> FALSE], h, q, ok)
        BY <3>2, <3>5, Closed DEF ResetTo, ConnectTo
      <4>2. Becomes(o, kind[o], [p |-> q, open |-> IF ok THEN rest \cup {q} ELSE rest,
                                 bad |-> FALSE])
        <5> HIDE DEF s, rest
        <5>1. s = [p |-> q, open |-> IF ok THEN rest \cup {q} ELSE rest, bad |-> FALSE]
          BY <3>a, <4>1, SqliteConnected
        <5> QED BY <3>1, <5>1, Zenon DEF s
      <4> HIDE DEF s
      <4>3. CASE ok
        BY <4>3, <3>1, <3>2, <3>a, <3>5, <4>2, <2>0, Change, ZenonT(60)
      <4>4. CASE ~ok
        <5>1. native' = rest /\ ptr' = [ptr EXCEPT ![o] = q] /\ misuse' = FALSE
              /\ kind' = [kind EXCEPT ![o] = kind[o]] /\ failed'
          BY <4>4, <3>1, <3>2, <3>5, <4>2 DEF Becomes
        <5>2. ptr[o] \notin leaks
          BY <2>0, <2>2 DEF ConnInv, ConnTyped, HandlesSound, Reset, Live, Usual
        <5> QED BY <5>1, <5>2, <3>1, <3>2, <3>3, <2>2, ZenonT(60)
                DEF ConnInv, ConnTyped, HandlesSound, Live
      <4> QED BY <4>3, <4>4
    <3>6. CASE kind[o] = "redis"
      <4> DEFINE t == [p |-> IF ok THEN h ELSE Null,
                       open |-> IF ok THEN rest \cup {h} ELSE rest, bad |-> FALSE]
      <4>1. s = RedisConnect([p |-> Null, open |-> rest, bad |-> FALSE], h, ok)
        BY <3>2, <3>6, Closed DEF ResetTo, ConnectTo
      <4>2. Becomes(o, kind[o], t)
        BY <3>1, <4>1 DEF RedisConnect, OpenHandle
      <4> HIDE DEF s
      <4>3. Null \notin rest
        BY <3>3 DEF Usual
      <4> QED BY <3>1, <3>2, <3>a, <3>6, <4>2, <4>3, <2>0, Change
    <3> QED BY <3>2, <3>4, <3>5, <3>6 DEF Usual
  <2>3. ASSUME NEW o \in Connects, Use(o) PROVE ConnInv'
    BY <2>3, <2>b, <2>0 DEF Use, ConnInv, ConnTyped, HandlesSound, Live
  <2>4. ASSUME NEW o \in Connects, NEW k \in Kinds \cup {"none"}, kind[o] \in Kinds,
               Becomes(o, k, CloseHandle(kind[o], View(o))), k = "redis" \/ k = "none",
               k = "redis" => kind[o] = "redis", UNCHANGED <<leaks, failed>>
        PROVE  ConnInv'
    <3>1. View(o) = [p |-> ptr[o], open |-> native, bad |-> FALSE]
      BY <2>0 DEF View
    <3>2. CloseHandle(kind[o], View(o))
            = [p |-> IF kind[o] = "redis" THEN Null ELSE ptr[o],
               open |-> native \ {ptr[o]}, bad |-> FALSE]
      BY <3>1, <2>a, Closed
    <3> DEFINE t == [p |-> IF kind[o] = "redis" THEN Null ELSE ptr[o],
                     open |-> native \ {ptr[o]}, bad |-> FALSE]
    <3>3. Becomes(o, k, t)
      BY <3>2, <2>4, Zenon
    <3>a. leaks' = leaks \cup {} /\ failed' \in BOOLEAN
      BY <2>4, <2>0
    <3>4. ptr[o] \in NativeHandles \cup {Null} /\ Null \notin native
      BY DEF ConnInv, ConnTyped, Usual
    <3> QED BY <3>3, <3>4, <3>a, <2>0, <2>4, Change, ZenonT(60)
  <2>5. ASSUME NEW o \in Connects, CloseConnect(o) PROVE ConnInv'
    BY <2>4, <2>5 DEF CloseConnect, Live, Usual, ConnInv, ConnTyped
  <2>6. ASSUME NEW o \in Connects, Delete(o) PROVE ConnInv'
    BY <2>4, <2>6 DEF Delete, Live, ConnInv, ConnTyped
  <2> QED BY <1>2, <2>1, <2>2, <2>3, <2>5, <2>6 DEF NextConnect
<1> QED BY <1>1, <1>2

\* Whatever connects, resets, closes and deletes connections, in any order and
\* with any failures: every open handle has exactly one owner and no handle is
\* closed or used after it was closed.
THEOREM HandlesStaySound == ASSUME Usual PROVE SpecConnect => []HandlesSound
<1>1. InitConnect => ConnInv
  BY DEF InitConnect, ConnInv, ConnTyped, HandlesSound, Live
<1>2. ConnInv /\ [NextConnect]_connVars => ConnInv'
  BY StepKeeps
<1>3. ConnInv => HandlesSound
  BY DEF ConnInv
<1> QED BY <1>1, <1>2, <1>3, PTL DEF SpecConnect

=============================================================================
