------------------------- MODULE DatabasePoolProofs -------------------------
(***************************************************************************)
(* Proofs about DatabasePool, for every set of connections and clients and *)
(* every size of the pool.                                                 *)
(***************************************************************************)
EXTENDS DatabasePool, SequenceTheorems, TLAPS

-----------------------------------------------------------------------------
(* What the three operations on the queue do to its elements.              *)

Distinct(s) == \A i, j \in DOMAIN s : s[i] = s[j] => i = j

LEMMA PushFacts ==
    ASSUME NEW S, NEW s \in Seq(S), NEW x \in S
    PROVE  /\ Append(s, x) \in Seq(S) /\ Append(s, x) # <<>>
           /\ Range(Append(s, x)) = Range(s) \cup {x}
           /\ Distinct(s) /\ x \notin Range(s) => Distinct(Append(s, x))
<1> DEFINE t == Append(s, x)
<1>1. /\ t \in Seq(S) /\ Len(t) = Len(s) + 1 /\ Len(s) \in Nat
      /\ DOMAIN s = 1 .. Len(s) /\ DOMAIN t = 1 .. Len(s) + 1
      /\ \A i \in 1 .. Len(s) : t[i] = s[i]
      /\ t[Len(s) + 1] = x
  BY AppendProperties, LenProperties
<1>2. t # <<>>
  BY <1>1, EmptySeq
<1> HIDE DEF t
<1>3. Range(t) = Range(s) \cup {x}
  <2>1. \A i \in 1 .. Len(s) + 1 : i \in 1 .. Len(s) \/ i = Len(s) + 1
    BY <1>1
  <2>2. 1 .. Len(s) \subseteq 1 .. Len(s) + 1 /\ Len(s) + 1 \in 1 .. Len(s) + 1
    BY <1>1
  <2>3. QED
    BY <1>1, <2>1, <2>2 DEF Range
<1>4. Distinct(s) /\ x \notin Range(s) => Distinct(t)
  <2>1. \A i \in 1 .. Len(s) + 1 : i \in 1 .. Len(s) \/ i = Len(s) + 1
    BY <1>1
  <2>2. QED
    BY <1>1, <2>1 DEF Range, Distinct
<1>5. QED
  BY <1>1, <1>2, <1>3, <1>4 DEF t

LEMMA ScanFacts ==
    ASSUME NEW S, NEW s \in Seq(S), NEW n \in 0 .. Len(s)
    PROVE  /\ SubSeq(s, n + 1, Len(s)) \in Seq(S)
           /\ Range(SubSeq(s, n + 1, Len(s))) \subseteq Range(s)
           /\ Len(SubSeq(s, n + 1, Len(s))) = Len(s) - n
           /\ Distinct(s) => Distinct(SubSeq(s, n + 1, Len(s)))
<1> DEFINE t == SubSeq(s, n + 1, Len(s))
<1>1. Len(s) \in Nat /\ n \in Nat /\ n <= Len(s) /\ DOMAIN s = 1 .. Len(s)
  BY LenProperties
<1>2. n + 1 \in Int /\ Len(s) \in Int /\ \A i \in n + 1 .. Len(s) : s[i] \in S
  BY <1>1, ElementOfSeq
<1>3. /\ t \in Seq(S)
      /\ Len(t) = IF n + 1 <= Len(s) THEN Len(s) - (n + 1) + 1 ELSE 0
      /\ \A i \in 1 .. Len(s) - (n + 1) + 1 : t[i] = s[n + 1 + i - 1]
  BY <1>2, SubSeqProperties
<1> HIDE DEF t
<1>4. Len(t) = Len(s) - n /\ \A i \in 1 .. Len(s) - n : t[i] = s[n + i]
  <2> DEFINE L == Len(s)
             M == Len(t)
  <2>0. L \in Nat /\ n \in Nat /\ n <= L /\ M = IF n + 1 <= L THEN L - (n + 1) + 1 ELSE 0
    BY <1>1, <1>3
  <2>1. Len(t) = Len(s) - n
    <3> HIDE DEF L, M
    <3>1. M = L - n
      BY <2>0
    <3>2. QED
      BY <3>1 DEF L, M
  <2>2. Len(s) - (n + 1) + 1 = Len(s) - n
    BY <1>1
  <2>3. \A i \in 1 .. Len(s) - n : n + 1 + i - 1 = n + i
    BY <1>1
  <2>4. QED
    BY <1>3, <2>1, <2>2, <2>3
<1>5. DOMAIN t = 1 .. Len(s) - n
  BY <1>3, <1>4, LenProperties
<1>6. \A i \in 1 .. Len(s) - n : n + i \in 1 .. Len(s)
  BY <1>1
<1>7. Range(t) \subseteq Range(s)
  BY <1>1, <1>4, <1>5, <1>6 DEF Range
<1>8. Distinct(s) => Distinct(t)
  <2> SUFFICES ASSUME Distinct(s), NEW i \in 1 .. Len(s) - n, NEW j \in 1 .. Len(s) - n,
                      t[i] = t[j]
               PROVE  i = j
    BY <1>5 DEF Distinct
  <2>1. n + i = n + j
    BY <1>1, <1>4, <1>6 DEF Distinct
  <2>2. QED
    BY <2>1, <1>1
<1>9. QED
  BY <1>3, <1>4, <1>7, <1>8 DEF t

LEMMA PopFacts ==
    ASSUME NEW S, NEW s \in Seq(S), s # <<>>
    PROVE  /\ Head(s) \in S /\ Head(s) \in Range(s)
           /\ Tail(s) \in Seq(S)
           /\ Range(Tail(s)) \subseteq Range(s)
           /\ Distinct(s) => Distinct(Tail(s)) /\ Range(Tail(s)) \subseteq Range(s) \ {Head(s)}
<1>1. Len(s) \in Nat \ {0} /\ DOMAIN s = 1 .. Len(s) /\ Head(s) = s[1]
  BY EmptySeq, LenProperties
<1>2. Tail(s) = SubSeq(s, 1 + 1, Len(s))
  BY TailIsSubSeq
<1>3. Head(s) \in S /\ Tail(s) \in Seq(S) /\ Len(Tail(s)) = Len(s) - 1
      /\ \A i \in 1 .. Len(s) - 1 : Tail(s)[i] = s[i + 1]
  BY HeadTailProperties
<1>4. 1 \in 0 .. Len(s) /\ 1 \in 1 .. Len(s)
  BY <1>1
<1>5. Range(Tail(s)) \subseteq Range(s) /\ (Distinct(s) => Distinct(Tail(s)))
  BY <1>2, <1>4, ScanFacts
<1>6. Distinct(s) => Head(s) \notin Range(Tail(s))
  <2> SUFFICES ASSUME Distinct(s), NEW i \in DOMAIN Tail(s), Tail(s)[i] = s[1]
               PROVE  FALSE
    BY <1>1 DEF Range
  <2>1. i \in 1 .. Len(s) - 1
    BY <1>3, LenProperties
  <2>2. i + 1 \in 1 .. Len(s) /\ i + 1 # 1 /\ s[i + 1] = s[1]
    BY <1>1, <1>3, <2>1
  <2>3. QED
    BY <1>1, <1>4, <2>2 DEF Distinct
<1>7. QED
  BY <1>1, <1>3, <1>4, <1>5, <1>6 DEF Range

-----------------------------------------------------------------------------
(* What the steps do to the queue and to the clients, type by type.        *)

LEMMA FreshFacts ==
    ASSUME TypeOK
    PROVE  Fresh \subseteq Conns /\ Fresh \cap Queued = {} /\ Fresh \cap Lent = {}
BY DEF TypeOK, Fresh, Alive

LEMMA QueuedConns ==
    ASSUME TypeOK
    PROVE  Queued \subseteq Conns
<1>1. DOMAIN queue = 1 .. Len(queue)
  BY LenProperties DEF TypeOK
<1>2. \A i \in 1 .. Len(queue) : queue[i] \in Conns
  BY ElementOfSeq DEF TypeOK
<1>3. QED
  BY <1>1, <1>2 DEF Queued, Range

LEMMA WakeFacts ==
    ASSUME NEW pcs \in [Clients -> ClientPcs]
    PROVE  /\ WakeClients(pcs) \in [Clients -> ClientPcs]
           /\ \A c \in Clients : WakeClients(pcs)[c] # "wait"
           /\ \A c \in Clients : pcs[c] # "wait" => WakeClients(pcs)[c] = pcs[c]
           /\ \A c \in Clients : pcs[c] = "wait" => WakeClients(pcs)[c] = "lock"
BY DEF WakeClients, ClientPcs

(* A client that takes the front connection is given it or a new one, or   *)
(* nothing; all that wait are woken.                                       *)
Gets(c, y) ==
    /\ cpc' = WakeClients([cpc EXCEPT ![c] = "has"])
    /\ held' = [held EXCEPT ![c] = y]
    /\ y \in sound'
GivesUp(c) ==
    /\ cpc' = WakeClients([cpc EXCEPT ![c] = "away"])
    /\ held' = held

LEMMA TakeOutcome ==
    ASSUME TypeOK, NEW c \in Clients, TakeConnection(c)
    PROVE  /\ sound' \subseteq Conns
           /\ (\E y \in Fresh \cup {Head(queue)} : Gets(c, y)) \/ GivesUp(c)
<1>1. Head(queue) \in Conns /\ sound \subseteq Conns /\ Fresh \subseteq Conns
  BY PopFacts, FreshFacts DEF TypeOK, TakeConnection
<1>2. QED
  BY <1>1 DEF TakeConnection, Validate, Hand, HandNull, Gets, GivesUp

LEMMA TakeTypes ==
    ASSUME TypeOK, NEW c \in Clients, TakeConnection(c)
    PROVE  /\ queue' \in Seq(Conns) /\ sound' \subseteq Conns
           /\ cpc' \in [Clients -> ClientPcs]
           /\ held' \in [Clients -> Conns \cup {NoConn}]
           /\ ppc' \in ProducerPcs
<1>1. queue' \in Seq(Conns) /\ Head(queue) \in Conns
  BY PopFacts DEF TypeOK, TakeConnection
<1>2. ppc' \in ProducerPcs
  BY DEF TypeOK, TakeConnection, WakeProducer, ProducerPcs
<1>3. /\ [cpc EXCEPT ![c] = "has"] \in [Clients -> ClientPcs]
      /\ [cpc EXCEPT ![c] = "away"] \in [Clients -> ClientPcs]
  BY DEF TypeOK, ClientPcs
<1>4. CASE GivesUp(c)
  BY <1>1, <1>2, <1>3, <1>4, TakeOutcome, WakeFacts DEF GivesUp, TypeOK
<1>5. CASE \E y \in Fresh \cup {Head(queue)} : Gets(c, y)
  <2>1. PICK y \in Conns : Gets(c, y)
    BY <1>1, <1>5, FreshFacts
  <2>2. [held EXCEPT ![c] = y] \in [Clients -> Conns \cup {NoConn}]
    BY DEF TypeOK
  <2>3. QED
    BY <1>1, <1>2, <1>3, <2>1, <2>2, TakeOutcome, WakeFacts DEF Gets
<1>6. QED
  BY <1>4, <1>5, TakeOutcome

-----------------------------------------------------------------------------

\* Every variable keeps its type: the queue holds connections only, and each
\* thread stays at one of the places the code has for it.
THEOREM TypeCorrect == Spec => []TypeOK
<1>1. Init => TypeOK
  <2> SUFFICES ASSUME Init PROVE TypeOK
    OBVIOUS
  <2>1. queue \in Seq(Conns)
    BY EmptySeq DEF Init
  <2>2. 0 \in 0 .. MaxCalls /\ 0 \in 0 .. MaxFaults
    BY DbPoolAssumption DEF DbPoolAssumption
  <2>3. QED
    BY <2>1, <2>2 DEF Init, TypeOK, ProducerPcs, ScannerPcs, OwnerPcs, ClientPcs
<1>2. TypeOK /\ [Next]_vars => TypeOK'
  <2> SUFFICES ASSUME TypeOK, [Next]_vars PROVE TypeOK'
    OBVIOUS
  <2>0. /\ queue \in Seq(Conns) /\ sound \subseteq Conns
        /\ calls \in 0 .. MaxCalls /\ faults \in 0 .. MaxFaults
        /\ MaxCalls \in Nat /\ MaxFaults \in Nat
    BY DbPoolAssumption DEF DbPoolAssumption, TypeOK
  <2>1. CASE ServerStep
    <3>1. /\ UNCHANGED <<queue, running, ppc, spc, dpc, cpc, held, calls>>
          /\ sound' \subseteq Conns /\ up' \in BOOLEAN
          /\ faults' = faults \/ (faults < MaxFaults /\ faults' = faults + 1)
      BY <2>1 DEF ServerStep, ServerDown, ServerUp, DropConnection, TypeOK
    <3>2. faults' \in 0 .. MaxFaults
      BY <2>0, <3>1
    <3>3. QED
      BY <3>1, <3>2 DEF TypeOK
  <2>2. CASE ConnectInitial
    <3>1. PICK x \in Conns : queue' = Append(queue, x) /\ sound' = sound \cup {x}
      BY <2>2, FreshFacts DEF ConnectInitial
    <3>2. queue' \in Seq(Conns)
      BY <2>0, <3>1, PushFacts
    <3>3. QED
      BY <2>2, <3>1, <3>2 DEF ConnectInitial, TypeOK, server
  <2>3. CASE StartThreads \/ ClearRunning \/ NotifyAll \/ JoinProducer
    BY <2>3 DEF StartThreads, ClearRunning, NotifyAll, WakeProducer, JoinProducer, TypeOK,
       server, ProducerPcs, ScannerPcs, OwnerPcs
  <2>4. CASE JoinScanner
    <3>1. queue' \in Seq(Conns)
      BY <2>4, EmptySeq DEF JoinScanner
    <3>2. QED
      BY <2>4, <3>1 DEF JoinScanner, TypeOK, server, OwnerPcs
  <2>5. CASE Produce
    <3>1. (queue' = queue /\ sound' = sound)
          \/ \E x \in Conns : queue' = Append(queue, x) /\ sound' = sound \cup {x}
      BY <2>5, FreshFacts DEF Produce
    <3>2. queue' \in Seq(Conns) /\ sound' \subseteq Conns
      BY <2>0, <3>1, PushFacts
    <3>3. cpc' \in [Clients -> ClientPcs]
      BY <2>5, WakeFacts DEF Produce, TypeOK
    <3>4. QED
      BY <2>5, <3>2, <3>3 DEF Produce, TypeOK, server, ProducerPcs
  <2>6. CASE ProducerChecks \/ ProducerTests \/ ProducerWaits \/ ProducerLeaves \/ ProducerSpurious
    BY <2>6 DEF ProducerChecks, ProducerTests, ProducerWaits, ProducerLeaves, ProducerSpurious, TypeOK,
       server, ProducerPcs
  <2>7. CASE Scan
    <3>1. PICK n \in 0 .. Len(queue) : queue' = SubSeq(queue, n + 1, Len(queue))
      BY <2>7 DEF Scan, Surplus
    <3>2. queue' \in Seq(Conns)
      BY <2>0, <3>1, ScanFacts
    <3>3. sound' \subseteq Conns
      BY <2>0, <2>7 DEF Scan
    <3>4. QED
      BY <2>7, <3>2, <3>3 DEF Scan, TypeOK, server, ScannerPcs
  <2>8. CASE ScannerChecks \/ ScannerWakes
    BY <2>8 DEF ScannerChecks, ScannerWakes, TypeOK, server, ScannerPcs
  <2>9. ASSUME NEW c \in Clients, TakeConnection(c), calls' \in 0 .. MaxCalls PROVE TypeOK'
    BY <2>9, TakeTypes DEF TakeConnection, TypeOK, server
  <2>10. ASSUME NEW c \in Clients, AwaitConnection(c), calls' \in 0 .. MaxCalls PROVE TypeOK'
    BY <2>10 DEF AwaitConnection, TypeOK, server, ClientPcs
  <2>11. ASSUME NEW c \in Clients, GetConnect(c) PROVE TypeOK'
    <3>1. calls' \in 0 .. MaxCalls
      BY <2>0, <2>11 DEF GetConnect
    <3>2. QED
      BY <2>9, <2>10, <2>11, <3>1 DEF GetConnect
  <2>12. ASSUME NEW c \in Clients, Retry(c) PROVE TypeOK'
    BY <2>0, <2>9, <2>10, <2>12 DEF Retry
  <2>13. ASSUME NEW c \in Clients, AfterTimeout(c) PROVE TypeOK'
    <3>1. CASE TakeConnection(c)
      BY <2>0, <2>9, <2>13, <3>1 DEF AfterTimeout
    <3>2. CASE \E x \in Fresh : /\ Hand(c, x) /\ sound' = sound \cup {x} /\ WakeProducer
                                /\ UNCHANGED <<queue, server, running, spc, dpc, calls>>
      <4>1. PICK x \in Conns : /\ Hand(c, x) /\ sound' = sound \cup {x} /\ WakeProducer
                               /\ UNCHANGED <<queue, server, running, spc, dpc, calls>>
        BY <3>2, FreshFacts
      <4>2. held' \in [Clients -> Conns \cup {NoConn}]
        BY <4>1 DEF Hand, TypeOK
      <4>3. [cpc EXCEPT ![c] = "has"] \in [Clients -> ClientPcs]
        BY DEF TypeOK, ClientPcs
      <4>4. cpc' \in [Clients -> ClientPcs]
        BY <4>1, <4>3, WakeFacts DEF Hand
      <4>5. QED
        BY <4>1, <4>2, <4>4 DEF WakeProducer, TypeOK, server, ProducerPcs
    <3>3. CASE /\ cpc' = [cpc EXCEPT ![c] = "away"]
               /\ UNCHANGED <<queue, sound, server, running, ppc, spc, dpc, held, calls>>
      BY <3>3 DEF TypeOK, server, ClientPcs
    <3>4. QED
      BY <2>13, <3>1, <3>2, <3>3 DEF AfterTimeout
  <2>14. ASSUME NEW c \in Clients, ClientSpurious(c) \/ Timeout(c) PROVE TypeOK'
    BY <2>14 DEF ClientSpurious, Timeout, TypeOK, server, ClientPcs
  <2>15. ASSUME NEW c \in Clients, Release(c) PROVE TypeOK'
    <3>1. queue' \in Seq(Conns)
      <4>1. CASE held[c] \in sound
        BY <2>0, <2>15, <4>1, PushFacts DEF Release, PutBack
      <4>2. CASE held[c] \notin sound
        BY <2>0, <2>15, <4>2 DEF Release, PutBack
      <4>3. QED
        BY <4>1, <4>2
    <3>2. [cpc EXCEPT ![c] = "away"] \in [Clients -> ClientPcs]
      BY DEF TypeOK, ClientPcs
    <3>3. cpc' \in [Clients -> ClientPcs]
      BY <2>15, <3>2, WakeFacts DEF Release
    <3>4. held' \in [Clients -> Conns \cup {NoConn}]
      BY <2>15 DEF Release, PutBack, TypeOK
    <3>5. QED
      BY <2>15, <3>1, <3>3, <3>4 DEF Release, PutBack, WakeProducer, TypeOK, server, ProducerPcs
  <2>16. CASE UNCHANGED vars
    BY <2>16 DEF vars, server, TypeOK
  <2>17. QED
    BY <2>1, <2>2, <2>3, <2>4, <2>5, <2>6, <2>7, <2>8, <2>11, <2>12, <2>13, <2>14, <2>15,
       <2>16
    DEF Next, OwnerStep, ProducerStep, ScannerStep, ClientStep
<1>3. QED
  BY <1>1, <1>2, PTL DEF Spec

-----------------------------------------------------------------------------
(* Where the threads can be, given how far the owner is.                   *)

Shape ==
    /\ dpc # "open" => \A c \in Clients : cpc[c] = "away"
    /\ running <=> dpc \in {"building", "open"}
    /\ dpc \in {"join scanner", "gone"} => ppc = "done"

LEMMA ShapeHolds == Spec => []Shape
<1>1. Init => Shape
  BY DEF Init, Shape
<1>2. TypeOK /\ Shape /\ [Next]_vars => Shape'
  <2> SUFFICES ASSUME TypeOK, Shape, [Next]_vars PROVE Shape'
    OBVIOUS
  <2>0. ASSUME UNCHANGED <<running, ppc, dpc, cpc>> PROVE Shape'
    BY <2>0 DEF Shape
  <2>1. CASE ServerStep
    BY <2>0, <2>1 DEF ServerStep, ServerDown, ServerUp, DropConnection
  <2>2. CASE ConnectInitial
    BY <2>0, <2>2 DEF ConnectInitial
  <2>2a. CASE StartThreads \/ ClearRunning
    BY <2>2a DEF StartThreads, ClearRunning, Shape
  <2>2b. CASE NotifyAll \/ JoinProducer \/ JoinScanner
    <3>1. dpc \in {"cleared", "join producer", "join scanner"}
          /\ dpc' \in {"join producer", "join scanner", "gone"}
      BY <2>2b DEF NotifyAll, JoinProducer, JoinScanner
    <3>2. UNCHANGED <<running, cpc>>
      BY <2>2b DEF NotifyAll, JoinProducer, JoinScanner
    <3>3. dpc' \in {"join scanner", "gone"} => ppc' = "done"
      BY <2>2b DEF NotifyAll, JoinProducer, JoinScanner, Shape
    <3>4. QED
      BY <3>1, <3>2, <3>3 DEF Shape
  <2>3. CASE Produce
    <3>1. dpc = "open" \/ \A c \in Clients : cpc'[c] = "away"
      BY <2>3 DEF Produce, WakeClients, Shape
    <3>2. QED
      BY <2>3, <3>1 DEF Produce, server, Shape
  <2>4. CASE ProducerChecks \/ ProducerTests \/ ProducerWaits \/ ProducerLeaves \/ ProducerSpurious
    <3>1. UNCHANGED <<running, dpc, cpc>> /\ ppc # "done"
      BY <2>4 DEF ProducerChecks, ProducerTests, ProducerWaits, ProducerLeaves, ProducerSpurious
    <3>2. QED
      BY <3>1 DEF Shape
  <2>5. CASE ScannerStep
    BY <2>0, <2>5 DEF ScannerStep, ScannerChecks, ScannerWakes, Scan
  <2>6. ASSUME NEW c \in Clients, GetConnect(c) \/ ClientStep(c) \/ ClientSpurious(c) \/ Release(c)
        PROVE  Shape'
    <3>1. dpc = "open"
      BY <2>6 DEF GetConnect, ClientStep, Retry, Timeout, AfterTimeout, ClientSpurious, Release,
         Shape
    <3>2. running' = running /\ dpc' = dpc
      BY <2>6 DEF GetConnect, ClientStep, Retry, Timeout, AfterTimeout, ClientSpurious, Release,
         AwaitConnection, TakeConnection
    <3>3. QED
      BY <3>1, <3>2 DEF Shape
  <2>7. CASE UNCHANGED vars
    BY <2>7 DEF vars, Shape
  <2>8. QED
    BY <2>1, <2>2, <2>2a, <2>2b, <2>3, <2>4, <2>5, <2>6, <2>7
    DEF Next, OwnerStep, ProducerStep
<1>3. QED
  BY <1>1, <1>2, TypeCorrect, PTL DEF Spec

-----------------------------------------------------------------------------

\* No lost wake-up on the one condition variable that the producer and the
\* clients share: whoever makes the queue non-empty wakes the clients, and
\* whoever empties it wakes the producer.
THEOREM NoSleepThrough == Spec => []NobodySleepsThrough
<1>1. Init => NobodySleepsThrough
  BY DEF Init, NobodySleepsThrough
<1>2. TypeOK /\ Shape /\ NobodySleepsThrough /\ [Next]_vars => NobodySleepsThrough'
  <2> SUFFICES ASSUME TypeOK, Shape, NobodySleepsThrough, [Next]_vars
               PROVE  NobodySleepsThrough'
    OBVIOUS
  <2>0. /\ queue \in Seq(Conns) /\ InitSize \in Nat
        /\ queue # <<>> => \A c \in Clients : cpc[c] # "wait"
        /\ InitSize > 0 /\ ppc = "wait" => queue # <<>>
        /\ cpc \in [Clients -> ClientPcs]
    BY DbPoolAssumption DEF DbPoolAssumption, NobodySleepsThrough, TypeOK
  <2>1. CASE ServerStep
    BY <2>0, <2>1 DEF ServerStep, ServerDown, ServerUp, DropConnection, NobodySleepsThrough
  <2>2. CASE ConnectInitial
    <3>1. queue' # <<>>
      BY <2>0, <2>2, PushFacts, FreshFacts DEF ConnectInitial
    <3>2. \A c \in Clients : cpc'[c] # "wait"
      BY <2>2 DEF ConnectInitial, Shape
    <3>3. QED
      BY <3>1, <3>2 DEF NobodySleepsThrough
  <2>3. CASE StartThreads \/ ClearRunning \/ NotifyAll \/ JoinProducer
    BY <2>0, <2>3 DEF StartThreads, ClearRunning, NotifyAll, WakeProducer, JoinProducer,
       NobodySleepsThrough
  <2>4. CASE JoinScanner
    BY <2>4 DEF JoinScanner, Shape, NobodySleepsThrough
  <2>5. CASE Produce
    <3>1. \A c \in Clients : cpc'[c] # "wait"
      BY <2>0, <2>5, WakeFacts DEF Produce
    <3>2. QED
      BY <2>5, <3>1 DEF Produce, NobodySleepsThrough
  <2>6. CASE ProducerChecks \/ ProducerTests \/ ProducerWaits \/ ProducerLeaves \/ ProducerSpurious
    BY <2>0, <2>6 DEF ProducerChecks, ProducerTests, ProducerWaits, ProducerLeaves, ProducerSpurious,
       NobodySleepsThrough
  <2>7. CASE Scan
    <3>1. PICK n \in Surplus : queue' = SubSeq(queue, n + 1, Len(queue))
      BY <2>7 DEF Scan
    <3>2. Len(queue') = Len(queue) - n /\ Len(queue) \in Nat /\ n \in 0 .. Len(queue)
          /\ queue' \in Seq(Conns)
      BY <2>0, <3>1, ScanFacts, LenProperties DEF Surplus
    <3>3. queue' # <<>> => queue # <<>>
      BY <2>0, <3>2, EmptySeq
    <3>4. InitSize > 0 /\ queue # <<>> => queue' # <<>>
      <4>1. ASSUME InitSize > 0, queue # <<>> PROVE Len(queue) - n > 0
        <5>1. Len(queue) > 0
          BY <2>0, <4>1, EmptySeq
        <5>2. QED
          BY <2>0, <3>1, <3>2, <4>1, <5>1 DEF Surplus
      <4>2. Len(queue') > 0 => queue' # <<>>
        BY EmptySeq
      <4>3. QED
        BY <3>2, <4>1, <4>2
    <3>5. QED
      BY <2>0, <2>7, <3>3, <3>4 DEF Scan, NobodySleepsThrough
  <2>8. CASE ScannerChecks \/ ScannerWakes
    BY <2>0, <2>8 DEF ScannerChecks, ScannerWakes, NobodySleepsThrough
  <2>9. ASSUME NEW c \in Clients, TakeConnection(c) PROVE NobodySleepsThrough'
    <3>1. /\ [cpc EXCEPT ![c] = "has"] \in [Clients -> ClientPcs]
          /\ [cpc EXCEPT ![c] = "away"] \in [Clients -> ClientPcs]
      BY <2>0 DEF ClientPcs
    <3>2. \A d \in Clients : cpc'[d] # "wait"
      <4>1. (\E y : Gets(c, y)) \/ GivesUp(c)
        BY <2>9, TakeOutcome
      <4>2. \/ cpc' = WakeClients([cpc EXCEPT ![c] = "has"])
            \/ cpc' = WakeClients([cpc EXCEPT ![c] = "away"])
        BY <4>1 DEF Gets, GivesUp
      <4>3. /\ \A d \in Clients : WakeClients([cpc EXCEPT ![c] = "has"])[d] # "wait"
            /\ \A d \in Clients : WakeClients([cpc EXCEPT ![c] = "away"])[d] # "wait"
        BY <3>1, WakeFacts
      <4>4. QED
        BY <4>2, <4>3
    <3>3. ppc' # "wait"
      BY <2>9 DEF TakeConnection, WakeProducer
    <3>4. QED
      BY <3>2, <3>3 DEF NobodySleepsThrough
  <2>10. ASSUME NEW c \in Clients, AwaitConnection(c) PROVE NobodySleepsThrough'
    BY <2>0, <2>10 DEF AwaitConnection, NobodySleepsThrough
  <2>11. ASSUME NEW c \in Clients, AfterTimeout(c) PROVE NobodySleepsThrough'
    <3>1. CASE TakeConnection(c)
      BY <2>9, <3>1
    <3>2. CASE UNCHANGED queue /\ queue = <<>> /\ WakeProducer
      BY <2>0, <3>2 DEF WakeProducer, NobodySleepsThrough
    <3>3. CASE UNCHANGED <<queue, ppc>> /\ queue = <<>>
      BY <2>0, <3>3 DEF NobodySleepsThrough
    <3>4. QED
      BY <2>11, <3>1, <3>2, <3>3 DEF AfterTimeout
  <2>12. ASSUME NEW c \in Clients, ClientSpurious(c) \/ Timeout(c) PROVE NobodySleepsThrough'
    BY <2>0, <2>12 DEF ClientSpurious, Timeout, NobodySleepsThrough
  <2>13. ASSUME NEW c \in Clients, Release(c) PROVE NobodySleepsThrough'
    <3>1. [cpc EXCEPT ![c] = "away"] \in [Clients -> ClientPcs]
      BY <2>0 DEF ClientPcs
    <3>2. \A d \in Clients : cpc'[d] # "wait"
      BY <2>13, <3>1, WakeFacts DEF Release
    <3>3. ppc' # "wait"
      BY <2>13 DEF Release, WakeProducer
    <3>4. QED
      BY <3>2, <3>3 DEF NobodySleepsThrough
  <2>14. CASE UNCHANGED vars
    BY <2>0, <2>14 DEF vars, NobodySleepsThrough
  <2>15. QED
    BY <2>1, <2>2, <2>3, <2>4, <2>5, <2>6, <2>7, <2>8, <2>9, <2>10, <2>11, <2>12, <2>13, <2>14
    DEF Next, OwnerStep, ProducerStep, ScannerStep, ClientStep, GetConnect, Retry
<1>3. QED
  BY <1>1, <1>2, TypeCorrect, ShapeHolds, PTL DEF Spec

-----------------------------------------------------------------------------
(* The five things a step can do to the connections, seen from outside.    *)

HasPc(pcs) == {d \in Clients : pcs[d] = "has"}
Holders == HasPc(cpc)

Discards ==
    /\ Distinct(queue') /\ Range(queue') \subseteq Queued
    /\ held' = held /\ Holders' = Holders
    /\ dpc' = "gone" <=> dpc = "gone"
Makes(x) ==
    /\ x \in Fresh
    /\ Distinct(queue') /\ Range(queue') = Queued \cup {x}
    /\ held' = held /\ Holders' = Holders
    /\ dpc # "gone" /\ dpc' # "gone"
Lends(c, y) ==
    /\ y \in Fresh \cup Queued /\ y \in sound'
    /\ Distinct(queue') /\ Range(queue') \subseteq Queued \ {y}
    /\ c \notin Holders
    /\ held' = [held EXCEPT ![c] = y] /\ Holders' = Holders \cup {c}
    /\ dpc # "gone" /\ dpc' # "gone"
TakesBack(c) ==
    /\ c \in Holders
    /\ Distinct(queue') /\ Range(queue') \in {Queued, Queued \cup {held[c]}}
    /\ held' = [held EXCEPT ![c] = NoConn] /\ Holders' = Holders \ {c}
    /\ dpc # "gone" /\ dpc' # "gone"
Closes ==
    /\ queue' = <<>> /\ Holders = {}
    /\ held' = held /\ Holders' = Holders
    /\ dpc # "gone" /\ dpc' = "gone"

Kind ==
    \/ Discards \/ Closes
    \/ \E x \in Conns : Makes(x)
    \/ \E c \in Clients : TakesBack(c) \/ \E y \in Conns : Lends(c, y)

LEMMA HoldersAfter ==
    ASSUME NEW pcs \in [Clients -> ClientPcs], NEW c \in Clients
    PROVE  /\ HasPc(WakeClients(pcs)) = HasPc(pcs)
           /\ HasPc(WakeClients([pcs EXCEPT ![c] = "has"])) = HasPc(pcs) \cup {c}
           /\ HasPc(WakeClients([pcs EXCEPT ![c] = "away"])) = HasPc(pcs) \ {c}
           /\ \A p \in ClientPcs : p # "has" /\ pcs[c] # "has" =>
                 HasPc([pcs EXCEPT ![c] = p]) = HasPc(pcs)
<1>1. \A q \in [Clients -> ClientPcs] : HasPc(WakeClients(q)) = HasPc(q)
  BY DEF HasPc, WakeClients, ClientPcs
<1>2. /\ [pcs EXCEPT ![c] = "has"] \in [Clients -> ClientPcs]
      /\ [pcs EXCEPT ![c] = "away"] \in [Clients -> ClientPcs]
  BY DEF ClientPcs
<1>3. /\ HasPc([pcs EXCEPT ![c] = "has"]) = HasPc(pcs) \cup {c}
      /\ HasPc([pcs EXCEPT ![c] = "away"]) = HasPc(pcs) \ {c}
  BY DEF HasPc
<1>4. \A p \in ClientPcs : p # "has" /\ pcs[c] # "has" => HasPc([pcs EXCEPT ![c] = p]) = HasPc(pcs)
  BY DEF HasPc
<1>5. QED
  BY <1>1, <1>2, <1>3, <1>4

LEMMA TakeKind ==
    ASSUME TypeOK, OneOwner, dpc = "open", NEW c \in Clients, cpc[c] # "has", TakeConnection(c)
    PROVE  Kind
<1>1. /\ Distinct(queue') /\ Range(queue') \subseteq Queued \ {Head(queue)}
      /\ Head(queue) \in Queued /\ Head(queue) \in Conns
  BY PopFacts DEF TypeOK, OneOwner, Distinct, TakeConnection, Queued
<1>2. dpc # "gone" /\ dpc' # "gone" /\ c \notin Holders
  BY DEF TakeConnection, Holders, HasPc
<1>3. cpc \in [Clients -> ClientPcs] /\ "has" \in ClientPcs /\ "away" \in ClientPcs
  BY DEF TypeOK, ClientPcs
<1>4. CASE GivesUp(c)
  <2>1. Holders' = Holders \ {c}
    BY <1>3, <1>4, HoldersAfter DEF GivesUp, Holders
  <2>2. Discards
    BY <1>1, <1>2, <1>4, <2>1 DEF GivesUp, Discards, TakeConnection
  <2>3. QED
    BY <2>2 DEF Kind
<1>5. CASE \E y \in Fresh \cup {Head(queue)} : Gets(c, y)
  <2>1. PICK y \in Fresh \cup {Head(queue)} : Gets(c, y)
    BY <1>5
  <2>2. y \in Conns /\ y \in Fresh \cup Queued
    BY <1>1, FreshFacts
  <2>3. Range(queue') \subseteq Queued \ {y}
    BY <1>1, FreshFacts
  <2>4. Holders' = Holders \cup {c}
    BY <1>3, <2>1, HoldersAfter DEF Gets, Holders
  <2>5. Lends(c, y)
    BY <1>1, <1>2, <2>1, <2>2, <2>3, <2>4 DEF Gets, Lends
  <2>6. QED
    BY <2>2, <2>5 DEF Kind
<1>6. QED
  BY <1>4, <1>5, TakeOutcome

LEMMA StepKind == TypeOK /\ Shape /\ OneOwner /\ [Next]_vars => Kind
<1> SUFFICES ASSUME TypeOK, Shape, OneOwner, [Next]_vars PROVE Kind
  OBVIOUS
<1>0. /\ Distinct(queue) /\ queue \in Seq(Conns)
      /\ cpc \in [Clients -> ClientPcs] /\ ClientPcs = {"away", "lock", "wait", "timedout", "has"}
  BY DEF OneOwner, Distinct, TypeOK, ClientPcs
<1>1. ASSUME UNCHANGED <<queue, held, dpc>>, Holders' = Holders PROVE Kind
  BY <1>0, <1>1 DEF Discards, Kind, Queued
<1>2. ASSUME UNCHANGED <<queue, held, cpc>>, dpc # "gone", dpc' # "gone" PROVE Kind
  BY <1>0, <1>2 DEF Discards, Kind, Queued, Holders
<1>3. ASSUME NEW x \in Fresh, queue' = Append(queue, x), held' = held, Holders' = Holders,
             dpc' = dpc, dpc # "gone"
      PROVE  Kind
  <2>1. x \in Conns /\ x \notin Range(queue)
    BY FreshFacts DEF Queued
  <2>2. Distinct(queue') /\ Range(queue') = Queued \cup {x}
    BY <1>0, <1>3, <2>1, PushFacts DEF Queued
  <2>3. QED
    BY <1>3, <2>1, <2>2 DEF Makes, Kind
<1>4. CASE ServerStep
  BY <1>1, <1>4 DEF ServerStep, ServerDown, ServerUp, DropConnection, Holders
<1>5. CASE ConnectInitial
  BY <1>3, <1>5 DEF ConnectInitial, Holders
<1>6. CASE StartThreads \/ ClearRunning \/ NotifyAll \/ JoinProducer
  BY <1>2, <1>6 DEF StartThreads, ClearRunning, NotifyAll, JoinProducer
<1>7. CASE JoinScanner
  <2>1. Holders = {} /\ Holders' = Holders
    BY <1>7 DEF JoinScanner, Shape, Holders, HasPc
  <2>2. QED
    BY <1>7, <2>1 DEF JoinScanner, Closes, Kind
<1>8. CASE Produce
  <2>1. Holders' = Holders
    BY <1>0, <1>8, WakeFacts DEF Produce, Holders, HasPc
  <2>2. held' = held /\ dpc' = dpc /\ dpc # "gone"
    BY <1>8 DEF Produce, Shape
  <2>3. CASE queue' = queue
    BY <1>1, <2>1, <2>2, <2>3
  <2>4. CASE \E x \in Fresh : queue' = Append(queue, x)
    BY <1>3, <2>1, <2>2, <2>4
  <2>5. QED
    BY <1>8, <2>3, <2>4 DEF Produce
<1>9. CASE ProducerChecks \/ ProducerTests \/ ProducerWaits \/ ProducerLeaves \/ ProducerSpurious
  BY <1>1, <1>9 DEF ProducerChecks, ProducerTests, ProducerWaits, ProducerLeaves, ProducerSpurious, Holders
<1>10. CASE Scan
  <2>1. PICK n \in 0 .. Len(queue) : queue' = SubSeq(queue, n + 1, Len(queue))
    BY <1>10 DEF Scan, Surplus
  <2>2. Distinct(queue') /\ Range(queue') \subseteq Queued
    BY <1>0, <2>1, ScanFacts DEF Queued
  <2>3. QED
    BY <1>10, <2>2 DEF Scan, Discards, Kind, Holders
<1>11. CASE ScannerChecks \/ ScannerWakes
  BY <1>1, <1>11 DEF ScannerChecks, ScannerWakes, Holders
<1>12. ASSUME NEW c \in Clients, NEW p \in ClientPcs, p # "has", cpc[c] # "has",
              cpc' = [cpc EXCEPT ![c] = p], UNCHANGED <<queue, held, dpc>>
       PROVE  Kind
  <2>1. Holders' = Holders
    <3>1. HasPc([cpc EXCEPT ![c] = p]) = HasPc(cpc)
      BY <1>0, <1>12 DEF HasPc
    <3>2. QED
      BY <1>12, <3>1 DEF Holders, HasPc
  <2>2. QED
    BY <1>1, <1>12, <2>1
<1>13. ASSUME NEW c \in Clients, GetConnect(c) \/ Retry(c) PROVE Kind
  <2>1. dpc = "open" /\ cpc[c] # "has"
    BY <1>13 DEF GetConnect, Retry, Shape
  <2>2. CASE TakeConnection(c)
    BY <2>1, <2>2, TakeKind
  <2>3. CASE AwaitConnection(c)
    BY <1>0, <1>12, <2>1, <2>3 DEF AwaitConnection
  <2>4. QED
    BY <1>13, <2>2, <2>3 DEF GetConnect, Retry
<1>14. ASSUME NEW c \in Clients, ClientSpurious(c) \/ Timeout(c) PROVE Kind
  BY <1>0, <1>12, <1>14 DEF ClientSpurious, Timeout
<1>15. ASSUME NEW c \in Clients, AfterTimeout(c) PROVE Kind
  <2>1. dpc = "open" /\ cpc[c] # "has"
    BY <1>15 DEF AfterTimeout, Shape
  <2>2. CASE TakeConnection(c)
    BY <2>1, <2>2, TakeKind
  <2>3. CASE \E x \in Fresh : /\ Hand(c, x) /\ sound' = sound \cup {x}
                              /\ queue = <<>> /\ UNCHANGED <<queue, dpc>>
    <3>1. PICK x \in Fresh : /\ Hand(c, x) /\ sound' = sound \cup {x}
                             /\ queue = <<>> /\ UNCHANGED <<queue, dpc>>
      BY <2>3
    <3>2. x \in Conns /\ x \notin Queued
      BY FreshFacts
    <3>3. Holders' = Holders \cup {c} /\ c \notin Holders
      <4>1. c \notin Holders
        BY <2>1 DEF Holders, HasPc
      <4>2. QED
        BY <1>0, <3>1, <4>1, HoldersAfter, ZenonT(60) DEF Hand, Holders
    <3>4. Lends(c, x)
      BY <1>0, <2>1, <3>1, <3>2, <3>3 DEF Hand, Lends, Queued
    <3>5. QED
      BY <3>2, <3>4 DEF Kind
  <2>4. CASE cpc' = [cpc EXCEPT ![c] = "away"] /\ UNCHANGED <<queue, held, dpc>>
    BY <1>0, <1>12, <2>1, <2>4
  <2>5. QED
    BY <1>15, <2>2, <2>3, <2>4 DEF AfterTimeout
<1>16. ASSUME NEW c \in Clients, Release(c) PROVE Kind
  <2>1. c \in Holders /\ dpc = "open" /\ dpc' = dpc
    BY <1>16 DEF Release, Shape, Holders, HasPc
  <2>2. Holders' = Holders \ {c}
    BY <1>0, <1>16, HoldersAfter, ZenonT(60) DEF Release, Holders
  <2>3. held[c] \in Conns /\ held[c] \notin Queued
    BY <2>1 DEF OneOwner, TypeOK, Holders, HasPc, Lent
  <2>4. Distinct(queue') /\ Range(queue') \in {Queued, Queued \cup {held[c]}}
    BY <1>0, <1>16, <2>3, PushFacts DEF Release, PutBack, Queued
  <2>5. TakesBack(c)
    BY <1>16, <2>1, <2>2, <2>4 DEF Release, PutBack, TakesBack
  <2>6. QED
    BY <2>5 DEF Kind
<1>17. CASE UNCHANGED vars
  BY <1>1, <1>17 DEF vars, Holders
<1>18. QED
  BY <1>4, <1>5, <1>6, <1>7, <1>8, <1>9, <1>10, <1>11, <1>13, <1>14, <1>15, <1>16, <1>17
  DEF Next, OwnerStep, ProducerStep, ScannerStep, ClientStep

-----------------------------------------------------------------------------

\* A connection is idle once or lent to one client, never both, and a client
\* that came back with one has one: each of the five kinds of step keeps it.
THEOREM OwnedOnce == Spec => []OneOwner
<1>1. Init => OneOwner
  <2> SUFFICES ASSUME Init PROVE OneOwner
    OBVIOUS
  <2>1. queue = <<>> /\ DOMAIN queue = {}
    BY DEF Init
  <2>2. Lent = {} /\ \A c \in Clients : cpc[c] # "has" /\ held[c] = NoConn
    BY DEF Init, Lent
  <2>3. QED
    BY <2>1, <2>2 DEF OneOwner
<1>2. TypeOK /\ Shape /\ OneOwner /\ [Next]_vars => OneOwner'
  <2> SUFFICES ASSUME TypeOK, OneOwner, Kind PROVE OneOwner'
    BY StepKind
  <2>0. /\ Queued \cap Lent = {} /\ held \in [Clients -> Conns \cup {NoConn}]
        /\ \A c, d \in Clients : held[c] = held[d] /\ held[c] # NoConn => c = d
        /\ \A c \in Clients : c \in Holders <=> held[c] # NoConn
        /\ NoConn \notin Conns /\ Queued \subseteq Conns
        /\ \A c \in Clients : held[c] # NoConn => held[c] \in Lent
    BY DbPoolAssumption, QueuedConns DEF DbPoolAssumption, OneOwner, TypeOK, Holders, HasPc, Lent
  <2>1. ASSUME Distinct(queue'), Queued' \cap Lent' = {},
               \A c, d \in Clients : held'[c] = held'[d] /\ held'[c] # NoConn => c = d,
               \A c \in Clients : c \in Holders' <=> held'[c] # NoConn
        PROVE  OneOwner'
    BY <2>1 DEF OneOwner, Distinct, Holders, HasPc
  <2>2. CASE Discards
    BY <2>0, <2>1, <2>2 DEF Discards, Queued, Lent
  <2>3. CASE Closes
    <3>1. queue' = <<>> /\ DOMAIN queue' = {}
      BY <2>3 DEF Closes
    <3>2. Distinct(queue') /\ Queued' = {}
      BY <3>1 DEF Distinct, Queued, Range
    <3>3. QED
      BY <2>0, <2>1, <2>3, <3>2 DEF Closes
  <2>4. ASSUME NEW x \in Conns, Makes(x) PROVE OneOwner'
    <3>1. Queued' = Queued \cup {x} /\ x \notin Lent /\ Lent' = Lent
      BY <2>4, FreshFacts DEF Makes, Queued, Lent
    <3>2. QED
      BY <2>0, <2>1, <2>4, <3>1 DEF Makes
  <2>5. ASSUME NEW c \in Clients, TakesBack(c) PROVE OneOwner'
    <3>1. held'[c] = NoConn /\ \A d \in Clients : d # c => held'[d] = held[d]
      BY <2>0, <2>5 DEF TakesBack
    <3>2. Queued' \subseteq Queued \cup {held[c]} /\ held[c] # NoConn
      BY <2>0, <2>5 DEF TakesBack, Queued
    <3>3. Lent' \subseteq Lent \ {held[c]}
      BY <2>0, <3>1, <3>2 DEF Lent
    <3>4. QED
      BY <2>0, <2>1, <2>5, <3>1, <3>2, <3>3 DEF TakesBack
  <2>6. ASSUME NEW c \in Clients, NEW y \in Conns, Lends(c, y) PROVE OneOwner'
    <3>1. held'[c] = y /\ (\A d \in Clients : d # c => held'[d] = held[d]) /\ held[c] = NoConn
      BY <2>0, <2>6 DEF Lends
    <3>2. y \notin Lent /\ y # NoConn /\ Queued' \subseteq Queued \ {y}
      BY <2>0, <2>6, FreshFacts DEF Lends, Queued
    <3>3. Lent' \subseteq Lent \cup {y}
      BY <3>1 DEF Lent
    <3>4. \A d \in Clients : held[d] # y
      BY <2>0, <3>2
    <3>5. QED
      BY <2>0, <2>1, <2>6, <3>1, <3>2, <3>3, <3>4 DEF Lends
  <2>7. QED
    BY <2>2, <2>3, <2>4, <2>5, <2>6 DEF Kind
<1>3. QED
  BY <1>1, <1>2, TypeCorrect, ShapeHolds, PTL DEF Spec

-----------------------------------------------------------------------------

\* What get_connect returns is valid, or was just reset or made.
THEOREM HandedOutSound == Spec => HandsOutSound
<1>1. TypeOK /\ Shape /\ OneOwner /\ [Next]_vars =>
        [\A c \in Clients : cpc[c] # "has" /\ cpc'[c] = "has" => held'[c] \in sound']_vars
  <2> SUFFICES ASSUME TypeOK, Kind, NEW c \in Clients, cpc[c] # "has", cpc'[c] = "has"
               PROVE  held'[c] \in sound'
    BY StepKind
  <2>1. c \notin Holders /\ c \in Holders'
    BY DEF Holders, HasPc
  <2>2. \E y \in Conns : Lends(c, y)
    BY <2>1 DEF Kind, Discards, Makes, TakesBack, Lends, Closes
  <2>3. QED
    BY <2>2 DEF Lends, TypeOK
<1>2. QED
  BY <1>1, TypeCorrect, ShapeHolds, OwnedOnce, PTL DEF Spec, HandsOutSound

-----------------------------------------------------------------------------

LendOut(h) == {h[c] : c \in Clients} \ {NoConn}
BorrowerIn(h) ==
    [x \in Conns |-> IF x \in LendOut(h) THEN CHOOSE c \in Clients : h[c] = x ELSE NoConn]

LEMMA BorrowerFacts ==
    ASSUME NEW h \in [Clients -> Conns \cup {NoConn}],
           \A c, d \in Clients : h[c] = h[d] /\ h[c] # NoConn => c = d
    PROVE  /\ \A x \in Conns, c \in Clients : BorrowerIn(h)[x] = c <=> h[c] = x
           /\ \A x \in Conns : BorrowerIn(h)[x] = NoConn <=> \A c \in Clients : h[c] # x
           /\ \A x \in Conns : BorrowerIn(h)[x] \in Clients \cup {NoConn}
<1>1. NoConn \notin Conns /\ NoConn \notin Clients
  BY DbPoolAssumption DEF DbPoolAssumption
<1> SUFFICES ASSUME NEW x \in Conns
             PROVE  /\ \A c \in Clients : BorrowerIn(h)[x] = c <=> h[c] = x
                    /\ BorrowerIn(h)[x] = NoConn <=> \A c \in Clients : h[c] # x
                    /\ BorrowerIn(h)[x] \in Clients \cup {NoConn}
  OBVIOUS
<1>2. CASE \E c \in Clients : h[c] = x
  <2>1. PICK c \in Clients : h[c] = x
    BY <1>2
  <2>2. x \in LendOut(h)
    BY <1>1, <2>1 DEF LendOut
  <2>3. \A d \in Clients : h[d] = x => d = c
    BY <1>1, <2>1
  <2>4. (CHOOSE d \in Clients : h[d] = x) = c
    BY <2>1, <2>3
  <2>5. BorrowerIn(h)[x] = c
    BY <2>2, <2>4 DEF BorrowerIn
  <2>6. QED
    BY <1>1, <2>1, <2>3, <2>5
<1>3. CASE \A c \in Clients : h[c] # x
  <2>1. x \notin LendOut(h)
    BY <1>3 DEF LendOut
  <2>2. BorrowerIn(h)[x] = NoConn
    BY <2>1 DEF BorrowerIn
  <2>3. QED
    BY <1>1, <1>3, <2>2
<1>4. QED
  BY <1>2, <1>3

\* The pool implements the abstract pool that lends: every behaviour of it,
\* seen through who is idle and who has what, is one of LendingPool.
THEOREM PoolLends == Spec => ImplementsLending
<1> USE DEF Lending!Unused
<1>1. Init => Lending!Init
  <2> SUFFICES ASSUME Init PROVE Lending!Init
    OBVIOUS
  <2>1. Queued = {} /\ Lent = {} /\ dpc # "gone"
    BY DEF Init, Queued, Range, Lent
  <2>2. Borrower = [x \in Conns |-> NoConn]
    BY <2>1 DEF Borrower
  <2>3. QED
    BY <2>1, <2>2 DEF Lending!Init
<1>2. TypeOK /\ TypeOK' /\ Shape /\ OneOwner /\ OneOwner' /\ [Next]_vars
        => [Lending!Next]_(Lending!vars)
  <2> SUFFICES ASSUME TypeOK, TypeOK', OneOwner, OneOwner', Kind
               PROVE  [Lending!Next]_(Lending!vars)
    BY StepKind
  <2>0. /\ Queued \subseteq Conns /\ NoConn \notin Conns /\ NoConn \notin Clients
        /\ held \in [Clients -> Conns \cup {NoConn}]
        /\ held' \in [Clients -> Conns \cup {NoConn}]
        /\ \A c \in Clients : c \in Holders <=> held[c] # NoConn
        /\ \A c, d \in Clients : held[c] = held[d] /\ held[c] # NoConn => c = d
        /\ \A c, d \in Clients : held'[c] = held'[d] /\ held'[c] # NoConn => c = d
        /\ Queued \cap Lent = {}
    BY DbPoolAssumption, QueuedConns
    DEF DbPoolAssumption, TypeOK, OneOwner, Holders, HasPc
  <2>1. Borrower = BorrowerIn(held) /\ Borrower' = BorrowerIn(held')
    BY DEF Borrower, BorrowerIn, Lent, LendOut
  <2>2. /\ \A x \in Conns, c \in Clients : Borrower[x] = c <=> held[c] = x
        /\ \A x \in Conns : Borrower[x] = NoConn <=> \A c \in Clients : held[c] # x
        /\ \A x \in Conns : Borrower[x] \in Clients \cup {NoConn}
    BY <2>0, <2>1, BorrowerFacts
  <2>3. /\ \A x \in Conns, c \in Clients : Borrower'[x] = c <=> held'[c] = x
        /\ \A x \in Conns : Borrower'[x] = NoConn <=> \A c \in Clients : held'[c] # x
        /\ \A x \in Conns : Borrower'[x] \in Clients \cup {NoConn}
    BY <2>0, <2>1, BorrowerFacts
  <2>4. held' = held => Borrower' = Borrower
    BY <2>1
  <2>5. CASE Discards
    <3>1. Lending!Shrink(Queued \ Queued')
      BY <2>4, <2>5 DEF Discards, Lending!Shrink, Queued
    <3>2. Queued \ Queued' \in SUBSET Queued
      OBVIOUS
    <3>3. QED
      BY <3>1, <3>2 DEF Lending!Next
  <2>6. CASE Closes
    <3>1. Queued' = {}
      BY <2>6 DEF Closes, Queued, Range
    <3>2. \A x \in Conns : Borrower[x] = NoConn
      BY <2>0, <2>2, <2>6 DEF Closes
    <3>3. Lending!Close
      BY <2>4, <2>6, <3>1, <3>2 DEF Closes, Lending!Close
    <3>4. QED
      BY <3>3 DEF Lending!Next
  <2>7. ASSUME NEW x \in Conns, Makes(x) PROVE Lending!Grow(x)
    <3>1. x \notin Queued /\ x \notin Lent
      BY <2>7, FreshFacts DEF Makes
    <3>2. \A c \in Clients : held[c] # x
      BY <2>0, <3>1 DEF Lent
    <3>3. QED
      BY <2>2, <2>4, <2>7, <3>1, <3>2 DEF Makes, Lending!Grow, Queued
  <2>8. ASSUME NEW c \in Clients, TakesBack(c) PROVE Lending!Return(held[c]) /\ held[c] \in Conns
    <3>1. held[c] \in Conns
      BY <2>0, <2>8 DEF TakesBack
    <3>2. Borrower[held[c]] = c
      BY <2>2, <3>1
    <3>3. Borrower' = [Borrower EXCEPT ![held[c]] = NoConn]
      <4>1. held'[c] = NoConn /\ \A d \in Clients : d # c => held'[d] = held[d]
        BY <2>0, <2>8 DEF TakesBack
      <4>2. Borrower'[held[c]] = NoConn
        BY <2>0, <2>3, <3>1, <4>1
      <4>3. \A x \in Conns : x # held[c] => Borrower'[x] = Borrower[x]
        BY <2>0, <2>2, <2>3, <4>1
      <4>4. QED
        BY <2>1, <4>2, <4>3 DEF BorrowerIn
    <3>4. QED
      BY <2>0, <2>8, <3>1, <3>2, <3>3 DEF TakesBack, Lending!Return, Queued
  <2>9. ASSUME NEW c \in Clients, NEW y \in Conns, Lends(c, y)
        PROVE  Lending!Lend(c, y, Queued \ Queued')
    <3>1. held[c] = NoConn /\ held'[c] = y /\ \A d \in Clients : d # c => held'[d] = held[d]
      BY <2>0, <2>9 DEF Lends
    <3>2. \A d \in Clients : held[d] # y
      <4>1. y \notin Lent
        BY <2>0, <2>9, FreshFacts DEF Lends
      <4>2. QED
        BY <2>0, <4>1 DEF Lent
    <3>3. \A x \in Conns : Borrower[x] # c
      BY <2>0, <2>2, <3>1
    <3>4. y \in Queued \cup {r \in Conns : r \notin Queued /\ Borrower[r] = NoConn}
      BY <2>2, <3>2
    <3>5. Borrower' = [Borrower EXCEPT ![y] = c]
      <4>1. Borrower'[y] = c
        BY <2>3, <3>1
      <4>2. \A x \in Conns : x # y => Borrower'[x] = Borrower[x]
        <5> SUFFICES ASSUME NEW x \in Conns, x # y PROVE Borrower'[x] = Borrower[x]
          OBVIOUS
        <5>1. held[c] # x /\ held'[c] # x
          BY <2>0, <3>1
        <5>2. \A d \in Clients : held'[d] = x <=> held[d] = x
          BY <3>1, <5>1
        <5>3. CASE \E d \in Clients : held[d] = x
          BY <2>2, <2>3, <5>2, <5>3
        <5>4. CASE \A d \in Clients : held[d] # x
          <6>1. Borrower[x] = NoConn
            BY <2>2, <5>4
          <6>2. Borrower'[x] = NoConn
            BY <2>3, <5>2, <5>4
          <6>3. QED
            BY <6>1, <6>2
        <5>5. QED
          BY <5>3, <5>4
      <4>3. QED
        <5>1. /\ Borrower = [x \in Conns |-> Borrower[x]]
              /\ Borrower' = [x \in Conns |-> Borrower'[x]]
          BY DEF Borrower
        <5>2. QED
          BY <4>1, <4>2, <5>1
    <3>6. Queued' = (Queued \ (Queued \ Queued')) \ {y}
      BY <2>9 DEF Lends, Queued
    <3>7. QED
      BY <2>9, <3>3, <3>4, <3>5, <3>6 DEF Lends, Lending!Lend
  <2>10. QED
    BY <2>5, <2>6, <2>7, <2>8, <2>9 DEF Kind, Lending!Next
<1>3. QED
  BY <1>1, <1>2, TypeCorrect, ShapeHolds, OwnedOnce, PTL
  DEF Spec, ImplementsLending, Lending!Spec

=============================================================================
