---------------------------- MODULE DatabasePool ----------------------------
(***************************************************************************)
(* database_pool of include/MSTL/ext/database_pool.hpp: a queue of idle    *)
(* connections under queue_mtx_, a producer and a scanner thread, clients  *)
(* that call get_connect and drop the shared_ptr they get, and the owner   *)
(* that runs the constructor and the destructor. One condition variable,   *)
(* cv_, serves producer and clients alike.                                 *)
(*                                                                         *)
(* Code under queue_mtx_ that does not wait is one action (create_connect  *)
(* runs with the mutex held); the reads of running_ outside it and the two *)
(* unlocked steps of the destructor are actions of their own.              *)
(***************************************************************************)
EXTENDS Naturals, Sequences, FiniteSets, Functions

CONSTANTS
    Conns,      \* bound: the connection objects; a deleted one may be reused
    Clients,    \* threads that call get_connect
    InitSize,   \* init_size_
    MaxSize,    \* max_size_
    MaxCalls,   \* bound: calls of get_connect
    MaxFaults,  \* bound: how often the server goes down or drops a connection
    NoConn      \* the null shared_ptr

ASSUME DbPoolAssumption ==
    /\ IsFiniteSet(Conns) /\ NoConn \notin Conns \cup Clients
    /\ InitSize \in Nat /\ MaxSize \in Nat /\ MaxCalls \in Nat /\ MaxFaults \in Nat

VARIABLES
    queue,    \* connect_queue_
    sound,    \* the connections for which is_valid() returns true
    up,       \* the server accepts connections
    running,  \* running_
    ppc,      \* where produce_connect_task is
    spc,      \* where scanner_connect_task is
    dpc,      \* where the constructor or the destructor is
    cpc,      \* where each client is in get_connect
    held,     \* the connection each client's shared_ptr owns
    calls,    \* calls of get_connect so far (bounded by MaxCalls)
    faults    \* faults of the server so far (bounded by MaxFaults)

server == <<up, faults>>
vars == <<queue, sound, server, running, ppc, spc, dpc, cpc, held, calls>>

ProducerPcs == {"off", "check", "lock", "wait", "woken", "done"}
ScannerPcs  == {"off", "check", "sleep", "lock", "done"}
OwnerPcs    == {"building", "open", "cleared", "join producer", "join scanner", "gone"}
ClientPcs   == {"away", "lock", "wait", "timedout", "has"}

Queued == Range(queue)
Lent   == {held[c] : c \in Clients} \ {NoConn}
Alive  == Queued \cup Lent

-----------------------------------------------------------------------------
(* A definition named ..._<bug> is not part of the model: it is a plausible*)
(* bug in the definition after it, with which the properties are tested.   *)

(* cv_.notify_all(): every waiter goes back to relocking queue_mtx_.       *)
WakeProducer_forgotten == UNCHANGED ppc
WakeProducer == ppc' = IF ppc = "wait" THEN "woken" ELSE ppc

WakeClients_forgotten(pcs) == pcs
WakeClients(pcs) == [c \in Clients |-> IF pcs[c] = "wait" THEN "lock" ELSE pcs[c]]

(* The comparison with max_size_: of the idle connections only.            *)
HasRoom_reversed == Len(queue) > MaxSize
HasRoom == Len(queue) < MaxSize

(* Where a newly made connection may lie: at no living one's address.      *)
Fresh_any == Conns
Fresh == Conns \ Alive

Init ==
    /\ queue = <<>> /\ sound = {} /\ up = TRUE /\ faults = 0
    /\ running = TRUE
    /\ ppc = "off" /\ spc = "off" /\ dpc = "building"
    /\ cpc = [c \in Clients |-> "away"] /\ held = [c \in Clients |-> NoConn]
    /\ calls = 0

-----------------------------------------------------------------------------
(* The database server (external): a create_connect or reset_connect       *)
(* succeeds while it is up.                                                *)

ServerDown ==
    /\ up /\ faults < MaxFaults
    /\ up' = FALSE /\ sound' = {} /\ faults' = faults + 1
    /\ UNCHANGED <<queue, running, ppc, spc, dpc, cpc, held, calls>>

ServerUp ==
    /\ ~up
    /\ up' = TRUE
    /\ UNCHANGED <<queue, sound, faults, running, ppc, spc, dpc, cpc, held, calls>>

DropConnection(x) ==
    /\ x \in sound /\ faults < MaxFaults
    /\ sound' = sound \ {x} /\ faults' = faults + 1
    /\ UNCHANGED <<queue, up, running, ppc, spc, dpc, cpc, held, calls>>

-----------------------------------------------------------------------------
(* The constructor: it retries until init_size_ connections exist.         *)

ConnectInitial ==
    /\ dpc = "building" /\ Len(queue) < InitSize /\ up
    /\ \E x \in Fresh : queue' = Append(queue, x) /\ sound' = sound \cup {x}
    /\ UNCHANGED <<server, running, ppc, spc, dpc, cpc, held, calls>>

StartThreads ==
    /\ dpc = "building" /\ Len(queue) = InitSize
    /\ dpc' = "open" /\ ppc' = "check" /\ spc' = "check"
    /\ UNCHANGED <<queue, sound, server, running, cpc, held, calls>>

(* The destructor; the client threads are done with the pool by then.      *)
ClearRunning ==
    /\ dpc = "open" /\ \A c \in Clients : cpc[c] = "away"
    /\ running' = FALSE /\ dpc' = "cleared"
    /\ UNCHANGED <<queue, sound, server, ppc, spc, cpc, held, calls>>

NotifyAll ==
    /\ dpc = "cleared"
    /\ WakeProducer /\ dpc' = "join producer"
    /\ UNCHANGED <<queue, sound, server, running, spc, cpc, held, calls>>

JoinProducer ==
    /\ dpc = "join producer" /\ ppc = "done"
    /\ dpc' = "join scanner"
    /\ UNCHANGED <<queue, sound, server, running, ppc, spc, cpc, held, calls>>

JoinScanner ==
    /\ dpc = "join scanner" /\ spc = "done"
    /\ dpc' = "gone"
    /\ queue' = <<>> /\ sound' = sound \ Queued
    /\ UNCHANGED <<server, running, ppc, spc, cpc, held, calls>>

-----------------------------------------------------------------------------
(* produce_connect_task.                                                   *)

ProducerChecks ==
    /\ ppc = "check"
    /\ ppc' = IF running THEN "lock" ELSE "done"
    /\ UNCHANGED <<queue, sound, server, running, spc, dpc, cpc, held, calls>>

(* Relocked: the test of running_ before the next wait. The destructor may *)
(* clear and notify between the two; nobody else may, and as the test reads*)
(* nothing that queue_mtx_ guards, it is put before the lock.              *)
ProducerTests ==
    /\ ppc = "woken" /\ running
    /\ ppc' = "lock"
    /\ UNCHANGED <<queue, sound, server, running, spc, dpc, cpc, held, calls>>

ProducerWaits ==
    /\ ppc = "lock" /\ queue # <<>>
    /\ ppc' = "wait"
    /\ UNCHANGED <<queue, sound, server, running, spc, dpc, cpc, held, calls>>

ProducerLeaves ==
    /\ ppc = "woken" \/ (ppc = "lock" /\ queue = <<>>)
    /\ ~running
    /\ ppc' = "done"
    /\ UNCHANGED <<queue, sound, server, running, spc, dpc, cpc, held, calls>>

Produce ==
    /\ ppc = "lock" /\ running /\ queue = <<>>
    /\ IF HasRoom /\ up
         THEN \E x \in Fresh : queue' = Append(queue, x) /\ sound' = sound \cup {x}
         ELSE UNCHANGED <<queue, sound>>
    /\ cpc' = WakeClients(cpc)
    /\ ppc' = "check"
    /\ UNCHANGED <<server, running, spc, dpc, held, calls>>

ProducerSpurious ==
    /\ ppc = "wait" /\ ppc' = "woken"
    /\ UNCHANGED <<queue, sound, server, running, spc, dpc, cpc, held, calls>>

-----------------------------------------------------------------------------
(* scanner_connect_task: the n front connections have been idle too long.  *)

ScannerChecks ==
    /\ spc = "check"
    /\ spc' = IF running THEN "sleep" ELSE "done"
    /\ UNCHANGED <<queue, sound, server, running, ppc, dpc, cpc, held, calls>>

ScannerWakes ==
    /\ spc = "sleep"
    /\ spc' = IF running THEN "lock" ELSE "done"
    /\ UNCHANGED <<queue, sound, server, running, ppc, dpc, cpc, held, calls>>

Surplus == {n \in 0 .. Len(queue) : n = 0 \/ Len(queue) - n >= InitSize}

Scan ==
    /\ spc = "lock"
    /\ \E n \in Surplus :
          /\ queue' = SubSeq(queue, n + 1, Len(queue))
          /\ sound' = sound \ {queue[i] : i \in 1 .. n}
    /\ spc' = "check"
    /\ UNCHANGED <<server, running, ppc, dpc, cpc, held, calls>>

-----------------------------------------------------------------------------
(* get_connect of client c.                                                *)

AwaitConnection(c) ==
    /\ queue = <<>>
    /\ cpc' = [cpc EXCEPT ![c] = "wait"]
    /\ UNCHANGED <<queue, sound, server, running, ppc, spc, dpc, held>>

(* What becomes of x, the connection at the front: handed out when valid   *)
(* or reset; else deleted and a new one handed out, or null.               *)
Hand(c, x) ==
    /\ cpc' = WakeClients([cpc EXCEPT ![c] = "has"])
    /\ held' = [held EXCEPT ![c] = x]
HandNull(c) ==
    /\ cpc' = WakeClients([cpc EXCEPT ![c] = "away"])
    /\ UNCHANGED held

Validate_skipped(c, x) == Hand(c, x) /\ UNCHANGED sound
Validate(c, x) ==
    \/ x \in sound /\ Hand(c, x) /\ UNCHANGED sound
    \/ x \notin sound /\ up /\ Hand(c, x) /\ sound' = sound \cup {x}
    \/ /\ x \notin sound /\ up                 \* reset_connect fails once
       /\ \E y \in Fresh \cup {x} : Hand(c, y) /\ sound' = sound \cup {y}
    \/ x \notin sound /\ HandNull(c) /\ UNCHANGED sound   \* no server, or a throw

TakeConnection(c) ==
    /\ queue # <<>>
    /\ queue' = Tail(queue)
    /\ Validate(c, Head(queue))
    /\ WakeProducer
    /\ UNCHANGED <<server, running, spc, dpc>>

GetConnect(c) ==
    /\ dpc = "open" /\ cpc[c] = "away" /\ calls < MaxCalls
    /\ calls' = calls + 1
    /\ AwaitConnection(c) \/ TakeConnection(c)

(* Notified, or woken spuriously: test the queue again, wait again.        *)
Retry(c) ==
    /\ cpc[c] = "lock"
    /\ AwaitConnection(c) \/ TakeConnection(c)
    /\ UNCHANGED calls

ClientSpurious(c) ==
    /\ cpc[c] = "wait"
    /\ cpc' = [cpc EXCEPT ![c] = "lock"]
    /\ UNCHANGED <<queue, sound, server, running, ppc, spc, dpc, held, calls>>

Timeout(c) ==
    /\ cpc[c] = "wait"
    /\ cpc' = [cpc EXCEPT ![c] = "timedout"]
    /\ UNCHANGED <<queue, sound, server, running, ppc, spc, dpc, held, calls>>

(* connect_timeout_ is over and the mutex relocked: the client makes a     *)
(* connection, pushes it and pops it again, or gives up.                   *)
AfterTimeout(c) ==
    /\ cpc[c] = "timedout"
    /\ \/ TakeConnection(c)
       \/ /\ queue = <<>> /\ HasRoom /\ up
          /\ \E x \in Fresh : Hand(c, x) /\ sound' = sound \cup {x}
          /\ WakeProducer
          /\ UNCHANGED <<queue, server, running, spc, dpc>>
       \/ /\ queue = <<>> /\ ~(HasRoom /\ up)
          /\ cpc' = [cpc EXCEPT ![c] = "away"]
          /\ UNCHANGED <<queue, sound, server, running, ppc, spc, dpc, held>>
    /\ UNCHANGED calls

(* The last copy of the shared_ptr dies: its deleter runs.                 *)
PutBack_copied(c) ==
    /\ queue' = Append(queue, held[c])
    /\ UNCHANGED <<held, sound>>
PutBack(c) ==
    /\ held' = [held EXCEPT ![c] = NoConn]
    /\ queue' = IF held[c] \in sound THEN Append(queue, held[c]) ELSE queue
    /\ sound' = sound

Release(c) ==
    /\ cpc[c] = "has"
    /\ PutBack(c)
    /\ cpc' = WakeClients([cpc EXCEPT ![c] = "away"])
    /\ WakeProducer
    /\ UNCHANGED <<server, running, spc, dpc, calls>>

-----------------------------------------------------------------------------

ServerStep   == ServerDown \/ ServerUp \/ \E x \in Conns : DropConnection(x)
OwnerStep    == ConnectInitial \/ StartThreads \/ NotifyAll \/ JoinProducer \/ JoinScanner
ProducerStep == ProducerChecks \/ ProducerTests \/ ProducerWaits \/ ProducerLeaves \/ Produce
ScannerStep  == ScannerChecks \/ ScannerWakes \/ Scan
ClientStep(c) == Retry(c) \/ Timeout(c) \/ AfterTimeout(c)

Next ==
    \/ ServerStep \/ OwnerStep \/ ClearRunning
    \/ ProducerStep \/ ProducerSpurious \/ ScannerStep
    \/ \E c \in Clients : GetConnect(c) \/ ClientStep(c) \/ ClientSpurious(c) \/ Release(c)

Spec == Init /\ [][Next]_vars

(* Threads keep running and a wait_for that nobody ends times out. Nothing *)
(* makes the server come back, a client drop its connection, or a client   *)
(* that was notified in time also time out.                                *)
Fairness ==
    /\ WF_vars(OwnerStep) /\ WF_vars(ProducerStep) /\ WF_vars(ScannerStep)
    /\ \A c \in Clients : WF_vars(ClientStep(c))

FairSpec == Spec /\ Fairness

-----------------------------------------------------------------------------
(* Properties.                                                             *)

\* The type invariant: every variable has its C++ type's values.
TypeOK ==
    /\ queue \in Seq(Conns) /\ sound \subseteq Conns
    /\ up \in BOOLEAN /\ running \in BOOLEAN
    /\ ppc \in ProducerPcs /\ spc \in ScannerPcs /\ dpc \in OwnerPcs
    /\ cpc \in [Clients -> ClientPcs]
    /\ held \in [Clients -> Conns \cup {NoConn}]
    /\ calls \in 0 .. MaxCalls /\ faults \in 0 .. MaxFaults

\* A connection is in the queue at most once, or lent to exactly one client,
\* never both, whatever the producer, the scanner and the deleters do.
OneOwner ==
    /\ \A i, j \in DOMAIN queue : queue[i] = queue[j] => i = j
    /\ Queued \cap Lent = {}
    /\ \A c, d \in Clients : held[c] = held[d] /\ held[c] # NoConn => c = d
    /\ \A c \in Clients : cpc[c] = "has" <=> held[c] # NoConn

\* No lost wake-up on cv_, which everybody shares: no client sleeps while a
\* connection is idle, and the producer sleeps only when there is one (given
\* init_size > 0, else the scanner may take the last one and tell nobody).
NobodySleepsThrough ==
    /\ queue # <<>> => \A c \in Clients : cpc[c] # "wait"
    /\ InitSize > 0 /\ ppc = "wait" => queue # <<>>

\* get_connect hands out a connection that is valid, or just reset or made.
HandsOutSound ==
    [][\A c \in Clients : cpc[c] # "has" /\ cpc'[c] = "has" => held'[c] \in sound']_vars

\* When the server stays up from some time on, every get_connect returns.
GetConnectReturns ==
    <>[]up => \A c \in Clients :
        cpc[c] \in {"lock", "wait", "timedout"} ~> cpc[c] \in {"away", "has"}

\* A destructor that finds the producer asleep wakes it and returns.
DestructorWakesSleeper == (dpc = "cleared" /\ ppc = "wait") ~> dpc = "gone"

\* The destructor returns (a test goes on after the pool's scope ends).
DestructorReturns == dpc = "cleared" ~> dpc = "gone"

-----------------------------------------------------------------------------
(* What the pool promises its clients.                                     *)

Borrower == [x \in Conns |-> IF x \in Lent
                               THEN CHOOSE c \in Clients : held[c] = x ELSE NoConn]

Lending == INSTANCE LendingPool WITH
    Borrowers <- Clients,
    Resources <- Conns,
    Nobody    <- NoConn,
    free      <- Queued,
    borrower  <- Borrower,
    closed    <- dpc = "gone"

\* Every step of the pool lends, takes back, makes or discards connections
\* the way the abstract pool allows, or changes nothing it can see.
ImplementsLending == Lending!Spec

=============================================================================
