------------------------------- MODULE Timer -------------------------------
(***************************************************************************)
(* timer of include/MSTL/ext/timer.hpp, driven by the polling loop that    *)
(* its test shows: sleep until the first timer is due, then check() until  *)
(* nothing is due. A callback may itself call add, erase and check.        *)
(***************************************************************************)
EXTENDS Naturals, Sequences, FiniteSets

CONSTANTS
    MaxTimers,  \* bound: calls of add
    MaxTime,    \* bound: the clock
    Delays,     \* the delays given to add
    InCallback  \* what callbacks do, among "add", "erase", "erase self", "check"

VARIABLES
    now,     \* get_tick()
    timers,  \* timer_set_
    lastId,  \* timer_id_ of generate_id
    running, \* the nodes whose callbacks run, the innermost first
    fired,   \* how often each id's callback was called
    erased,  \* the nodes that erase removed, returning true
    loop,    \* where the polling loop is
    until,   \* when its sleep is over
    fault    \* check erased a node that is not in the set any more

timerVars == <<now, timers, lastId, running, fired, erased, loop, until, fault>>

Node == [expire : Nat, id : 1 .. MaxTimers]

(* operator < of the nodes; timer_set_.begin() is the least. A definition  *)
(* named ..._<bug> is not part of the model: it is a plausible bug in the  *)
(* definition after it, with which the properties are tested.              *)
Before_by_id(m, n) == m.id < n.id
Before(m, n) == m.expire < n.expire \/ (m.expire = n.expire /\ m.id < n.id)
First == CHOOSE n \in timers : \A m \in timers : m = n \/ Before(n, m)

Idle == running = <<>>
Calls(what) == Idle \/ what \in InCallback

InitTimer ==
    /\ now = 0 /\ timers = {} /\ lastId = 0 /\ running = <<>>
    /\ fired = [i \in 1 .. MaxTimers |-> 0] /\ erased = {}
    /\ loop = "poll" /\ until = 0 /\ fault = FALSE

Tick ==
    /\ now < MaxTime
    /\ now' = now + 1
    /\ UNCHANGED <<timers, lastId, running, fired, erased, loop, until, fault>>

Add(d) ==
    /\ Calls("add") /\ loop # "asleep"
    /\ lastId < MaxTimers /\ now + d <= MaxTime
    /\ lastId' = lastId + 1
    /\ timers' = timers \cup {[expire |-> now + d, id |-> lastId']}
    /\ UNCHANGED <<now, running, fired, erased, loop, until, fault>>

Erase_begin(n) ==
    /\ n \in timers /\ Idle /\ loop # "asleep"
    /\ timers' = timers \ {First} /\ erased' = erased \cup {n}
    /\ UNCHANGED <<now, lastId, running, fired, loop, until, fault>>
Erase(n) ==
    /\ n \in timers /\ loop # "asleep"
    /\ Calls(IF running # <<>> /\ Head(running) = n THEN "erase self" ELSE "erase")
    /\ timers' = timers \ {n} /\ erased' = erased \cup {n}
    /\ UNCHANGED <<now, lastId, running, fired, loop, until, fault>>

(* check(): the callback runs while its node is still in the set.          *)
Due == timers # {} /\ First.expire <= now

CheckDue_erases_first ==
    /\ Idle /\ loop = "check" /\ Due
    /\ running' = <<First>> \o running
    /\ fired' = [fired EXCEPT ![First.id] = @ + 1]
    /\ timers' = timers \ {First}
    /\ UNCHANGED <<now, lastId, erased, loop, until, fault>>
CheckDue ==
    /\ Idle => loop = "check"
    /\ Calls("check")
    /\ Due
    /\ running' = <<First>> \o running
    /\ fired' = [fired EXCEPT ![First.id] = @ + 1]
    /\ UNCHANGED <<now, timers, lastId, erased, loop, until, fault>>

EraseFired ==
    /\ timers' = timers \ {Head(running)}
    /\ fault' = (fault \/ Head(running) \notin timers)

CallbackReturns ==
    /\ ~Idle
    /\ EraseFired
    /\ running' = Tail(running)
    /\ UNCHANGED <<now, lastId, fired, erased, loop, until>>

(* The loop: check() found nothing due, so ask sleep() how long to wait.   *)
CheckNothing ==
    /\ Idle /\ loop = "check" /\ ~Due
    /\ loop' = "poll"
    /\ UNCHANGED <<now, timers, lastId, running, fired, erased, until, fault>>

Sleep ==
    /\ Idle /\ loop = "poll"
    /\ IF timers = {} THEN loop' = "ended" /\ UNCHANGED until
       ELSE /\ until' = IF First.expire > now THEN First.expire ELSE now
            /\ loop' = "asleep"
    /\ UNCHANGED <<now, timers, lastId, running, fired, erased, fault>>

WakeUp_no_check ==
    /\ loop = "asleep" /\ now >= until
    /\ loop' = "poll"
    /\ UNCHANGED <<now, timers, lastId, running, fired, erased, until, fault>>
WakeUp ==
    /\ loop = "asleep" /\ now >= until
    /\ loop' = "check"
    /\ UNCHANGED <<now, timers, lastId, running, fired, erased, until, fault>>

LoopStep == CheckDue \/ CallbackReturns \/ CheckNothing \/ Sleep \/ WakeUp

NextTimer ==
    /\ ~fault /\ loop # "ended"
    /\ \/ Tick \/ LoopStep
       \/ \E d \in Delays : Add(d)
       \/ \E n \in timers : Erase(n)

SpecTimer == InitTimer /\ [][NextTimer]_timerVars

(* The clock advances, the loop runs and callbacks return.                 *)
FairSpec ==
    SpecTimer /\ WF_timerVars(NextTimer /\ Tick) /\ WF_timerVars(NextTimer /\ LoopStep)

-----------------------------------------------------------------------------

\* check never erases a node that its callback, or a check inside it, has
\* already removed.
NoDanglingErase == ~fault

\* A timer for which erase returned true before it was due never fires: its
\* message "must not be printed".
ErasedNeverFires ==
    [][\A n \in erased : fired'[n.id] = fired[n.id]]_timerVars

\* Timers fire in the order of their expiry: none fires while an earlier one
\* is pending, whatever the callbacks add and erase meanwhile.
FiresInOrder ==
    [][\A n \in timers : fired'[n.id] > fired[n.id] =>
          \A m \in timers \ {running[i] : i \in DOMAIN running} : n.expire <= m.expire]_timerVars

\* Timers fire in the order of expiry, and an erased one does not fire.
FiringSound == ErasedNeverFires /\ FiresInOrder

\* Every timer fires or is erased, so the polling loop comes to its end.
LoopEnds == <>(loop = "ended")

=============================================================================
