---------------------------- MODULE MCComponents ----------------------------
(***************************************************************************)
(* An instance for TLC of four parts that do not interact: the timer,      *)
(* connections, files and the queue. A behaviour picks one of them and     *)
(* runs it; the others stay as they are.                                   *)
(***************************************************************************)
EXTENDS Timer, DbConnection, File, TLC

CONSTANTS t1, t2, x,
          pop, n1, n2, n3, n4, Garbage, Empty

VARIABLES
    part,  \* the component that runs
    heap, data, next, inner, outer, head, tail, pc, old, new, aim, ret, taken, qfault

OneWrite == {<<x>>}

Queue == INSTANCE LockFreeQueue WITH
    Pushers <- {t1, t2}, Poppers <- {pop}, Nodes <- {n1, n2, n3, n4}, CountMod <- 8,
    FreshData <- {Null}, fault <- qfault

queueVars == <<heap, data, next, inner, outer, head, tail, pc, old, new, aim, ret, taken, qfault>>
allVars   == <<part, timerVars, connVars, vars, queueVars>>

InitAny ==
    /\ part \in {"timer", "connection", "file", "queue"}
    /\ InitTimer /\ InitConnect /\ Init /\ Queue!Init /\ head.ptr = n1

TimerStep      == part = "timer" /\ NextTimer /\ UNCHANGED <<part, connVars, vars, queueVars>>
ConnectionStep == part = "connection" /\ NextConnect /\ UNCHANGED <<part, timerVars, vars, queueVars>>
FileStep       == part = "file" /\ Next /\ UNCHANGED <<part, timerVars, connVars, queueVars>>
QueueStep      == part = "queue" /\ Queue!Next /\ UNCHANGED <<part, timerVars, connVars, vars>>

NextAny == TimerStep \/ ConnectionStep \/ FileStep \/ QueueStep

(* The fairness of the timer's loop, and of each call that has begun.      *)
SpecAny ==
    /\ InitAny /\ [][NextAny]_allVars
    /\ WF_allVars(TimerStep /\ Tick) /\ WF_allVars(TimerStep /\ LoopStep)
    /\ \A t \in {t1, t2, pop} : WF_allVars(QueueStep /\ ~qfault /\ pc[t] # "start" /\ Queue!Step(t))

\* See Timer: the polling loop ends.
TimerLoopEnds == part = "timer" => LoopEnds

\* See LockFreeQueue: a push or pop that keeps running returns.
CallsReturn == part = "queue" => Queue!CallsReturn

=============================================================================
