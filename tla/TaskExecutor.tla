---------------------------- MODULE TaskExecutor ----------------------------
(***************************************************************************)
(* What submit_task promises its callers: a task is accepted or refused;   *)
(* accepted tasks start in the order of acceptance, run once and finish.   *)
(***************************************************************************)
EXTENDS Sequences

CONSTANT Tasks

VARIABLES pending, active, finished, refused

vars == <<pending, active, finished, refused>>

Fresh(t) ==
    /\ t \notin active \cup finished \cup refused
    /\ \A i \in DOMAIN pending : pending[i] # t

Init == pending = <<>> /\ active = {} /\ finished = {} /\ refused = {}

Accept(t) ==
    /\ Fresh(t)
    /\ pending' = Append(pending, t)
    /\ UNCHANGED <<active, finished, refused>>

Refuse(t) ==
    /\ Fresh(t)
    /\ refused' = refused \cup {t}
    /\ UNCHANGED <<pending, active, finished>>

Begin ==
    /\ pending # <<>>
    /\ active' = active \cup {Head(pending)}
    /\ pending' = Tail(pending)
    /\ UNCHANGED <<finished, refused>>

Finish(t) ==
    /\ t \in active
    /\ active' = active \ {t}
    /\ finished' = finished \cup {t}
    /\ UNCHANGED <<pending, refused>>

Next == Begin \/ \E t \in Tasks : Accept(t) \/ Refuse(t) \/ Finish(t)

Spec == Init /\ [][Next]_vars

=============================================================================
