------------------------------ MODULE Servlet ------------------------------
(***************************************************************************)
(* servlet of include/MSTL/web/servlet.hpp with the __session_manager of   *)
(* include/MSTL/web/session.hpp: worker threads that accept connections,   *)
(* bind each request to a session and answer it, the thread that sweeps    *)
(* expired sessions, and the owner that calls start and stop.              *)
(*                                                                         *)
(* A section under the manager's mutex_ is one action. The session pointer *)
(* it returns is used later, without the mutex.                            *)
(***************************************************************************)
EXTENDS Naturals, FiniteSets

CONSTANTS
    Workers,    \* the threads of start_workers
    Clients,    \* the browsers
    Prompt,     \* the clients that send the request they have connected for and
                \* take the response; of the others nothing is assumed
    Ids,        \* bound: the session ids generated; an id names its session
    None,       \* no id, the null session, no client
    MaxForward, \* MAX_FORWARD of handle_client
    MaxStarts,  \* bound: calls of start() that succeed
    Handlers,   \* what do_get and do_post do, see Method
    Careless    \* TRUE: a session may expire, or be invalidated by another
                \* request, while a request uses it

ASSUME ServletAssumption ==
    /\ None \notin Ids \cup Clients /\ Prompt \subseteq Clients
    /\ MaxForward \in Nat /\ MaxStarts \in Nat
    /\ Handlers \subseteq {"plain", "touch", "invalidate", "forward", "invalidate, forward",
                           "throw"}
    /\ Careless \in BOOLEAN

VARIABLES
    sessions,  \* the keys of sessions_
    used,      \* the ids generated so far
    fresh,     \* the sessions with is_new_
    dead,      \* the sessions with invalidated
    expired,   \* the sessions whose max_age has passed since last_access
    running,   \* running_
    listening, \* server_socket_ is open
    octl,      \* where the owner is in stop()
    starts,
    wpc,       \* where each worker is
    who,       \* the client it serves
    sent,      \* the session cookie in the request
    bound,     \* request.session
    setCookie, \* the session whose cookie is in the response
    passes,    \* forward_count
    jar,       \* the session cookie that each client keeps
    fault      \* a worker used a session that had been erased

manager  == <<sessions, used, fresh, dead, expired>>
owner    == <<running, listening, octl, starts>>
request  == <<who, sent, bound, setCookie, passes>>
vars     == <<manager, owner, wpc, request, jar, fault>>

WorkerPcs ==
    {"none", "loop", "call", "accept", "read", "parse", "exists", "begin", "session", "create",
     "cookie", "method", "send", "done"}

Valid(s) == s \notin dead /\ s \notin expired

Init ==
    /\ sessions = {} /\ used = {} /\ fresh = {} /\ dead = {} /\ expired = {}
    /\ running = FALSE /\ listening = FALSE /\ octl = "down" /\ starts = 0
    /\ wpc = [w \in Workers |-> "none"]
    /\ who = [w \in Workers |-> None] /\ sent = [w \in Workers |-> None]
    /\ bound = [w \in Workers |-> None] /\ setCookie = [w \in Workers |-> None]
    /\ passes = [w \in Workers |-> 0] /\ jar = [c \in Clients |-> None] /\ fault = FALSE

Goto(w, l) == wpc' = [wpc EXCEPT ![w] = l]

(* The request and the response go out of scope.                           *)
EndRequest(w) ==
    /\ Goto(w, "loop")
    /\ who' = [who EXCEPT ![w] = None] /\ sent' = [sent EXCEPT ![w] = None]
    /\ bound' = [bound EXCEPT ![w] = None]
    /\ setCookie' = [setCookie EXCEPT ![w] = None] /\ passes' = [passes EXCEPT ![w] = 0]

-----------------------------------------------------------------------------
(* The owner.                                                              *)

Start ==
    /\ octl = "down" /\ ~running /\ starts < MaxStarts
    /\ running' = TRUE /\ listening' = TRUE
    /\ octl' = "up" /\ starts' = starts + 1
    /\ wpc' = [w \in Workers |-> "loop"]
    /\ UNCHANGED <<manager, request, jar, fault>>

(* init, bind or listen fails: a socket that was made stays open until the *)
(* next start() replaces it, for stop() returns at once.                   *)
StartFails ==
    /\ octl = "down" /\ ~running /\ starts < MaxStarts
    /\ listening' \in BOOLEAN
    /\ UNCHANGED <<manager, running, octl, starts, wpc, request, jar, fault>>

Stop ==
    /\ octl = "up"
    /\ running' = FALSE /\ octl' = "closing"
    /\ UNCHANGED <<manager, listening, starts, wpc, request, jar, fault>>

CloseSocket ==
    /\ octl = "closing"
    /\ listening' = FALSE /\ octl' = "joining"
    /\ UNCHANGED <<manager, running, starts, wpc, request, jar, fault>>

Join ==
    /\ octl = "joining" /\ \A w \in Workers : wpc[w] = "done"
    /\ octl' = "down" /\ wpc' = [w \in Workers |-> "none"]
    /\ UNCHANGED <<manager, running, listening, starts, request, jar, fault>>

-----------------------------------------------------------------------------
(* accept_conns. A definition named ..._<bug> is not part of the model: it *)
(* is a plausible bug in the definition after it, with which the           *)
(* properties are tested.                                                  *)

LoopTest_once(w) == "call"
LoopTest(w) == IF running THEN "call" ELSE "done"

Loop(w) ==
    /\ wpc[w] = "loop"
    /\ Goto(w, LoopTest(w))
    /\ UNCHANGED <<manager, owner, request, jar, fault>>

(* accept() on a closed socket fails at once.                              *)
CallAccept(w) ==
    /\ wpc[w] = "call"
    /\ Goto(w, IF listening THEN "accept" ELSE "loop")
    /\ UNCHANGED <<manager, owner, request, jar, fault>>

(* The requests that may yet make a session.                               *)
Unbound == {w \in Workers : who[w] # None /\ bound[w] = None}

(* A connection arrives. A worker already blocked in accept() gets it also *)
(* when the socket has been closed meanwhile: close() does not wake it.    *)
Connect(w, c) ==
    /\ wpc[w] = "accept"
    /\ Cardinality(Unbound) < Cardinality(Ids \ used)   \* the bound Ids
    /\ who' = [who EXCEPT ![w] = c]
    /\ Goto(w, "read")
    /\ UNCHANGED <<manager, owner, sent, bound, setCookie, passes, jar, fault>>

AcceptFails(w) ==
    /\ wpc[w] = "accept"
    /\ Goto(w, "loop")
    /\ UNCHANGED <<manager, owner, request, jar, fault>>

-----------------------------------------------------------------------------
(* The session of a request.                                               *)

(* parse_request reads, without a time-out, until the client has sent its  *)
(* headers and its body or has closed the connection; what has come by     *)
(* then may hold no cookie.                                                *)
Receive(w) ==
    /\ wpc[w] = "read"
    /\ \E s \in {jar[who[w]], None} : sent' = [sent EXCEPT ![w] = s]
    /\ Goto(w, "parse")
    /\ UNCHANGED <<manager, owner, who, bound, setCookie, passes, jar, fault>>

(* The length that the headers give is no number: parse_request throws.    *)
ParseThrows(w) ==
    /\ wpc[w] = "read"
    /\ EndRequest(w)
    /\ UNCHANGED <<manager, owner, jar, fault>>

(* parse_request: session_exists.                                          *)
SessionExists(w) ==
    /\ wpc[w] = "parse"
    /\ Goto(w, IF sent[w] \in sessions /\ Valid(sent[w]) THEN "exists" ELSE "begin")
    /\ UNCHANGED <<manager, owner, request, jar, fault>>

(* get_session(id, false): a session that is not valid is erased.          *)
Found_unchecked(s) == s \in sessions
Found(s) == s \in sessions /\ Valid(s)

Keep(S) ==
    /\ sessions' = sessions \cap S /\ fresh' = fresh \cap S
    /\ dead' = dead \cap S /\ expired' = expired \cap S

LookUp(w) ==
    IF Found(sent[w])
      THEN /\ bound' = [bound EXCEPT ![w] = sent[w]]
           /\ fresh' = fresh \ {sent[w]}
           /\ UNCHANGED <<sessions, dead, expired>>
      ELSE /\ bound' = [bound EXCEPT ![w] = None]
           /\ Keep(Ids \ {sent[w]})

(* parse_request: what existed a moment ago may be gone.                   *)
ParseSession(w) ==
    /\ wpc[w] = "exists"
    /\ LookUp(w)
    /\ Goto(w, "begin")
    /\ UNCHANGED <<used, owner, who, sent, setCookie, passes, jar, fault>>

(* handle_request: a new response; a filter may refuse the request.        *)
PreFilters(w) ==
    /\ wpc[w] = "begin"
    /\ setCookie' = [setCookie EXCEPT ![w] = None]
    /\ wpc' \in {[wpc EXCEPT ![w] = l] : l \in {"session", "send"}}
    /\ UNCHANGED <<manager, owner, who, sent, bound, passes, jar, fault>>

(* servlet::get_session(request, true).                                    *)
GetSession(w) ==
    /\ wpc[w] = "session"
    /\ IF bound[w] # None
         THEN UNCHANGED <<sessions, fresh, dead, expired, bound>> /\ Goto(w, "cookie")
         ELSE LookUp(w) /\ Goto(w, IF bound'[w] # None THEN "cookie" ELSE "create")
    /\ UNCHANGED <<used, owner, who, sent, setCookie, passes, jar, fault>>

(* create_session: generate_session_id draws 32 random digits.             *)
MadeNew_forgotten(s) == fresh
MadeNew(s) == fresh \cup {s}

NewIds_any == Ids
NewIds == Ids \ used

CreateSession(w) ==
    /\ wpc[w] = "create"
    /\ \E s \in NewIds :
          /\ sessions' = sessions \cup {s} /\ used' = used \cup {s}
          /\ fresh' = MadeNew(s)
          /\ bound' = [bound EXCEPT ![w] = s]
    /\ Goto(w, "cookie")
    /\ UNCHANGED <<dead, expired, owner, who, sent, setCookie, passes, jar, fault>>

InUse(s, W) == \E w \in W : who[w] # None /\ bound[w] = s

UseSession(w) == fault' = (fault \/ bound[w] \notin sessions)

(* add_session_cookie, for a session that is new.                          *)
AddCookie(w) ==
    /\ wpc[w] = "cookie"
    /\ UseSession(w)
    /\ setCookie' = IF bound[w] \in fresh THEN [setCookie EXCEPT ![w] = bound[w]]
                    ELSE setCookie
    /\ fresh' = fresh \ {bound[w]}
    /\ Goto(w, "method")
    /\ UNCHANGED <<sessions, used, dead, expired, owner, who, sent, bound, passes, jar>>

(* The filters, the log line, do_<method> and the post filters; then       *)
(* handle_client sends the response or handles the request once more.      *)
MayForward_always(w) == TRUE
MayForward(w) == passes[w] < MaxForward

Method(w) ==
    /\ wpc[w] = "method"
    /\ UseSession(w)
    /\ \E h \in Handlers :
          /\ Careless \/ "invalidate" # h \/ ~InUse(bound[w], Workers \ {w})
          /\ dead' = IF h \in {"invalidate", "invalidate, forward"}
                       THEN dead \cup {bound[w]} ELSE dead
          /\ expired' = IF h = "touch" THEN expired \ {bound[w]} ELSE expired
          /\ IF h = "throw" THEN EndRequest(w)
             ELSE IF h \in {"forward", "invalidate, forward"} /\ MayForward(w)
             THEN /\ Goto(w, "begin")
                  /\ passes' = [passes EXCEPT ![w] = IF @ < MaxForward THEN @ + 1 ELSE @]
                  /\ UNCHANGED <<who, sent, bound, setCookie>>
             ELSE Goto(w, "send") /\ UNCHANGED request
    /\ UNCHANGED <<sessions, used, fresh, owner, jar>>

(* send_response: ::send has no time-out either. The client gets the       *)
(* response unless its connection broke.                                   *)
Send(w) ==
    /\ wpc[w] = "send"
    /\ jar' \in {jar, IF setCookie[w] = None THEN jar
                      ELSE [jar EXCEPT ![who[w]] = setCookie[w]]}
    /\ EndRequest(w)
    /\ UNCHANGED <<manager, owner, fault>>

-----------------------------------------------------------------------------
(* Time, and cleanup_expired_sessions.                                     *)

Expire(s) ==
    /\ s \in sessions /\ s \notin expired
    /\ Careless \/ ~InUse(s, Workers)
    /\ expired' = expired \cup {s}
    /\ UNCHANGED <<sessions, used, fresh, dead, owner, wpc, request, jar, fault>>

Stay_reversed == {s \in sessions : ~Valid(s)}
Stay == {s \in sessions : Valid(s)}

Sweep ==
    /\ Keep(Stay)
    /\ sessions' # sessions
    /\ UNCHANGED <<used, owner, wpc, request, jar, fault>>

-----------------------------------------------------------------------------

OwnerStep == CloseSocket \/ Join

RequestStep(w) ==
    \/ SessionExists(w) \/ ParseSession(w) \/ PreFilters(w) \/ GetSession(w)
    \/ CreateSession(w) \/ AddCookie(w) \/ Method(w)

(* The worker is blocked in ::read or ::send until its client acts.        *)
ClientStep(w) == Receive(w) \/ ParseThrows(w) \/ Send(w)

WorkerStep(w) == Loop(w) \/ CallAccept(w) \/ RequestStep(w)

Next ==
    /\ ~fault
    /\ \/ Start \/ StartFails \/ Stop \/ OwnerStep \/ Sweep
       \/ \E s \in Ids : Expire(s)
       \/ \E w \in Workers :
             \/ WorkerStep(w) \/ ClientStep(w) \/ AcceptFails(w)
             \/ \E c \in Clients : Connect(w, c)

Spec == Init /\ [][Next]_vars

(* Threads keep running. Nothing makes a client connect, and only those of *)
(* Prompt are known to send their request and to take the response.        *)
FairSpec ==
    /\ Spec /\ WF_vars(~fault /\ OwnerStep)
    /\ \A w \in Workers :
          /\ WF_vars(~fault /\ WorkerStep(w))
          /\ WF_vars(~fault /\ who[w] \in Prompt /\ ClientStep(w))

-----------------------------------------------------------------------------
(* Properties.                                                             *)

Serving(w) == who[w] # None

\* No request uses a session object that the sweeper or another request has
\* erased since it took the pointer.
NoDanglingSession == ~fault

\* Sessions are private: what one client's requests are bound to, or its
\* cookie names, never serves another client.
SessionsPrivate ==
    \A w \in Workers : Serving(w) /\ bound[w] # None =>
        /\ \A c \in Clients \ {who[w]} : jar[c] # bound[w]
        /\ \A v \in Workers : Serving(v) /\ bound[v] = bound[w] => who[v] = who[w]

\* A response that was not forwarded tells the client the session made for it.
SessionAnnounced ==
    \A w \in Workers : wpc[w] = "send" /\ passes[w] = 0 /\ bound[w] # None =>
        setCookie[w] = bound[w] \/ sent[w] = bound[w]

\* No session is used after it is erased, sessions stay private to their
\* client, and the client is told which one it has.
SessionsSound == NoDanglingSession /\ SessionsPrivate /\ SessionAnnounced

\* get_session hands out valid sessions only: an invalidated or expired one is
\* never bound to a request, however long it stays in the map.
BindsValid ==
    [][\A w \in Workers : bound'[w] # bound[w] /\ bound'[w] # None =>
          bound'[w] \in sessions' /\ bound'[w] \notin dead \cup expired]_vars

\* What is left of the worker's progress to a client: the next connection, or
\* the request or the response of one that need not be prompt.
Held(w) ==
    \/ wpc[w] = "accept"
    \/ wpc[w] \in {"read", "send"} /\ who[w] \notin Prompt

\* A request of a prompt client is answered or given up, however long other
\* clients hold their workers; any request that has been read gets to its response.
RequestsEnd ==
    \A w \in Workers :
        /\ (wpc[w] = "read" /\ who[w] \in Prompt) ~> (wpc[w] = "loop")
        /\ (wpc[w] = "parse") ~> (wpc[w] \in {"send", "loop"})

\* stop() returns, unless from some time on a worker sits in accept() and no
\* client connects, or in ::read or ::send and its client does nothing.
StopWaitsOnlyForClients ==
    octl = "closing" ~> (octl = "down" \/ [](\E w \in Workers : Held(w)))

=============================================================================
