---------------------------- MODULE ServletProofs ----------------------------
(***************************************************************************)
(* That the sessions of Servlet stay private to their clients, whatever    *)
(* the requests do, and that no request is left with a session that has    *)
(* been erased, when sessions do not end while they are in use.            *)
(***************************************************************************)
EXTENDS Servlet, TLAPS

Idling == {"none", "loop", "call", "accept", "done"}

Typed ==
    /\ sessions \subseteq used /\ used \subseteq Ids
    /\ fresh \subseteq used /\ dead \subseteq used /\ expired \subseteq used
    /\ octl \in {"down", "up", "closing", "joining"}
    /\ wpc \in [Workers -> WorkerPcs] /\ who \in [Workers -> Clients \cup {None}]
    /\ sent \in [Workers -> used \cup {None}] /\ bound \in [Workers -> used \cup {None}]
    /\ setCookie \in [Workers -> used \cup {None}] /\ jar \in [Clients -> used \cup {None}]
    /\ passes \in [Workers -> Nat] /\ fault \in BOOLEAN

(* A worker has a request just where it handles one.                       *)
Tidy ==
    /\ octl = "down" => \A w \in Workers : wpc[w] = "none"
    /\ \A w \in Workers :
          IF wpc[w] \in Idling
            THEN who[w] = None /\ sent[w] = None /\ bound[w] = None /\ setCookie[w] = None
            ELSE who[w] \in Clients
    /\ \A w \in Workers : wpc[w] \in {"read", "parse", "exists", "create"} => bound[w] = None
    /\ \A w \in Workers : wpc[w] \in {"cookie", "method"} => bound[w] # None

(* The session s is known to the client c: in its browser or in a request. *)
Mentions(w, s) == s \in {sent[w], bound[w], setCookie[w]}
Knows(c, s) == jar[c] = s \/ \E w \in Workers : who[w] = c /\ Mentions(w, s)

Private == \A s \in Ids, c, d \in Clients : Knows(c, s) /\ Knows(d, s) => c = d

Inv == Typed /\ Tidy /\ Private

(* Sessions neither expire nor end while another request uses them, and no *)
(* handler forwards a request whose session it has just ended.             *)
Careful == ~Careless /\ "invalidate, forward" \notin Handlers

(* A session in use is one that get_session would hand out.                *)
Usable ==
    \A w \in Workers : wpc[w] \in {"begin", "session", "cookie", "method"} /\ bound[w] # None =>
        bound[w] \in sessions /\ Valid(bound[w])

(* A new session is known to nobody but the request that made it.          *)
Secret ==
    \A s \in fresh :
        /\ \A c \in Clients : jar[c] # s
        /\ \A w \in Workers : sent[w] # s /\ setCookie[w] # s
        /\ \A v, w \in Workers : bound[v] = s /\ bound[w] = s => v = w

(* The client has sent the session, or the response will announce it.      *)
Told ==
    \A w \in Workers : bound[w] # None /\ passes[w] = 0 /\ bound[w] # sent[w] =>
        /\ wpc[w] \notin {"begin", "session"}
        /\ wpc[w] = "cookie" => bound[w] \in fresh
        /\ wpc[w] \in {"method", "send"} => setCookie[w] = bound[w]

CarefulInv == ~fault /\ Usable /\ Secret /\ Told

-----------------------------------------------------------------------------
(* Nobody learns of a session that he did not know of.                     *)

NothingNew == \A c \in Clients, s \in Ids : Knows(c, s)' => Knows(c, s)

LEMMA NothingNewIsPrivate == ASSUME Private, NothingNew PROVE Private'
BY DEF Private, NothingNew

(* What a step may do to the request of w, who stays the same or goes.     *)
Within(w) ==
    /\ \A v \in Workers \ {w} :
          /\ who'[v] = who[v] /\ sent'[v] = sent[v] /\ bound'[v] = bound[v]
          /\ setCookie'[v] = setCookie[v]
    /\ who'[w] \in {who[w], None}
    /\ {sent'[w], bound'[w], setCookie'[w]} \subseteq {sent[w], bound[w], setCookie[w], None}
    /\ \A c \in Clients : jar'[c] = jar[c] \/ (c = who[w] /\ jar'[c] = setCookie[w])

LEMMA WithinIsNothingNew == ASSUME NEW w \in Workers, Within(w) PROVE NothingNew
<1> SUFFICES ASSUME NEW c \in Clients, NEW s \in Ids, Knows(c, s)' PROVE Knows(c, s)
  BY DEF NothingNew
<1>1. CASE jar'[c] = s
  BY <1>1 DEF Within, Knows, Mentions
<1>2. ASSUME NEW v \in Workers, who'[v] = c, s \in {sent'[v], bound'[v], setCookie'[v]}
      PROVE  Knows(c, s)
  <2>1. c # None /\ s # None
    BY ServletAssumption
  <2>2. who[v] = c /\ s \in {sent[v], bound[v], setCookie[v]}
    BY <1>2, <2>1 DEF Within
  <2> QED BY <2>2 DEF Knows, Mentions
<1> QED BY <1>1, <1>2 DEF Knows, Mentions

(* Steps that touch no request.                                            *)
LEMMA OutsideIsNothingNew == ASSUME UNCHANGED <<request, jar>> PROVE NothingNew
BY DEF NothingNew, Knows, Mentions, request

-----------------------------------------------------------------------------

LEMMA LookUpKeeps ==
    ASSUME Typed, NEW w \in Workers, LookUp(w), UNCHANGED used
    PROVE  /\ sessions' \subseteq sessions /\ fresh' \subseteq fresh
           /\ dead' \subseteq dead /\ expired' \subseteq expired
           /\ bound' \in [Workers -> used \cup {None}]
           /\ \A v \in Workers \ {w} : bound'[v] = bound[v]
           /\ bound'[w] \in {sent[w], None}
BY DEF Typed, LookUp, Keep

LEMMA StepKeeps == Inv /\ [Next]_vars => Inv'
<1> SUFFICES ASSUME Typed, Tidy, Private, [Next]_vars PROVE Inv'
  BY DEF Inv
<1>1. CASE UNCHANGED vars
  <2>1. NothingNew
    BY <1>1, OutsideIsNothingNew DEF vars
  <2> QED BY <1>1, <2>1, NothingNewIsPrivate DEF Inv, Typed, Tidy, vars, manager, owner, request
<1>2. CASE Start \/ StartFails \/ Stop \/ CloseSocket \/ Join
  <2>1. UNCHANGED <<manager, request, jar, fault>>
    BY <1>2 DEF Start, StartFails, Stop, CloseSocket, Join
  <2>2. NothingNew
    BY <2>1, OutsideIsNothingNew
  <2>3. Typed'
    BY <1>2, <2>1 DEF Typed, manager, request, WorkerPcs, Start, StartFails, Stop, CloseSocket, Join
  <2>4. Tidy'
    BY <1>2, <2>1 DEF Typed, Tidy, Idling, manager, request, Start, StartFails, Stop, CloseSocket, Join
  <2> QED BY <2>2, <2>3, <2>4, NothingNewIsPrivate DEF Inv
<1>3. CASE Sweep \/ \E s \in Ids : Expire(s)
  <2>1. NothingNew
    BY <1>3, OutsideIsNothingNew DEF Sweep, Expire
  <2>2. Typed' /\ Tidy'
    BY <1>3 DEF Typed, Tidy, Sweep, Expire, Keep, owner, request
  <2> QED BY <2>1, <2>2, NothingNewIsPrivate DEF Inv
<1>4. ASSUME NEW w \in Workers, Loop(w) \/ CallAccept(w) \/ AcceptFails(w) \/ SessionExists(w)
      PROVE  Inv'
  <2>1. UNCHANGED <<manager, owner, request, jar, fault>>
    BY <1>4 DEF Loop, CallAccept, AcceptFails, SessionExists
  <2>2. NothingNew
    BY <2>1, OutsideIsNothingNew
  <2>3. Typed' /\ Tidy'
    BY <1>4, <2>1 DEF Typed, Tidy, Idling, WorkerPcs, manager, owner, request, Loop, CallAccept, LoopTest,
                 AcceptFails, SessionExists, Goto
  <2> QED BY <2>2, <2>3, NothingNewIsPrivate DEF Inv
<1>5. ASSUME NEW w \in Workers, NEW c \in Clients, Connect(w, c) PROVE Inv'
  <2>0. /\ who' = [who EXCEPT ![w] = c] /\ UNCHANGED <<sent, bound, setCookie, jar>>
        /\ sent[w] = None /\ bound[w] = None /\ setCookie[w] = None
    BY <1>5 DEF Connect, Tidy, Idling
  <2>1. NothingNew
    <3> SUFFICES ASSUME NEW d \in Clients, NEW s \in Ids, jar[d] # s, NEW v \in Workers,
                        who'[v] = d, s \in {sent'[v], bound'[v], setCookie'[v]}
                 PROVE  who[v] = d /\ s \in {sent[v], bound[v], setCookie[v]}
      BY <2>0 DEF NothingNew, Knows, Mentions
    <3>1. v # w
      BY <2>0, ServletAssumption DEF Typed
    <3> QED BY <2>0, <3>1 DEF Typed
  <2>2. Typed' /\ Tidy'
    BY <1>5 DEF Typed, Tidy, Idling, WorkerPcs, manager, owner, Connect, Goto
  <2> QED BY <2>1, <2>2, NothingNewIsPrivate DEF Inv
<1>5a. ASSUME NEW w \in Workers, Receive(w) PROVE Inv'
  <2>0. PICK s \in {jar[who[w]], None} :
           /\ sent' = [sent EXCEPT ![w] = s] /\ wpc[w] = "read" /\ who[w] \in Clients
           /\ UNCHANGED <<manager, who, bound, setCookie, jar>>
    BY <1>5a DEF Receive, Tidy, Idling
  <2>1. NothingNew
    <3> SUFFICES ASSUME NEW d \in Clients, NEW x \in Ids, jar[d] # x, NEW v \in Workers,
                        who'[v] = d, x \in {sent'[v], bound'[v], setCookie'[v]}
                 PROVE  who[v] = d /\ x \in {sent[v], bound[v], setCookie[v]}
      BY <2>0 DEF NothingNew, Knows, Mentions
    <3>1. v = w => sent'[v] # x
      BY <2>0, ServletAssumption DEF Typed
    <3> QED BY <2>0, <3>1 DEF Typed
  <2>2. sent' \in [Workers -> used \cup {None}]
    BY <2>0 DEF Typed
  <2>3. Typed' /\ Tidy'
    BY <1>5a, <2>2 DEF Typed, Tidy, Idling, WorkerPcs, manager, owner, Receive, Goto
  <2> QED BY <2>1, <2>3, NothingNewIsPrivate DEF Inv
<1>6. ASSUME NEW w \in Workers, ParseSession(w) \/ GetSession(w) PROVE Inv'
  <2>1. CASE LookUp(w)
    <3>1. Within(w)
      BY <1>6, <2>1, LookUpKeeps DEF Within, ParseSession, GetSession
    <3>2. Typed' /\ Tidy'
      BY <1>6, <2>1, LookUpKeeps DEF Typed, Tidy, Idling, WorkerPcs, owner, ParseSession, GetSession, Goto
    <3> QED BY <3>1, <3>2, WithinIsNothingNew, NothingNewIsPrivate DEF Inv
  <2>2. CASE ~LookUp(w)
    <3>1. NothingNew
      BY <1>6, <2>2, OutsideIsNothingNew DEF ParseSession, GetSession, request
    <3>2. Typed' /\ Tidy'
      BY <1>6, <2>2 DEF Typed, Tidy, Idling, WorkerPcs, owner, ParseSession, GetSession, Goto
    <3> QED BY <3>1, <3>2, NothingNewIsPrivate DEF Inv
  <2> QED BY <2>1, <2>2
<1>7. ASSUME NEW w \in Workers, PreFilters(w) PROVE Inv'
  <2>1. Within(w)
    BY <1>7 DEF Typed, Within, PreFilters
  <2>2. Typed' /\ Tidy'
    BY <1>7 DEF Typed, Tidy, Idling, WorkerPcs, manager, owner, PreFilters
  <2> QED BY <2>1, <2>2, WithinIsNothingNew, NothingNewIsPrivate DEF Inv
<1>8. ASSUME NEW w \in Workers, CreateSession(w) PROVE Inv'
  <2>1. PICK s \in Ids \ used :
           /\ sessions' = sessions \cup {s} /\ used' = used \cup {s}
           /\ fresh' = fresh \cup {s} /\ bound' = [bound EXCEPT ![w] = s]
    BY <1>8 DEF CreateSession, MadeNew, NewIds
  <2>2. \A c \in Clients, x \in Ids : Knows(c, x)' => Knows(c, x) \/ (x = s /\ c = who[w])
    BY <1>8, <2>1 DEF Typed, CreateSession, Knows, Mentions
  <2>3. \A c \in Clients : ~Knows(c, s)
    BY <2>1, ServletAssumption DEF Typed, Knows, Mentions
  <2>4. Private'
    BY <2>2, <2>3 DEF Private
  <2>5. Typed' /\ Tidy'
    <3>1. wpc' = [wpc EXCEPT ![w] = "cookie"] /\ wpc[w] = "create"
          /\ UNCHANGED <<dead, expired, owner, who, sent, setCookie, passes, jar, fault>>
      BY <1>8 DEF CreateSession, Goto
    <3>2. Typed'
      BY <2>1, <3>1 DEF Typed, WorkerPcs, owner
    <3>3. Tidy'
      BY <2>1, <3>1, ServletAssumption DEF Typed, Tidy, Idling, owner
    <3> QED BY <3>2, <3>3
  <2> QED BY <2>4, <2>5 DEF Inv
<1>9. ASSUME NEW w \in Workers, AddCookie(w) PROVE Inv'
  <2>1. Within(w)
    BY <1>9 DEF Typed, Within, AddCookie
  <2>2. Typed' /\ Tidy'
    BY <1>9 DEF Typed, Tidy, Idling, WorkerPcs, owner, AddCookie, UseSession, Goto
  <2> QED BY <2>1, <2>2, WithinIsNothingNew, NothingNewIsPrivate DEF Inv
<1>10. ASSUME NEW w \in Workers, Method(w) PROVE Inv'
  <2>1. Within(w)
    BY <1>10 DEF Typed, Within, Method, EndRequest, request
  <2>2. PICK h \in Handlers :
           /\ dead' = IF h \in {"invalidate", "invalidate, forward"}
                        THEN dead \cup {bound[w]} ELSE dead
           /\ expired' = IF h = "touch" THEN expired \ {bound[w]} ELSE expired
           /\ IF h = "throw" THEN EndRequest(w)
              ELSE IF h \in {"forward", "invalidate, forward"} /\ MayForward(w)
              THEN /\ Goto(w, "begin")
                   /\ passes' = [passes EXCEPT ![w] = IF @ < MaxForward THEN @ + 1 ELSE @]
                   /\ UNCHANGED <<who, sent, bound, setCookie>>
              ELSE Goto(w, "send") /\ UNCHANGED request
    BY <1>10 DEF Method
  <2>3. /\ wpc[w] = "method" /\ UNCHANGED <<sessions, used, fresh, owner, jar>>
        /\ fault' \in BOOLEAN
    BY <1>10 DEF Method, UseSession
  <2>4. bound[w] \in used /\ dead' \subseteq used /\ expired' \subseteq used
    BY <2>2, <2>3 DEF Typed, Tidy
  <2>5. ASSUME h = "throw" PROVE Typed' /\ Tidy'
    <3>1. /\ wpc' = [wpc EXCEPT ![w] = "loop"]
          /\ who' = [who EXCEPT ![w] = None] /\ sent' = [sent EXCEPT ![w] = None]
          /\ bound' = [bound EXCEPT ![w] = None] /\ setCookie' = [setCookie EXCEPT ![w] = None]
          /\ passes' = [passes EXCEPT ![w] = 0]
      BY <2>2, <2>5 DEF EndRequest, Goto
    <3>2. Typed'
      BY <2>3, <2>4, <3>1 DEF Typed, WorkerPcs, owner
    <3>3. Tidy'
      BY <2>3, <3>1 DEF Typed, Tidy, Idling, owner
    <3> QED BY <3>2, <3>3
  <2>6. ASSUME h # "throw" PROVE Typed' /\ Tidy'
    <3>1. PICK l \in {"begin", "send"} : wpc' = [wpc EXCEPT ![w] = l]
      BY <2>2, <2>6 DEF Goto
    <3>2. UNCHANGED <<who, sent, bound, setCookie>>
      BY <2>2, <2>6 DEF request
    <3>3. passes' \in [Workers -> Nat]
      <4>1. passes[w] < MaxForward => passes[w] + 1 \in Nat
        BY DEF Typed
      <4> QED BY <2>2, <2>6, <4>1 DEF Typed, request
    <3>4. Typed'
      BY <2>3, <2>4, <3>1, <3>2, <3>3 DEF Typed, WorkerPcs, owner
    <3>5. Tidy'
      BY <2>3, <3>1, <3>2 DEF Typed, Tidy, Idling, owner
    <3> QED BY <3>4, <3>5
  <2>8. Typed' /\ Tidy'
    BY <2>5, <2>6
  <2> QED BY <2>1, <2>8, WithinIsNothingNew, NothingNewIsPrivate DEF Inv
<1>11. ASSUME NEW w \in Workers, Send(w) \/ ParseThrows(w) PROVE Inv'
  <2>1. Within(w)
    BY <1>11 DEF Typed, Within, Send, ParseThrows, EndRequest
  <2>2. Typed' /\ Tidy'
    BY <1>11 DEF Typed, Tidy, Idling, WorkerPcs, manager, owner, Send, ParseThrows, EndRequest, Goto
  <2> QED BY <2>1, <2>2, WithinIsNothingNew, NothingNewIsPrivate DEF Inv
<1> QED BY <1>1, <1>2, <1>3, <1>4, <1>5, <1>5a, <1>6, <1>7, <1>8, <1>9, <1>10, <1>11
        DEF Next, OwnerStep, WorkerStep, RequestStep, ClientStep

LEMMA Invariant == Spec => []Inv
<1>1. Init => Inv
  <2> SUFFICES ASSUME Init PROVE Inv
    OBVIOUS
  <2>1. Typed
    BY DEF Init, Typed, WorkerPcs
  <2>2. Tidy
    BY DEF Init, Tidy, Idling
  <2>3. ASSUME NEW s \in Ids, NEW c \in Clients PROVE ~Knows(c, s)
    BY ServletAssumption DEF Init, Knows, Mentions
  <2>4. Private
    BY <2>3 DEF Private
  <2> QED BY <2>1, <2>2, <2>4 DEF Inv
<1> QED BY <1>1, StepKeeps, PTL DEF Spec

\* Whatever the requests do to their sessions, and whenever these expire, no
\* client ever gets the session of another one.
THEOREM SessionsStayPrivate == Spec => []SessionsPrivate
<1>1. Inv => SessionsPrivate
  <2> SUFFICES ASSUME Inv, NEW w \in Workers, Serving(w), bound[w] # None
               PROVE  /\ \A c \in Clients \ {who[w]} : jar[c] # bound[w]
                      /\ \A v \in Workers : Serving(v) /\ bound[v] = bound[w] => who[v] = who[w]
    BY DEF SessionsPrivate
  <2>1. bound[w] \in Ids /\ \A v \in Workers : Serving(v) => who[v] \in Clients
    BY DEF Inv, Typed, Serving
  <2>2. \A v \in Workers : Serving(v) => Knows(who[v], bound[v])
    BY DEF Knows, Mentions
  <2> QED BY <2>1, <2>2 DEF Inv, Private, Knows, Serving
<1> QED BY <1>1, Invariant, PTL

\* A session that was invalidated or has expired is never bound to a request,
\* however long it stays in the map.
THEOREM BoundSessionsAreValid == Spec => BindsValid
<1>1. Inv /\ [Next]_vars =>
        [\A w \in Workers : bound'[w] # bound[w] /\ bound'[w] # None =>
            bound'[w] \in sessions' /\ bound'[w] \notin dead \cup expired]_vars
  <2> SUFFICES ASSUME Inv, Next, NEW w \in Workers, bound'[w] # bound[w], bound'[w] # None
               PROVE  bound'[w] \in sessions' /\ bound'[w] \notin dead \cup expired
    BY DEF vars
  <2>1. ASSUME NEW v \in Workers, LookUp(v) PROVE bound'[w] \in sessions' /\ bound'[w] \notin dead \cup expired
    BY <2>1 DEF Inv, Typed, LookUp, Found, Valid
  <2>2. ASSUME NEW v \in Workers, CreateSession(v)
        PROVE  bound'[w] \in sessions' /\ bound'[w] \notin dead \cup expired
    BY <2>2 DEF Inv, Typed, CreateSession, NewIds
  <2>3. ASSUME UNCHANGED bound PROVE FALSE
    BY <2>3
  <2>4. ASSUME NEW v \in Workers, EndRequest(v) PROVE FALSE
    BY <2>4 DEF Inv, Typed, EndRequest
  <2> QED BY <2>1, <2>2, <2>3, <2>4 DEF Next, OwnerStep, WorkerStep, RequestStep, ClientStep, Start,
             StartFails, Stop, CloseSocket, Join, Sweep, Expire, Loop, CallAccept, AcceptFails,
             SessionExists, Connect, Receive,
             ParseSession, PreFilters, GetSession, AddCookie, Method, Send, ParseThrows, request
<1> QED BY <1>1, Invariant, PTL DEF Spec, BindsValid

-----------------------------------------------------------------------------
(* With careful requests.                                                  *)

LEMMA CarefulStep ==
    ASSUME Careful PROVE Inv /\ CarefulInv /\ [Next]_vars => CarefulInv'
<1> SUFFICES ASSUME Typed, Tidy, ~fault, Usable, Secret, Told, [Next]_vars PROVE CarefulInv'
  BY DEF Inv, CarefulInv
<1>0. None \notin fresh
  BY ServletAssumption DEF Typed
<1>1. CASE UNCHANGED vars
  BY <1>1 DEF vars, manager, request, CarefulInv, Usable, Valid, Secret, Told
<1>2. CASE Start \/ StartFails \/ Stop \/ CloseSocket \/ Join
  <2>1. UNCHANGED <<manager, request, jar, fault>>
    BY <1>2 DEF Start, StartFails, Stop, CloseSocket, Join
  <2>2. \A w \in Workers : wpc'[w] = wpc[w] \/ bound[w] = None
    BY <1>2 DEF Typed, Tidy, Idling, Start, StartFails, Stop, CloseSocket, Join
  <2> QED BY <2>1, <2>2 DEF manager, request, CarefulInv, Usable, Valid, Secret, Told
<1>3. CASE Sweep
  <2>1. /\ sessions' = sessions \cap Stay /\ fresh' = fresh \cap Stay
        /\ dead' \subseteq dead /\ expired' \subseteq expired
        /\ UNCHANGED <<wpc, request, jar, fault>>
    BY <1>3 DEF Sweep, Keep
  <2>2. \A w \in Workers : wpc[w] \in {"begin", "session", "cookie", "method"} /\ bound[w] # None => bound[w] \in Stay
    BY DEF Usable, Stay
  <2>3. Usable'
    BY <2>1, <2>2 DEF Usable, Valid, request
  <2>4. Secret'
    BY <2>1 DEF Secret, request
  <2>5. Told'
    BY <2>1, <2>2 DEF Told, request
  <2> QED BY <2>1, <2>3, <2>4, <2>5 DEF CarefulInv
<1>4. ASSUME NEW s \in Ids, Expire(s) PROVE CarefulInv'
  <2>1. /\ UNCHANGED <<sessions, fresh, dead, wpc, request, jar, fault>>
        /\ expired' = expired \cup {s} /\ \A w \in Workers : who[w] # None => bound[w] # s
    BY <1>4 DEF Expire, InUse, Careful
  <2>2. \A w \in Workers : bound[w] # None => who[w] # None
    BY ServletAssumption DEF Tidy
  <2>3. Usable'
    BY <2>1, <2>2 DEF Usable, Valid, request
  <2>4. Secret' /\ Told'
    BY <2>1 DEF Secret, Told, request
  <2> QED BY <2>1, <2>3, <2>4 DEF CarefulInv
<1>5. ASSUME NEW w \in Workers, Loop(w) \/ CallAccept(w) \/ AcceptFails(w) \/ SessionExists(w)
      PROVE  CarefulInv'
  <2>1. UNCHANGED <<manager, request, jar, fault>>
    BY <1>5 DEF Loop, CallAccept, AcceptFails, SessionExists
  <2>2. \A v \in Workers : wpc'[v] = wpc[v] \/ bound[v] = None
    BY <1>5 DEF Typed, Tidy, Idling, Loop, CallAccept, AcceptFails, SessionExists, Goto
  <2> QED BY <2>1, <2>2 DEF manager, request, CarefulInv, Usable, Valid, Secret, Told
<1>6. ASSUME NEW w \in Workers, NEW c \in Clients, Connect(w, c) PROVE CarefulInv'
  <2>1. /\ UNCHANGED <<manager, sent, bound, setCookie, passes, jar, fault>>
        /\ wpc' = [wpc EXCEPT ![w] = "read"] /\ bound[w] = None
    BY <1>6 DEF Connect, Goto, Tidy, Idling
  <2> QED BY <2>1 DEF Typed, manager, CarefulInv, Usable, Valid, Secret, Told
<1>6a. ASSUME NEW w \in Workers, Receive(w) PROVE CarefulInv'
  <2>1. PICK s \in {jar[who[w]], None} : sent' = [sent EXCEPT ![w] = s]
    BY <1>6a DEF Receive
  <2>2. /\ UNCHANGED <<manager, bound, setCookie, passes, jar, fault>>
        /\ wpc' = [wpc EXCEPT ![w] = "parse"] /\ bound[w] = None /\ who[w] \in Clients
    BY <1>6a DEF Receive, Goto, Tidy, Idling
  <2>3. Usable'
    BY <2>2 DEF Typed, Usable, Valid, manager
  <2>4. Secret'
    BY <2>1, <2>2, <1>0 DEF Typed, Secret, manager
  <2>5. Told'
    BY <2>1, <2>2 DEF Typed, Told, manager
  <2> QED BY <2>2, <2>3, <2>4, <2>5 DEF CarefulInv
<1>7. ASSUME NEW w \in Workers, ParseSession(w) \/ GetSession(w) PROVE CarefulInv'
  <2>1. /\ UNCHANGED <<used, sent, setCookie, passes, jar, fault>>
        /\ \A v \in Workers \ {w} : wpc'[v] = wpc[v]
    BY <1>7 DEF Typed, ParseSession, GetSession, Goto
  <2>2. CASE LookUp(w)
    <3>1. CASE Found(sent[w])
      <4>1. /\ bound' = [bound EXCEPT ![w] = sent[w]] /\ fresh' = fresh \ {sent[w]}
            /\ UNCHANGED <<sessions, dead, expired>>
        BY <2>2, <3>1 DEF LookUp
      <4>2. Usable'
        BY <2>1, <3>1, <4>1 DEF Typed, Usable, Valid, Found
      <4>3. Secret'
        BY <2>1, <4>1 DEF Typed, Secret
      <4>4. Told'
        BY <2>1, <4>1 DEF Typed, Told, Secret
      <4> QED BY <2>1, <4>2, <4>3, <4>4 DEF CarefulInv
    <3>2. CASE ~Found(sent[w])
      <4>1. /\ bound' = [bound EXCEPT ![w] = None] /\ fresh' = fresh \ {sent[w]}
            /\ sessions' = sessions \ {sent[w]}
            /\ dead' \subseteq dead /\ expired' \subseteq expired
        BY <2>2, <3>2 DEF Typed, LookUp, Keep
      <4>2. \A v \in Workers \ {w} :
               wpc[v] \in {"begin", "session", "cookie", "method"} /\ bound[v] # None
               => bound[v] # sent[w]
        BY <3>2 DEF Usable, Found
      <4>3. Usable'
        BY <2>1, <4>1, <4>2 DEF Typed, Usable, Valid
      <4>4. Secret'
        BY <2>1, <4>1, <1>0 DEF Typed, Secret
      <4>5. Told'
        BY <2>1, <4>1, <4>2 DEF Typed, Told, Secret
      <4> QED BY <2>1, <4>3, <4>4, <4>5 DEF CarefulInv
    <3> QED BY <3>1, <3>2
  <2>3. CASE ~LookUp(w)
    <3>1. /\ UNCHANGED <<sessions, fresh, dead, expired, bound>>
          /\ wpc[w] = "session" /\ wpc'[w] = "cookie" /\ bound[w] # None
      BY <1>7, <2>3 DEF Typed, ParseSession, GetSession, Goto
    <3>2. Usable'
      BY <2>1, <3>1 DEF Usable, Valid
    <3>3. Secret'
      BY <2>1, <3>1 DEF Secret
    <3>4. Told'
      BY <2>1, <3>1 DEF Told
    <3> QED BY <2>1, <3>2, <3>3, <3>4 DEF CarefulInv
  <2> QED BY <2>2, <2>3
<1>8. ASSUME NEW w \in Workers, PreFilters(w) PROVE CarefulInv'
  <2>1. /\ UNCHANGED <<manager, sent, bound, passes, jar, fault>>
        /\ setCookie' = [setCookie EXCEPT ![w] = None] /\ wpc[w] = "begin"
    BY <1>8 DEF PreFilters
  <2>2. PICK l \in {"session", "send"} : wpc' = [wpc EXCEPT ![w] = l]
    BY <1>8 DEF PreFilters
  <2>3. Usable'
    BY <2>1, <2>2 DEF Typed, Usable, Valid, manager
  <2>4. Secret'
    BY <2>1, <1>0 DEF Typed, Secret, manager
  <2>5. Told'
    BY <2>1, <2>2 DEF Typed, Told, manager
  <2> QED BY <2>1, <2>3, <2>4, <2>5 DEF CarefulInv
<1>9. ASSUME NEW w \in Workers, CreateSession(w) PROVE CarefulInv'
  <2>1. PICK s \in Ids \ used :
           /\ sessions' = sessions \cup {s} /\ fresh' = fresh \cup {s}
           /\ bound' = [bound EXCEPT ![w] = s]
    BY <1>9 DEF CreateSession, MadeNew, NewIds
  <2>2. /\ wpc' = [wpc EXCEPT ![w] = "cookie"] /\ wpc[w] = "create"
        /\ UNCHANGED <<dead, expired, sent, setCookie, passes, jar, fault>>
    BY <1>9 DEF CreateSession, Goto
  <2>3. Usable'
    BY <2>1, <2>2 DEF Typed, Usable, Valid
  <2>4. Secret'
    <3>1. ASSUME NEW t \in fresh'
          PROVE  /\ \A c \in Clients : jar[c] # t
                 /\ \A v \in Workers : sent[v] # t /\ setCookie[v] # t
      <4>1. CASE t = s
        BY <4>1, ServletAssumption DEF Typed
      <4>2. CASE t \in fresh
        BY <4>2 DEF Secret
      <4> QED BY <2>1, <3>1, <4>1, <4>2
    <3>2. ASSUME NEW t \in fresh', NEW v \in Workers, NEW u \in Workers,
                 bound'[v] = t, bound'[u] = t
          PROVE  v = u
      <4>1. CASE t = s
        BY <2>1, <3>2, <4>1, ServletAssumption DEF Typed
      <4>2. CASE t # s
        BY <2>1, <3>2, <4>2 DEF Typed, Secret
      <4> QED BY <4>1, <4>2
    <3> QED BY <2>2, <3>1, <3>2 DEF Secret
  <2>5. Told'
    BY <2>1, <2>2 DEF Typed, Told
  <2> QED BY <2>2, <2>3, <2>4, <2>5 DEF CarefulInv
<1>10. ASSUME NEW w \in Workers, AddCookie(w) PROVE CarefulInv'
  <2>1. /\ setCookie' = IF bound[w] \in fresh THEN [setCookie EXCEPT ![w] = bound[w]] ELSE setCookie
        /\ fresh' = fresh \ {bound[w]}
        /\ wpc' = [wpc EXCEPT ![w] = "method"] /\ wpc[w] = "cookie"
        /\ UNCHANGED <<sessions, dead, expired, sent, bound, passes, jar>>
    BY <1>10 DEF AddCookie, Goto
  <2>2. ~fault'
    BY <1>10 DEF AddCookie, UseSession, Usable, Tidy
  <2>3. Usable'
    BY <2>1 DEF Typed, Usable, Valid
  <2>4. Secret'
    BY <2>1 DEF Typed, Secret
  <2>5. Told'
    BY <2>1 DEF Typed, Told, Secret
  <2> QED BY <2>2, <2>3, <2>4, <2>5 DEF CarefulInv
<1>11. ASSUME NEW w \in Workers, Method(w) PROVE CarefulInv'
  <2>1. PICK h \in Handlers :
           /\ "invalidate" # h \/ ~InUse(bound[w], Workers \ {w})
           /\ dead' = IF h \in {"invalidate", "invalidate, forward"}
                        THEN dead \cup {bound[w]} ELSE dead
           /\ expired' = IF h = "touch" THEN expired \ {bound[w]} ELSE expired
           /\ IF h = "throw" THEN EndRequest(w)
              ELSE IF h \in {"forward", "invalidate, forward"} /\ MayForward(w)
              THEN /\ Goto(w, "begin")
                   /\ passes' = [passes EXCEPT ![w] = IF @ < MaxForward THEN @ + 1 ELSE @]
                   /\ UNCHANGED <<who, sent, bound, setCookie>>
              ELSE Goto(w, "send") /\ UNCHANGED request
    BY <1>11 DEF Method, Careful
  <2>2. wpc[w] = "method" /\ UNCHANGED <<sessions, fresh, jar>> /\ ~fault'
    BY <1>11 DEF Method, UseSession, Usable, Tidy
  <2>3. h # "invalidate, forward"
    BY DEF Careful
  <2>4. \A v \in Workers \ {w} : bound[v] # None => bound[v] \notin dead' \/ bound[v] \in dead
    BY <2>1, <2>3, ServletAssumption DEF InUse, Tidy
  <2>5. CASE h = "throw"
    <3>1. /\ wpc' = [wpc EXCEPT ![w] = "loop"] /\ sent' = [sent EXCEPT ![w] = None]
          /\ bound' = [bound EXCEPT ![w] = None] /\ setCookie' = [setCookie EXCEPT ![w] = None]
          /\ passes' = [passes EXCEPT ![w] = 0] /\ UNCHANGED <<dead, expired>>
      BY <2>1, <2>5 DEF EndRequest, Goto
    <3>2. Usable'
      BY <2>2, <3>1 DEF Typed, Usable, Valid
    <3>3. Secret'
      BY <2>2, <3>1, <1>0 DEF Typed, Secret
    <3>4. Told'
      BY <2>2, <3>1 DEF Typed, Told
    <3> QED BY <2>2, <3>2, <3>3, <3>4 DEF CarefulInv
  <2>6. CASE h = "forward" /\ MayForward(w)
    <3>1. /\ wpc' = [wpc EXCEPT ![w] = "begin"] /\ passes'[w] # 0
          /\ \A v \in Workers \ {w} : passes'[v] = passes[v]
          /\ UNCHANGED <<sent, bound, setCookie, dead, expired>>
      BY <2>1, <2>6 DEF Typed, Goto, MayForward
    <3>2. Usable'
      BY <2>2, <3>1 DEF Typed, Usable, Valid
    <3>3. Secret'
      BY <2>2, <3>1 DEF Secret
    <3>4. Told'
      BY <2>2, <3>1 DEF Typed, Told
    <3> QED BY <2>2, <3>2, <3>3, <3>4 DEF CarefulInv
  <2>7. CASE h # "throw" /\ ~(h = "forward" /\ MayForward(w))
    <3>1. /\ wpc' = [wpc EXCEPT ![w] = "send"]
          /\ UNCHANGED <<sent, bound, setCookie, passes>> /\ expired' \subseteq expired
      BY <2>1, <2>3, <2>7 DEF Goto, request
    <3>2. Usable'
      BY <2>2, <2>4, <3>1 DEF Typed, Usable, Valid
    <3>3. Secret'
      BY <2>2, <3>1 DEF Secret
    <3>4. Told'
      BY <2>2, <3>1 DEF Typed, Told
    <3> QED BY <2>2, <3>2, <3>3, <3>4 DEF CarefulInv
  <2> QED BY <2>5, <2>6, <2>7
<1>12. ASSUME NEW w \in Workers, Send(w) \/ ParseThrows(w) PROVE CarefulInv'
  <2>1. /\ wpc' = [wpc EXCEPT ![w] = "loop"] /\ sent' = [sent EXCEPT ![w] = None]
        /\ bound' = [bound EXCEPT ![w] = None] /\ setCookie' = [setCookie EXCEPT ![w] = None]
        /\ passes' = [passes EXCEPT ![w] = 0] /\ UNCHANGED <<manager, fault>>
        /\ \A c \in Clients : jar'[c] \in {jar[c], setCookie[w]}
    BY <1>12 DEF Typed, Send, ParseThrows, EndRequest, Goto
  <2>2. Usable'
    BY <2>1 DEF Typed, Usable, Valid, manager
  <2>3. Secret'
    BY <2>1, <1>0 DEF Typed, Secret, manager
  <2>4. Told'
    BY <2>1 DEF Typed, Told, manager
  <2> QED BY <2>1, <2>2, <2>3, <2>4 DEF CarefulInv
<1> QED BY <1>1, <1>2, <1>3, <1>4, <1>5, <1>6, <1>6a, <1>7, <1>8, <1>9, <1>10, <1>11, <1>12
        DEF Next, OwnerStep, WorkerStep, RequestStep, ClientStep

\* When no session ends while another request uses it, and no handler forwards
\* a request whose session it has just invalidated, no request is left with an
\* erased session, and every client is told of the session made for it.
THEOREM SessionsStaySound == ASSUME Careful PROVE Spec => []SessionsSound
<1>1. Init => CarefulInv
  BY DEF Init, CarefulInv, Usable, Secret, Told
<1>2. Inv /\ CarefulInv => NoDanglingSession /\ SessionAnnounced
  BY DEF CarefulInv, Told, NoDanglingSession, SessionAnnounced
<1> QED BY <1>1, <1>2, CarefulStep, Invariant, SessionsStayPrivate, PTL DEF Spec, SessionsSound

=============================================================================
