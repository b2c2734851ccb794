---------------------------- MODULE DbConnection ----------------------------
(***************************************************************************)
(* The native handles behind db_mysql_connect, db_sqlite_connect and       *)
(* db_redis_connect of include/MSTL/ext/database_pool.hpp: which object    *)
(* points to which MYSQL, sqlite3 or redisContext, and when that is opened *)
(* and closed. Objects are made by create_connect, pinged by is_valid,     *)
(* reset when they broke, closed where users do so, and deleted.           *)
(***************************************************************************)
EXTENDS Naturals, FiniteSets

CONSTANTS
    Connects,       \* bound: the idb_connect objects alive at a time
    NativeHandles,  \* bound: addresses of native handles; a freed one is reused
    Kinds,          \* the back ends in use, among "mysql", "sqlite", "redis"
    UserCloses,     \* the back ends whose users call close() themselves
    Null            \* the null pointer

VARIABLES
    kind,    \* the class of each object, "none" when there is no object
    ptr,     \* its member mysql, db or context_
    native,  \* the handles the client library has open
    misuse,  \* a handle that was not open was closed or used
    leaks,   \* handles that constructors of db_sqlite_connect left open
    failed   \* a SQLite connection was reset in vain; the behaviour ends

connVars == <<kind, ptr, native, misuse, leaks, failed>>

Live == {o \in Connects : kind[o] # "none"}

InitConnect ==
    /\ kind = [o \in Connects |-> "none"] /\ ptr = [o \in Connects |-> Null]
    /\ native = {} /\ misuse = FALSE /\ leaks = {} /\ failed = FALSE

-----------------------------------------------------------------------------
(* What the methods do to one object: s.p is its pointer, s.open the open  *)
(* handles, s.bad the misuse so far. A definition named ..._<bug> is not   *)
(* part of the model: it is a plausible bug in the definition after it.    *)

Dangling(s) == s.p # Null /\ s.p \notin s.open

OpenHandle(s, h) == [p |-> h, open |-> s.open \cup {h}, bad |-> s.bad]

(* close(): only db_redis_connect clears its pointer.                      *)
CloseHandle_pointer_kept(k, s) == [s EXCEPT !.open = @ \ {s.p}, !.bad = @ \/ Dangling(s)]
CloseHandle(k, s) ==
    [p    |-> IF k = "redis" THEN Null ELSE s.p,
     open |-> s.open \ {s.p},
     bad  |-> s.bad \/ Dangling(s)]

(* The constructor: mysql_init, sqlite3_open of a private file, nothing.   *)
Construct(k, s, h) == IF k = "redis" THEN s ELSE OpenHandle(s, h)

(* connect_to and connect_to_file open the file twice and close it once.   *)
SqliteConnect(s, h, q, ok) ==
    LET t == OpenHandle(CloseHandle("sqlite", OpenHandle(s, h)), q)
    IN  IF ok THEN t ELSE CloseHandle("sqlite", t)

(* connect_to_host: a failure to connect, authenticate or select frees it. *)
RedisConnect_kept(s, h, ok) == OpenHandle(s, h)
RedisConnect(s, h, ok) ==
    IF ok THEN OpenHandle(s, h) ELSE [p |-> Null, open |-> s.open, bad |-> s.bad]

(* connect_to: MySQL connects the handle that it already has.              *)
ConnectTo(k, s, h, q, ok) ==
    CASE k = "mysql"  -> s
      [] k = "sqlite" -> SqliteConnect(s, h, q, ok)
      [] k = "redis"  -> RedisConnect(s, h, ok)

(* reset_connect: close, mysql_init for MySQL, and connect_to.             *)
ResetTo_unclosed(k, s, h, q, ok) ==
    IF k = "mysql" THEN OpenHandle(s, h) ELSE ConnectTo(k, s, h, q, ok)
ResetTo(k, s, h, q, ok) ==
    LET t == CloseHandle(k, s)
    IN  IF k = "mysql" THEN OpenHandle(t, h) ELSE ConnectTo(k, t, h, q, ok)

-----------------------------------------------------------------------------

View(o) == [p |-> ptr[o], open |-> native, bad |-> misuse]

Becomes(o, k, s) ==
    /\ kind' = [kind EXCEPT ![o] = k]
    /\ ptr' = [ptr EXCEPT ![o] = IF k = "none" THEN Null ELSE s.p]
    /\ native' = s.open /\ misuse' = s.bad

(* create_connect: construct, connect_to, and on failure delete, which     *)
(* db_sqlite_factory forgets, so that the object is lost.                  *)
Discard(k, s) == IF k = "sqlite" THEN s ELSE CloseHandle(k, s)
Create(o, k, ok) ==
    /\ kind[o] = "none"
    /\ \E f, h, q \in NativeHandles \ native :
          /\ f # h /\ f # q
          /\ LET s == ConnectTo(k, Construct(k, View(o), f), h, q, ok)
             IN  IF ok THEN Becomes(o, k, s) ELSE Becomes(o, "none", Discard(k, s))
          /\ leaks' = IF k = "sqlite" THEN leaks \cup {f} ELSE leaks
    /\ UNCHANGED failed

(* reset_connect of a connected object; Redis resets whatever it has.      *)
Reset(o, ok) ==
    /\ o \in Live /\ (ptr[o] # Null \/ kind[o] = "redis")
    /\ \E h, q \in NativeHandles \ (native \ {ptr[o]}) :
          Becomes(o, kind[o], ResetTo(kind[o], View(o), h, q, ok))
    /\ failed' = (kind[o] = "sqlite" /\ ~ok) /\ UNCHANGED leaks

(* is_valid and every query use the handle, if there is one.               *)
Use(o) ==
    /\ o \in Live
    /\ misuse' = (misuse \/ Dangling(View(o)))
    /\ UNCHANGED <<kind, ptr, native, leaks, failed>>

CloseConnect(o) ==
    /\ o \in Live /\ kind[o] \in UserCloses
    /\ Becomes(o, kind[o], CloseHandle(kind[o], View(o)))
    /\ UNCHANGED <<leaks, failed>>

(* Every destructor calls close().                                         *)
Delete(o) ==
    /\ o \in Live
    /\ Becomes(o, "none", CloseHandle(kind[o], View(o)))
    /\ UNCHANGED <<leaks, failed>>

NextConnect == ~failed /\
    \E o \in Connects :
        \/ \E k \in Kinds, ok \in BOOLEAN : Create(o, k, ok)
        \/ \E ok \in BOOLEAN : Reset(o, ok)
        \/ Use(o) \/ CloseConnect(o) \/ Delete(o)

SpecConnect == InitConnect /\ [][NextConnect]_connVars

-----------------------------------------------------------------------------

\* No handle is closed twice or used after it was closed, and every open one
\* belongs to exactly one object, so that none leaks or is shared: through
\* resets that fail, deletions and handle addresses that are used again. SQLite
\* connections leak the handle of their constructor, and nothing holds once one
\* was reset and could not open its file: it closes its handle a second time.
HandlesSound == ~failed =>
    /\ ~misuse
    /\ native = leaks \cup ({ptr[o] : o \in Live} \ {Null})
    /\ \A o, u \in Live : ptr[o] = ptr[u] /\ ptr[o] # Null => o = u /\ ptr[o] \notin leaks

=============================================================================
