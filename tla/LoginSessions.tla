--------------------------- MODULE LoginSessions ---------------------------
(***************************************************************************)
(* Sessions (SessionStore of backend/app/auth.py, the login and logout     *)
(* routes of main.py).  A session is a Redis hash: it is written and given *)
(* its expiry by two commands, a request reads it by one command and       *)
(* renews it by another, and time passes between any two.  The login that  *)
(* PAM accepted comes from LoginThrottle.                                  *)
(***************************************************************************)
EXTENDS Integers

CONSTANTS
  SessionIds,   \* session identifiers
  Browsers,     \* requests that may run at the same time
  IdleTTL,      \* session_idle_ttl_seconds
  TTL,          \* session_ttl_seconds
  LastHour      \* bound: how long time passes

ASSUME LoginAssumption ==
  IdleTTL \in Nat \ {0} /\ TTL \in Nat \ {0} /\ LastHour \in Nat

VARIABLES
  hour,         \* the time
  session,      \* the Redis hashes: creation and expiry
  cookie,       \* of each session: unused, being created, given to the operator, lost
  request,      \* what each request read of its session
  loggedOut,    \* sessions whose logout answered
  served,       \* the request served last: what it read
  renewed       \* when each session was last renewed

loginVars == <<hour, session, cookie, request, loggedOut, served, renewed>>

Never == -1
NoSession == [created |-> Never, expires |-> Never]
NoRequest == [op |-> "idle"]
Unserved == [age |-> 0, idle |-> 0, out |-> FALSE]

LoginInit ==
  /\ hour = 0 /\ loggedOut = {} /\ served = Unserved
  /\ session = [i \in SessionIds |-> NoSession]
  /\ cookie = [i \in SessionIds |-> "unused"]
  /\ request = [b \in Browsers |-> NoRequest]
  /\ renewed = [i \in SessionIds |-> Never]

-----------------------------------------------------------------------------
(* SessionStore                                                            *)

Exists(i) == session[i] # NoSession
MinTTL(a, b) == IF a < b THEN a ELSE b
(* EXPIRE of a key that is gone does nothing.                              *)
Expiring(i, ttl) ==
  [session EXCEPT ![i] = IF Exists(i) THEN [@ EXCEPT !.expires = hour + ttl] ELSE @]

(* create: HSET, then EXPIRE; the cookie is set by the answer.             *)
WriteSession(i) ==
  /\ cookie[i] = "unused" /\ cookie' = [cookie EXCEPT ![i] = "creating"]
  /\ session' = [session EXCEPT ![i] = [created |-> hour, expires |-> Never]]
  /\ UNCHANGED <<hour, request, loggedOut, served, renewed>>
ExpireSession(i) ==
  /\ cookie[i] = "creating" /\ cookie' = [cookie EXCEPT ![i] = "given"]
  /\ session' = Expiring(i, MinTTL(IdleTTL, TTL)) /\ renewed' = [renewed EXCEPT ![i] = hour]
  /\ UNCHANGED <<hour, request, loggedOut, served>>
(* Redis does not answer, or the backend restarts: the hash stays behind.  *)
CreateFails(i) ==
  /\ cookie[i] = "creating" /\ cookie' = [cookie EXCEPT ![i] = "lost"]
  /\ UNCHANGED <<hour, session, request, loggedOut, served, renewed>>

(* get: HGETALL, and DEL of a session past its absolute lifetime ...       *)
\* Mutant: only the idle time ends a session.
Renewable(i) == TRUE
WithinTTL(i) == hour - session[i].created < TTL
GetSession(b, i, op) ==
  /\ request[b] = NoRequest /\ cookie[i] = "given" /\ Exists(i)
  /\ IF WithinTTL(i)
     THEN /\ request' = [request EXCEPT ![b] =
               [op |-> op, id |-> i,
                read |-> [age |-> hour - session[i].created, idle |-> hour - renewed[i],
                          out |-> i \in loggedOut],
                ttl |-> MinTTL(IdleTTL, TTL - (hour - session[i].created))]]
          /\ UNCHANGED session
     ELSE /\ session' = [session EXCEPT ![i] = NoSession] /\ UNCHANGED request
  /\ UNCHANGED <<hour, cookie, loggedOut, served, renewed>>

(* ... and EXPIRE: the request is served.                                  *)
RenewSession(b) ==
  /\ request[b].op \in {"serve", "logout"}
  /\ LET r == request[b] IN
       /\ session' = Expiring(r.id, r.ttl)
       /\ renewed' = IF Exists(r.id) THEN [renewed EXCEPT ![r.id] = hour] ELSE renewed
       /\ served' = r.read
       /\ request' = [request EXCEPT ![b] =
            IF r.op = "logout" THEN [op |-> "delete", id |-> r.id] ELSE NoRequest]
  /\ UNCHANGED <<hour, cookie, loggedOut>>

(* logout, once the request was served.                                    *)
DeleteSession(b) ==
  /\ request[b].op = "delete" /\ request' = [request EXCEPT ![b] = NoRequest]
  /\ session' = [session EXCEPT ![request[b].id] = NoSession]
  /\ loggedOut' = loggedOut \cup {request[b].id}
  /\ UNCHANGED <<hour, cookie, served, renewed>>

RequestDies(b) ==
  /\ request[b] # NoRequest /\ request' = [request EXCEPT ![b] = NoRequest]
  /\ UNCHANGED <<hour, session, cookie, loggedOut, served, renewed>>

(* Time passes, and Redis drops what has expired.                          *)
HourPasses ==
  /\ hour < LastHour /\ hour' = hour + 1
  /\ session' = [i \in SessionIds |->
       IF session[i].expires # Never /\ session[i].expires <= hour'
       THEN NoSession ELSE session[i]]
  /\ UNCHANGED <<cookie, request, loggedOut, served, renewed>>

LoginNext ==
  \/ \E i \in SessionIds : WriteSession(i) \/ ExpireSession(i) \/ CreateFails(i)
  \/ \E b \in Browsers, i \in SessionIds, op \in {"serve", "logout"} : GetSession(b, i, op)
  \/ \E b \in Browsers : RenewSession(b) \/ DeleteSession(b) \/ RequestDies(b)
  \/ HourPasses

LoginSpec == LoginInit /\ [][LoginNext]_loginVars

-----------------------------------------------------------------------------
(* Properties                                                              *)

LoginTypeOK ==
  /\ hour \in 0..LastHour
  /\ \A i \in SessionIds : Exists(i) => session[i].created \in 0..hour
  /\ cookie \in [SessionIds -> {"unused", "creating", "given", "lost"}]
  /\ loggedOut \subseteq {i \in SessionIds : cookie[i] = "given"}

(* With logins, requests and logouts interleaved at each Redis command: a  *)
(* request is served only by a session younger than its absolute lifetime, *)
(* renewed within its idle time, and not logged out before it was read;    *)
(* and a hash that was never given its expiry is one nobody was given.     *)
SessionBounded ==
  /\ served.age < TTL /\ served.idle < IdleTTL /\ ~served.out
  /\ \A i \in SessionIds : Exists(i) /\ session[i].expires = Never => cookie[i] # "given"
=============================================================================
