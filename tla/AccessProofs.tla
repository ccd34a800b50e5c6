---------------------------- MODULE AccessProofs ----------------------------
(***************************************************************************)
(* What the operator is let in by and told.  No request is served by a     *)
(* session that has lapsed or was logged out; the bridge admits a bounded  *)
(* number of attempts in any window, and PAM is asked once for each, not   *)
(* before it was admitted; no plan event is marked SENT without being      *)
(* emailed or overtaken, and the state file of the health monitor keeps to *)
(* what the operator was sent.  For any sessions, requests, sources,       *)
(* plans, limits and failures, with all steps interleaved.                 *)
(*                                                                         *)
(* A request is served two commands after its session was read, so the     *)
(* invariant of sessions speaks of what each request read; and that what   *)
(* it read was within the limits follows from how a hash's expiry is bound *)
(* to the last renewal.  AttemptsSpaced needs that what the bridge forgot  *)
(* of its history is older than a window, and that every thread that may   *)
(* yet ask has an admission of its own.  OperatorTold needs what the       *)
(* script emailed one step before it marks, and the health its alert named *)
(* before it saves.                                                        *)
(***************************************************************************)
EXTENDS LoginSessions, LoginThrottle, PlanNotifications, FiniteSums

-----------------------------------------------------------------------------
(* Sessions                                                                *)

Hashes == [created: Int, expires: Int]

(* A hash that was given to the operator expires, later than now and at    *)
(* most the idle time after it was last renewed.                           *)
HashInv ==
  /\ hour \in Nat /\ session \in [SessionIds -> Hashes] /\ renewed \in [SessionIds -> Int]
  /\ cookie = [i \in SessionIds |-> cookie[i]]
  /\ \A i \in SessionIds :
       Exists(i) /\ cookie[i] = "given" =>
         /\ session[i].expires # Never /\ hour < session[i].expires
         /\ session[i].expires <= renewed[i] + IdleTTL

(* A session that was logged out is gone, and is not created again.        *)
GoneInv ==
  \A i \in loggedOut : i \in SessionIds /\ session[i] = NoSession /\ cookie[i] = "given"

Within(read) == read.age < TTL /\ read.idle < IdleTTL /\ ~read.out

(* What a request read was within the limits, and so is what it will set.  *)
RequestInv(b) ==
  /\ request[b].op \in {"serve", "logout"} =>
       /\ request[b].id \in SessionIds /\ cookie[request[b].id] = "given"
       /\ Within(request[b].read)
       /\ request[b].ttl \in Int /\ 0 < request[b].ttl /\ request[b].ttl <= IdleTTL
  /\ request[b].op = "delete" =>
       request[b].id \in SessionIds /\ cookie[request[b].id] = "given"

RequestsInv == request = [b \in Browsers |-> request[b]] /\ \A b \in Browsers : RequestInv(b)

LInv == HashInv /\ GoneInv /\ RequestsInv /\ Within(served)

-----------------------------------------------------------------------------
(* Creating a session and losing one touch no session that was given.      *)
LEMMA CreationKeeps ==
  ASSUME LInv, NEW i \in SessionIds, WriteSession(i) \/ ExpireSession(i) \/ CreateFails(i)
  PROVE  LInv'
<1>1. UNCHANGED <<hour, request, loggedOut, served>>
  BY DEF WriteSession, ExpireSession, CreateFails
<1>2. HashInv'
  <2>1. CASE WriteSession(i)
    BY <2>1 DEF WriteSession, LInv, HashInv, Hashes, Exists, Never
  <2>2. CASE ExpireSession(i)
    <3> DEFINE ttl == MinTTL(IdleTTL, TTL)
    <3>1. ttl \in Int /\ 0 < ttl /\ ttl <= IdleTTL BY LoginAssumption DEF MinTTL
    <3>2. session' = Expiring(i, ttl) /\ renewed' = [renewed EXCEPT ![i] = hour]
          /\ cookie' = [cookie EXCEPT ![i] = "given"]
      BY <2>2 DEF ExpireSession
    <3> HIDE DEF ttl
    <3>3. CASE Exists(i)
      <4> DEFINE h == [session[i] EXCEPT !.expires = hour + ttl]
      <4>1. session' = [session EXCEPT ![i] = h] BY <3>2, <3>3 DEF Expiring
      <4>2. h \in Hashes /\ h.expires = hour + ttl BY <3>1 DEF LInv, HashInv, Hashes
      <4> HIDE DEF h
      <4>3. h.expires # Never /\ hour < h.expires /\ h.expires <= hour + IdleTTL
        BY <3>1, <4>2, LoginAssumption DEF LInv, HashInv, Never
      <4>4. session' \in [SessionIds -> Hashes] /\ renewed' \in [SessionIds -> Int]
        BY <3>2, <4>1, <4>2 DEF LInv, HashInv
      <4>5. QED BY <1>1, <3>2, <4>1, <4>3, <4>4 DEF LInv, HashInv, Exists
    <3>4. CASE ~Exists(i)
      <4>1. session' = session BY <3>2, <3>4 DEF Expiring, LInv, HashInv
      <4>2. QED BY <1>1, <3>2, <3>4, <4>1 DEF LInv, HashInv, Hashes, Exists
    <3>5. QED BY <3>3, <3>4
  <2>3. CASE CreateFails(i)
    BY <2>3 DEF CreateFails, LInv, HashInv, Hashes, Exists
  <2>4. QED BY <2>1, <2>2, <2>3
<1>3. \A k \in SessionIds : cookie[k] = "given" =>
        cookie'[k] = "given" /\ (session[k] = NoSession => session'[k] = NoSession)
  BY DEF WriteSession, ExpireSession, CreateFails, LInv, HashInv, Expiring, Exists
<1>4. GoneInv' BY <1>1, <1>3 DEF LInv, GoneInv
<1>5. RequestsInv' BY <1>1, <1>3 DEF LInv, RequestsInv, RequestInv
<1>6. QED BY <1>1, <1>2, <1>4, <1>5 DEF LInv

(* A session that is read was renewed within its idle time, or it would    *)
(* have expired.                                                           *)
LEMMA GetKeeps ==
  ASSUME LInv, NEW b \in Browsers, NEW i \in SessionIds, NEW op \in {"serve", "logout"},
         GetSession(b, i, op)
  PROVE  LInv'
<1>1. UNCHANGED <<hour, cookie, loggedOut, served, renewed>> BY DEF GetSession
<1>2. CASE WithinTTL(i)
  <2> DEFINE read == [age |-> hour - session[i].created, idle |-> hour - renewed[i],
                      out |-> i \in loggedOut]
             ttl == MinTTL(IdleTTL, TTL - (hour - session[i].created))
  <2>1. request' = [request EXCEPT ![b] = [op |-> op, id |-> i, read |-> read, ttl |-> ttl]]
        /\ UNCHANGED session
    BY <1>2 DEF GetSession
  <2>2. i \notin loggedOut BY DEF GetSession, LInv, GoneInv, Exists
  <2>3. read.age < TTL /\ read.idle < IdleTTL
    BY <1>2, LoginAssumption DEF WithinTTL, GetSession, LInv, HashInv, Hashes
  <2>4. ttl \in Int /\ 0 < ttl /\ ttl <= IdleTTL
    BY <1>2, LoginAssumption DEF WithinTTL, LInv, HashInv, Hashes, MinTTL
  <2>5. Within(read) BY <2>2, <2>3, Zenon DEF Within
  <2>6. cookie[i] = "given" BY DEF GetSession
  <2> HIDE DEF read, ttl
  <2>7. RequestsInv' BY <1>1, <2>1, <2>4, <2>5, <2>6 DEF LInv, RequestsInv, RequestInv
  <2>8. QED BY <1>1, <2>1, <2>7 DEF LInv, HashInv, GoneInv, Exists
<1>3. CASE ~WithinTTL(i)
  <2>1. session' = [session EXCEPT ![i] = NoSession] /\ UNCHANGED request
    BY <1>3 DEF GetSession
  <2>2. HashInv' BY <1>1, <2>1 DEF LInv, HashInv, Hashes, NoSession, Never, Exists
  <2>3. GoneInv' BY <1>1, <2>1 DEF LInv, GoneInv, HashInv
  <2>4. QED BY <1>1, <2>1, <2>2, <2>3 DEF LInv, RequestsInv, RequestInv
<1>4. QED BY <1>2, <1>3

(* A renewal sets an expiry within the idle time of the moment it runs.    *)
LEMMA RenewKeeps ==
  ASSUME LInv, NEW b \in Browsers, RenewSession(b) PROVE LInv'
<1> DEFINE r == request[b]
<1>1. /\ UNCHANGED <<hour, cookie, loggedOut>>
      /\ session' = Expiring(r.id, r.ttl) /\ served' = r.read
      /\ renewed' = IF Exists(r.id) THEN [renewed EXCEPT ![r.id] = hour] ELSE renewed
      /\ request' = [request EXCEPT ![b] =
           IF r.op = "logout" THEN [op |-> "delete", id |-> r.id] ELSE NoRequest]
  BY DEF RenewSession
<1>2. /\ r.id \in SessionIds /\ cookie[r.id] = "given" /\ Within(r.read)
      /\ r.ttl \in Int /\ 0 < r.ttl /\ r.ttl <= IdleTTL
  BY DEF RenewSession, LInv, RequestsInv, RequestInv
<1>3. HashInv'
  BY <1>1, <1>2, LoginAssumption DEF LInv, HashInv, Hashes, Expiring, Exists, NoSession, Never
<1>4. GoneInv' BY <1>1, <1>2 DEF LInv, GoneInv, Expiring, Exists
<1>5. RequestsInv' BY <1>1, <1>2 DEF LInv, RequestsInv, RequestInv, NoRequest
<1>6. QED BY <1>1, <1>2, <1>3, <1>4, <1>5 DEF LInv

LEMMA EndKeeps ==
  ASSUME LInv, NEW b \in Browsers, DeleteSession(b) \/ RequestDies(b) PROVE LInv'
<1>1. UNCHANGED <<hour, cookie, served, renewed>> /\ request' = [request EXCEPT ![b] = NoRequest]
  BY DEF DeleteSession, RequestDies
<1>2. RequestsInv' BY <1>1 DEF LInv, RequestsInv, RequestInv, NoRequest
<1>3. HashInv' /\ GoneInv'
  <2>1. CASE DeleteSession(b)
    <3>1. request[b].id \in SessionIds /\ cookie[request[b].id] = "given"
      BY <2>1 DEF DeleteSession, LInv, RequestsInv, RequestInv
    <3>2. HashInv' BY <1>1, <2>1, <3>1
      DEF DeleteSession, LInv, HashInv, Hashes, NoSession, Never, Exists
    <3>3. GoneInv' BY <1>1, <2>1, <3>1 DEF DeleteSession, LInv, GoneInv, HashInv
    <3>4. QED BY <3>2, <3>3
  <2>2. CASE RequestDies(b) BY <1>1, <2>2 DEF RequestDies, LInv, HashInv, GoneInv, Exists
  <2>3. QED BY <2>1, <2>2
<1>4. QED BY <1>1, <1>2, <1>3 DEF LInv

(* Redis drops what expires, so what is left expires later than now.       *)
LEMMA HourKeeps ==
  ASSUME LInv, HourPasses PROVE LInv'
<1>1. UNCHANGED <<cookie, request, loggedOut, served, renewed>> /\ hour' = hour + 1
  BY DEF HourPasses
<1>2. \A i \in SessionIds :
        \/ session'[i] = NoSession
        \/ session'[i] = session[i] /\ (session[i].expires = Never \/ session[i].expires > hour + 1)
  BY <1>1 DEF HourPasses, LInv, HashInv, Hashes
<1>3. session' = [i \in SessionIds |-> session'[i]] BY DEF HourPasses
<1>4. HashInv'
  BY <1>1, <1>2, <1>3 DEF LInv, HashInv, Hashes, Exists, NoSession, Never
<1>5. GoneInv' BY <1>1, <1>2 DEF LInv, GoneInv
<1>6. QED BY <1>1, <1>4, <1>5 DEF LInv, RequestsInv, RequestInv

-----------------------------------------------------------------------------
(* Every Redis command of the store keeps the invariant.                   *)
THEOREM LoginInductive == LoginSpec => []LInv
<1>1. LoginInit => LInv
  <2>1. LoginInit => HashInv
    BY DEF LoginInit, HashInv, Hashes, NoSession, Never, Exists
  <2>2. LoginInit => GoneInv /\ RequestsInv
    BY DEF LoginInit, GoneInv, RequestsInv, RequestInv, NoRequest
  <2>3. LoginInit => Within(served)
    BY LoginAssumption DEF LoginInit, Within, Unserved
  <2>4. QED BY <2>1, <2>2, <2>3 DEF LInv
<1>2. LInv /\ [LoginNext]_loginVars => LInv'
  <2>1. ASSUME LInv, LoginNext PROVE LInv'
    BY <2>1, CreationKeeps, GetKeeps, RenewKeeps, EndKeeps, HourKeeps DEF LoginNext
  <2>2. ASSUME LInv, UNCHANGED loginVars PROVE LInv'
    BY <2>2 DEF loginVars, LInv, HashInv, GoneInv, RequestsInv, RequestInv, Exists
  <2>3. QED BY <2>1, <2>2
<1>3. QED BY <1>1, <1>2, PTL DEF LoginSpec

(* A request is served only within its session's lifetime and idle time    *)
(* and not after its logout, and a hash without expiry was given to nobody *)
(* (SessionStore.create, get and delete).                                  *)
THEOREM SessionsBounded == LoginSpec => []SessionBounded
<1>1. LInv => SessionBounded
  BY DEF LInv, Within, HashInv, SessionBounded
<1>2. QED BY LoginInductive, <1>1, PTL

(* Types: a hash was created in the past, and what was logged out had been *)
(* given.                                                                  *)
LoginTypesInv ==
  /\ hour \in 0..LastHour
  /\ \A i \in SessionIds : Exists(i) => session[i].created \in 0..hour
  /\ cookie \in [SessionIds -> {"unused", "creating", "given", "lost"}]

(* A hash is new, or has the creation it had, or is gone.                  *)
LEMMA CreationStays ==
  ASSUME LInv, LoginNext, NEW i \in SessionIds
  PROVE  \/ session'[i] = NoSession
         \/ Exists(i) /\ session'[i].created = session[i].created
         \/ session'[i].created = hour
<1> USE DEF LInv, HashInv, Hashes
<1>1. ASSUME NEW k \in SessionIds, NEW ttl,
             session' = Expiring(k, ttl)
      PROVE  session'[i] = NoSession \/ (Exists(i) /\ session'[i].created = session[i].created)
  <2>1. CASE Exists(k)
    <3> DEFINE h == [session[k] EXCEPT !.expires = hour + ttl]
    <3>1. session' = [session EXCEPT ![k] = h] BY <1>1, <2>1 DEF Expiring
    <3>2. h.created = session[k].created OBVIOUS
    <3> HIDE DEF h
    <3>3. QED BY <2>1, <3>1, <3>2 DEF Exists
  <2>2. CASE ~ Exists(k)
    <3>1. session' = session BY <1>1, <2>2 DEF Expiring
    <3>2. QED BY <3>1 DEF Exists
  <2>3. QED BY <2>1, <2>2
<1>2. ASSUME NEW k \in SessionIds, WriteSession(k) \/ ExpireSession(k) \/ CreateFails(k)
      PROVE  \/ session'[i] = NoSession
             \/ Exists(i) /\ session'[i].created = session[i].created
             \/ session'[i].created = hour
  <2>1. CASE WriteSession(k) BY <2>1 DEF WriteSession, Exists
  <2>2. CASE ExpireSession(k) BY <1>1, <2>2 DEF ExpireSession
  <2>3. CASE CreateFails(k) BY <2>3 DEF CreateFails, Exists
  <2>4. QED BY <1>2, <2>1, <2>2, <2>3
<1>3. ASSUME NEW b \in Browsers, NEW k \in SessionIds, NEW op \in {"serve", "logout"},
             GetSession(b, k, op)
      PROVE  session'[i] = NoSession \/ (Exists(i) /\ session'[i].created = session[i].created)
  BY <1>3 DEF GetSession, Exists
<1>4. ASSUME NEW b \in Browsers, RenewSession(b) \/ DeleteSession(b) \/ RequestDies(b)
      PROVE  session'[i] = NoSession \/ (Exists(i) /\ session'[i].created = session[i].created)
  <2>1. CASE RenewSession(b)
    <3>1. request[b].id \in SessionIds /\ session' = Expiring(request[b].id, request[b].ttl)
      BY <2>1 DEF RenewSession, RequestsInv, RequestInv
    <3>2. QED BY <1>1, <3>1
  <2>2. CASE DeleteSession(b) BY <2>2 DEF DeleteSession, Exists
  <2>3. CASE RequestDies(b) BY <2>3 DEF RequestDies, Exists
  <2>4. QED BY <1>4, <2>1, <2>2, <2>3
<1>5. CASE HourPasses BY <1>5 DEF HourPasses, Exists
<1>6. QED BY <1>2, <1>3, <1>4, <1>5 DEF LoginNext

LEMMA CookieTyped ==
  ASSUME LInv, LoginTypesInv, LoginNext
  PROVE  /\ cookie' \in [SessionIds -> {"unused", "creating", "given", "lost"}]
         /\ hour' \in {hour, hour + 1} /\ hour' \in 0..LastHour
<1>1. ASSUME NEW i \in SessionIds, WriteSession(i) \/ ExpireSession(i) \/ CreateFails(i)
      PROVE  cookie' \in [SessionIds -> {"unused", "creating", "given", "lost"}] /\ hour' = hour
  BY <1>1 DEF WriteSession, ExpireSession, CreateFails, LoginTypesInv
<1>2. ASSUME NEW b \in Browsers,
             \/ \E i \in SessionIds, op \in {"serve", "logout"} : GetSession(b, i, op)
             \/ RenewSession(b) \/ DeleteSession(b) \/ RequestDies(b)
      PROVE  UNCHANGED <<cookie, hour>>
  BY <1>2 DEF GetSession, RenewSession, DeleteSession, RequestDies
<1>3. CASE HourPasses BY <1>3, LoginAssumption DEF HourPasses, LoginTypesInv
<1>4. QED BY <1>1, <1>2, <1>3 DEF LoginNext, LoginTypesInv

(* Every session, cookie and counter of the store has its type.            *)
THEOREM LoginTypeCorrect == LoginSpec => []LoginTypeOK
<1>1. LoginInit => LoginTypesInv
  BY LoginAssumption DEF LoginInit, LoginTypesInv, Exists
<1>2. LInv /\ LoginTypesInv /\ [LoginNext]_loginVars => LoginTypesInv'
  <2>1. ASSUME LInv, LoginTypesInv, LoginNext PROVE LoginTypesInv'
    <3>1. ASSUME NEW i \in SessionIds, session'[i] # NoSession
          PROVE  session'[i].created \in 0..hour'
      <4>1. \/ Exists(i) /\ session'[i].created = session[i].created
            \/ session'[i].created = hour
        BY <2>1, <3>1, CreationStays
      <4>2. hour' \in {hour, hour + 1} /\ hour \in Nat
        BY <2>1, CookieTyped DEF LInv, HashInv
      <4>3. QED BY <2>1, <4>1, <4>2 DEF LoginTypesInv
    <3>2. QED BY <2>1, <3>1, CookieTyped DEF LoginTypesInv, Exists
  <2>2. ASSUME LoginTypesInv, UNCHANGED loginVars PROVE LoginTypesInv'
    BY <2>2 DEF loginVars, LoginTypesInv, Exists
  <2>3. QED BY <2>1, <2>2
<1>3. LInv /\ LoginTypesInv => LoginTypeOK
  BY DEF LInv, GoneInv, LoginTypesInv, LoginTypeOK
<1>4. QED BY <1>1, <1>2, <1>3, LoginInductive, PTL DEF LoginSpec

-----------------------------------------------------------------------------
(* Login attempts                                                          *)

(* The bridge remembers the end of its history, and what it forgot is      *)
(* older than a window.                                                    *)
Forgotten == Len(admitted) - Len(bridge)
BridgeInv ==
  /\ minute \in Int /\ admitted \in Seq(Int) /\ bridge \in Seq(Int)
  /\ Len(bridge) <= Len(admitted)
  /\ \A k \in 1..Len(bridge) : bridge[k] = admitted[Forgotten + k]
  /\ \A k \in 1..Forgotten : minute - admitted[k] > Window
  /\ \A k \in 1..Len(admitted) : admitted[k] <= minute

AdmissionsSpaced ==
  \A k \in 1..(Len(admitted) - BridgeLimit) : admitted[k + BridgeLimit] - admitted[k] > Window

(* Every ask, and every thread that may yet ask, has an admission.         *)
AsksInv ==
  /\ pam \in Seq(Int) /\ reading \in Nat
  /\ Len(pam) + reading <= Len(admitted)
  /\ \A k \in 1..Len(pam) : admitted[k] <= pam[k]

TInv == BridgeInv /\ AdmissionsSpaced /\ AsksInv

(* Popping leaves a suffix, and pops only what is before the cutoff.       *)
LEMMA PoppedIsSuffix ==
  ASSUME NEW seen \in Seq(Int), NEW cutoff \in Int
  PROVE  \E n \in 0..Len(seen) :
           /\ Popped(seen, cutoff) \in Seq(Int) /\ Len(Popped(seen, cutoff)) = Len(seen) - n
           /\ \A k \in 1..(Len(seen) - n) : Popped(seen, cutoff)[k] = seen[n + k]
           /\ \A k \in 1..n : seen[k] < cutoff
<1> DEFINE Stops == {k \in 1..(Len(seen) + 1) : k <= Len(seen) => seen[k] >= cutoff}
           First(k) == /\ \A j \in 1..(k - 1) : seen[j] < cutoff
                       /\ k <= Len(seen) => seen[k] >= cutoff
           first == CHOOSE k \in 1..(Len(seen) + 1) : First(k)
<1>1. \E k \in 1..(Len(seen) + 1) : First(k)
  <2>1. Len(seen) + 1 \in Stops /\ Stops \in SUBSET Nat OBVIOUS
  <2>2. PICK k \in Stops : \A m \in Stops : k <= m
    <3> HIDE DEF Stops
    <3>1. QED BY <2>1, SmallestNumber
  <2>3. ASSUME NEW j \in 1..(k - 1) PROVE seen[j] < cutoff
    <3>1. j \in 1..Len(seen) /\ j \notin Stops BY <2>2
    <3>2. QED BY <3>1
  <2>4. QED BY <2>2, <2>3
<1>2. first \in 1..(Len(seen) + 1) /\ First(first)
  <2> HIDE DEF First
  <2>1. QED BY <1>1
<1>3. Popped(seen, cutoff) = SubSeq(seen, first, Len(seen)) BY DEF Popped
<1> HIDE DEF first
<1>4. first - 1 \in 0..Len(seen) BY <1>2
<1>5. /\ Popped(seen, cutoff) \in Seq(Int)
      /\ Len(Popped(seen, cutoff)) = Len(seen) - (first - 1)
      /\ \A k \in 1..(Len(seen) - (first - 1)) : Popped(seen, cutoff)[k] = seen[(first - 1) + k]
  BY <1>2, <1>3
<1>6. QED BY <1>2, <1>4, <1>5

(* One attempt more than the bridge still counts is a window after one it  *)
(* forgot.                                                                 *)
LEMMA AllowKeeps ==
  ASSUME TInv, Allow PROVE TInv'
<1> DEFINE seen == Recent(bridge)
<1>1. minute \in Int /\ admitted \in Seq(Int) /\ bridge \in Seq(Int) BY DEF TInv, BridgeInv
<1>2. minute' = minute BY DEF Allow
<1>3. PICK n \in 0..Len(bridge) :
        /\ seen \in Seq(Int) /\ Len(seen) = Len(bridge) - n
        /\ \A k \in 1..(Len(bridge) - n) : seen[k] = bridge[n + k]
        /\ \A k \in 1..n : bridge[k] < minute - Window
  <2>1. seen = Popped(bridge, minute - Window) /\ minute - Window \in Int
    BY <1>1, ThrottleAssumption DEF Recent
  <2> HIDE DEF seen
  <2>2. QED BY <1>1, <2>1, PoppedIsSuffix
<1> HIDE DEF seen
<1> DEFINE lost == Len(admitted) - Len(seen)
<1>4. lost \in 0..Len(admitted) /\ lost = Forgotten + n /\ Len(seen) \in Nat
  BY <1>1, <1>3 DEF TInv, BridgeInv, Forgotten
<1>5. \A k \in 1..Len(seen) : seen[k] = admitted[lost + k]
  BY <1>1, <1>3, <1>4 DEF TInv, BridgeInv, Forgotten
<1>6. \A k \in 1..lost : minute - admitted[k] > Window
  <2>1. ASSUME NEW k \in 1..lost, k > Forgotten PROVE minute - admitted[k] > Window
    <3>1. Forgotten \in Nat BY <1>1 DEF TInv, BridgeInv, Forgotten
    <3>2. k - Forgotten \in 1..n /\ k - Forgotten \in 1..Len(bridge)
      BY <1>1, <1>3, <1>4, <2>1, <3>1
    <3>3. bridge[k - Forgotten] = admitted[k] BY <3>1, <3>2 DEF TInv, BridgeInv
    <3>4. bridge[k - Forgotten] < minute - Window BY <1>3, <3>2
    <3>5. admitted[k] \in Int BY <1>1, <1>4
    <3>6. QED BY <1>1, <3>3, <3>4, <3>5, ThrottleAssumption
  <2>2. ASSUME NEW k \in 1..lost, ~(k > Forgotten) PROVE minute - admitted[k] > Window
    <3>1. Forgotten \in Nat BY <1>1 DEF TInv, BridgeInv, Forgotten
    <3>2. k \in 1..Forgotten BY <1>4, <2>2, <3>1
    <3>3. QED BY <3>2 DEF TInv, BridgeInv
  <2>3. QED BY <2>1, <2>2
<1>7. CASE Len(seen) < BridgeLimit
  <2>1. /\ bridge' = Append(seen, minute) /\ admitted' = Append(admitted, minute)
        /\ reading' = reading + 1 /\ pam' = pam
    BY <1>1, <1>3, <1>7, ThrottleAssumption DEF Allow, seen
  <2>2. /\ bridge' \in Seq(Int) /\ admitted' \in Seq(Int)
        /\ Len(bridge') = Len(seen) + 1 /\ Len(admitted') = Len(admitted) + 1
        /\ \A k \in 1..Len(admitted) : admitted'[k] = admitted[k]
        /\ admitted'[Len(admitted) + 1] = minute
        /\ \A k \in 1..Len(seen) : bridge'[k] = seen[k]
        /\ bridge'[Len(seen) + 1] = minute
    BY <1>1, <1>3, <2>1
  <2>3. Forgotten' = lost BY <1>1, <1>3, <2>2 DEF Forgotten
  <2>4. ASSUME NEW k \in 1..Len(bridge') PROVE bridge'[k] = admitted'[Forgotten' + k]
    <3>1. CASE k = Len(seen) + 1 BY <1>1, <1>4, <2>2, <2>3, <3>1
    <3>2. CASE k \in 1..Len(seen)
      <4>1. lost + k \in 1..Len(admitted) BY <1>1, <1>4, <3>2
      <4>2. QED BY <1>5, <2>2, <2>3, <3>2, <4>1
    <3>3. QED BY <1>4, <2>2, <3>1, <3>2
  <2>5. ASSUME NEW k \in 1..Forgotten' PROVE minute' - admitted'[k] > Window
    <3>1. k \in 1..lost /\ k \in 1..Len(admitted) BY <1>1, <1>4, <2>3, <2>5
    <3>2. QED BY <1>2, <1>6, <2>2, <3>1
  <2>6. \A k \in 1..Len(admitted') : admitted'[k] <= minute'
    <3>1. ASSUME NEW k \in 1..Len(admitted) PROVE admitted'[k] <= minute
      BY <2>2 DEF TInv, BridgeInv
    <3>2. minute <= minute /\ Len(admitted) \in Nat BY <1>1
    <3>3. \A k \in 1..Len(admitted') : k \in 1..Len(admitted) \/ k = Len(admitted) + 1
      BY <2>2, <3>2
    <3>4. QED BY <1>2, <2>2, <3>1, <3>2, <3>3
  <2>7. BridgeInv' BY <1>1, <1>2, <1>4, <2>2, <2>4, <2>5, <2>6 DEF BridgeInv
  <2>8. ASSUME NEW k \in 1..(Len(admitted') - BridgeLimit)
        PROVE  admitted'[k + BridgeLimit] - admitted'[k] > Window
    <3>1. CASE k \in 1..(Len(admitted) - BridgeLimit)
      <4>1. k \in 1..Len(admitted) /\ k + BridgeLimit \in 1..Len(admitted)
        BY <1>1, <3>1, ThrottleAssumption
      <4>2. QED BY <2>2, <3>1, <4>1 DEF TInv, AdmissionsSpaced
    <3>2. CASE k = Len(admitted) + 1 - BridgeLimit
      <4>1. k \in 1..lost /\ k \in 1..Len(admitted) /\ k + BridgeLimit = Len(admitted) + 1
        BY <1>1, <1>3, <1>4, <1>7, <3>2, ThrottleAssumption
      <4>2. QED BY <1>6, <2>2, <4>1
    <3>3. BridgeLimit \in Nat BY ThrottleAssumption
    <3>4. QED BY <1>1, <2>2, <3>1, <3>2, <3>3
  <2>9. AsksInv'
    <3>1. Len(pam) + reading <= Len(admitted) /\ Len(pam) \in Nat /\ reading \in Nat
          /\ pam \in Seq(Int) /\ Len(admitted) \in Nat
      BY <1>1 DEF TInv, AsksInv
    <3>2. \A k \in 1..Len(pam) : k \in 1..Len(admitted) BY <3>1
    <3>3. \A k \in 1..Len(pam) : admitted'[k] <= pam[k]
      BY <2>2, <3>2 DEF TInv, AsksInv
    <3>4. QED BY <2>1, <2>2, <3>1, <3>3 DEF AsksInv
  <2>10. QED BY <2>7, <2>8, <2>9 DEF TInv, AdmissionsSpaced
<1>8. CASE ~(Len(seen) < BridgeLimit)
  <2>1. bridge' = seen /\ UNCHANGED <<admitted, reading, pam>>
    BY <1>8 DEF Allow, seen
  <2>2. Forgotten' = lost BY <2>1 DEF Forgotten
  <2>3. BridgeInv' BY <1>1, <1>2, <1>3, <1>4, <1>5, <1>6, <2>1, <2>2 DEF TInv, BridgeInv
  <2>4. QED BY <2>1, <2>3 DEF TInv, AdmissionsSpaced, AsksInv
<1>9. QED BY <1>7, <1>8

(* A thread that may ask has an admission no ask has taken yet.            *)
LEMMA PamKeeps ==
  ASSUME TInv, AsksPam \/ ReadFails PROVE TInv'
<1>1. /\ reading > 0 /\ reading' = reading - 1 /\ UNCHANGED <<minute, bridge, admitted>>
      /\ pam' \in {pam, Append(pam, minute)}
  BY DEF AsksPam, ReadFails
<1>2. BridgeInv' /\ AdmissionsSpaced'
  BY <1>1 DEF TInv, BridgeInv, AdmissionsSpaced, Forgotten
<1>3. CASE pam' = pam BY <1>1, <1>2, <1>3 DEF TInv, AsksInv
<1>4. CASE pam' = Append(pam, minute)
  <2>1. minute \in Int /\ pam \in Seq(Int) /\ reading \in Nat /\ Len(admitted) \in Nat
    BY DEF TInv, BridgeInv, AsksInv
  <2>2. /\ pam' \in Seq(Int) /\ Len(pam') = Len(pam) + 1 /\ pam'[Len(pam) + 1] = minute
        /\ \A k \in 1..Len(pam) : pam'[k] = pam[k]
    BY <1>4, <2>1
  <2>3. Len(pam) + 1 \in 1..Len(admitted) BY <1>1, <2>1 DEF TInv, AsksInv
  <2>4. admitted[Len(pam) + 1] <= minute BY <2>3 DEF TInv, BridgeInv
  <2>5. \A k \in 1..Len(pam') : admitted'[k] <= pam'[k]
    <3>1. ASSUME NEW k \in 1..Len(pam) PROVE admitted'[k] <= pam'[k]
      BY <1>1, <2>2 DEF TInv, AsksInv
    <3>2. admitted'[Len(pam) + 1] <= pam'[Len(pam) + 1] BY <1>1, <2>2, <2>4
    <3>3. \A k \in 1..Len(pam') : k \in 1..Len(pam) \/ k = Len(pam) + 1 BY <2>1, <2>2
    <3>4. QED BY <3>1, <3>2, <3>3
  <2>6. reading' \in Nat /\ Len(pam') + reading' <= Len(admitted')
    BY <1>1, <2>1, <2>2 DEF TInv, AsksInv
  <2>7. QED BY <1>2, <2>2, <2>5, <2>6 DEF TInv, AsksInv
<1>5. QED BY <1>1, <1>3, <1>4

(* Time only lengthens; the backend's own counts are not the bridge's.     *)
LEMMA TimeKeeps ==
  ASSUME TInv, minute' \in {minute, minute + 1}, UNCHANGED <<bridge, reading, admitted, pam>>
  PROVE  TInv'
<1>1. /\ \A k \in 1..Forgotten : admitted[k] \in Int
      /\ \A k \in 1..Len(admitted) : admitted[k] \in Int
  BY DEF TInv, BridgeInv, Forgotten
<1>2. Forgotten' = Forgotten BY DEF Forgotten
<1>3. BridgeInv' BY <1>1, <1>2, ThrottleAssumption DEF TInv, BridgeInv
<1>4. QED BY <1>3 DEF TInv, AdmissionsSpaced, AsksInv

(* Every step of the backend and the bridge keeps the invariant.           *)
THEOREM ThrottleInductive == ThrottleSpec => []TInv
<1>1. ThrottleInit => TInv
  BY ThrottleAssumption DEF ThrottleInit, TInv, BridgeInv, Forgotten, AdmissionsSpaced, AsksInv
<1>2. TInv /\ [ThrottleNext]_throttleVars => TInv'
  <2>1. ASSUME TInv, ThrottleNext PROVE TInv'
    <3>1. ASSUME NEW s \in Sources, LoginStart(s) PROVE TInv'
      BY <2>1, <3>1, TimeKeeps DEF LoginStart
    <3>2. CASE MinutePasses BY <2>1, <3>2, TimeKeeps DEF MinutePasses
    <3>3. CASE BackendRestarts BY <2>1, <3>3, TimeKeeps DEF BackendRestarts
    <3>4. QED BY <2>1, <3>1, <3>2, <3>3, AllowKeeps, PamKeeps DEF ThrottleNext
  <2>2. ASSUME TInv, UNCHANGED throttleVars PROVE TInv'
    BY <2>2, TimeKeeps DEF throttleVars
  <2>3. QED BY <2>1, <2>2
<1>3. QED BY <1>1, <1>2, PTL DEF ThrottleSpec

(* The bridge admits at most BridgeLimit attempts in any window, whoever   *)
(* tries and however often the backend restarts (RateLimiter.allow), and   *)
(* its threads, however late their lines come, ask PAM once for each and   *)
(* not before it (Handler.handle): so the asks never run ahead of the      *)
(* admissions, whose rate is bounded.                                      *)
THEOREM AttemptsAreSpaced == ThrottleSpec => []AttemptsSpaced
<1>1. ASSUME TInv PROVE AttemptsSpaced
  <2> USE <1>1 DEF TInv
  <2>1. BridgeLimit \in Nat /\ Window \in Int BY ThrottleAssumption
  <2>2. /\ Len(pam) \in Nat /\ Len(admitted) \in Nat /\ Len(pam) <= Len(admitted)
        /\ \A k \in 1..Len(pam) : pam[k] \in Int
        /\ \A k \in 1..Len(admitted) : admitted[k] \in Int
    BY DEF AsksInv, BridgeInv
  <2>3. ASSUME NEW k \in 1..(Len(pam) - BridgeLimit)
        PROVE  pam[k + BridgeLimit] - admitted[k] > Window
    <3>1. /\ k + BridgeLimit \in 1..Len(pam) /\ k + BridgeLimit \in 1..Len(admitted)
          /\ k \in 1..Len(admitted) /\ k \in 1..(Len(admitted) - BridgeLimit)
      BY <2>1, <2>2
    <3>2. admitted[k + BridgeLimit] - admitted[k] > Window BY <3>1 DEF AdmissionsSpaced
    <3>3. admitted[k + BridgeLimit] <= pam[k + BridgeLimit] BY <3>1 DEF AsksInv
    <3>4. QED BY <2>1, <2>2, <3>1, <3>2, <3>3
  <2>4. QED BY <2>2, <2>3 DEF AttemptsSpaced, AdmissionsSpaced, AsksInv
<1>2. QED BY <1>1, ThrottleInductive, PTL

(* Both counts stay within their limits, however many attempts they pop.   *)
ThrottleTypesInv ==
  /\ minute \in 0..LastMinute /\ connected \in Nat
  /\ attempts \in [Sources -> Seq(Int)]
  /\ \A s \in Sources : Len(attempts[s]) <= SourceLimit
  /\ Len(bridge) <= BridgeLimit

LEMMA RecentLength ==
  ASSUME NEW seen \in Seq(Int), minute \in Int PROVE Len(Recent(seen)) \in Nat
<1>1. minute - Window \in Int BY ThrottleAssumption
<1>2. Recent(seen) \in Seq(Int) BY <1>1, PoppedIsSuffix DEF Recent
<1>3. QED BY <1>2

(* An attempt is added only below the limit.                               *)
LEMMA LimitKept ==
  ASSUME NEW seen \in Seq(Int), NEW limit \in Nat, Len(seen) <= limit, minute \in Int
  PROVE  LET recent == Recent(seen)
             after == IF Len(recent) < limit THEN Append(recent, minute) ELSE recent
         IN  after \in Seq(Int) /\ Len(after) <= limit
<1> DEFINE recent == Recent(seen)
<1>1. recent \in Seq(Int) /\ Len(recent) <= Len(seen)
  <2>1. minute - Window \in Int BY ThrottleAssumption
  <2>2. PICK n \in 0..Len(seen) :
          Popped(seen, minute - Window) \in Seq(Int)
          /\ Len(Popped(seen, minute - Window)) = Len(seen) - n
    BY <2>1, PoppedIsSuffix
  <2>3. QED BY <2>2 DEF Recent
<1> HIDE DEF recent
<1>2. CASE Len(recent) < limit
  <2>1. Append(recent, minute) \in Seq(Int) /\ Len(Append(recent, minute)) = Len(recent) + 1
    BY <1>1
  <2>2. Len(recent) \in Nat BY <1>1
  <2>3. QED BY <1>2, <2>1, <2>2 DEF recent
<1>3. CASE ~ (Len(recent) < limit)
  <2>1. Len(recent) <= limit BY <1>1
  <2>2. QED BY <1>1, <1>3, <2>1 DEF recent
<1>4. QED BY <1>2, <1>3

(* Every count has its type, whatever connections and threads are under    *)
(* way: a source has at most SourceLimit attempts in memory, the bridge    *)
(* BridgeLimit (enforce_login_rate_limit, RateLimiter.allow).              *)
THEOREM ThrottleTypeCorrect == ThrottleSpec => []ThrottleTypeOK
<1>1. ThrottleInit => ThrottleTypesInv
  BY ThrottleAssumption DEF ThrottleInit, ThrottleTypesInv
<1>2. TInv /\ ThrottleTypesInv /\ [ThrottleNext]_throttleVars => ThrottleTypesInv'
  <2> SUFFICES ASSUME TInv, ThrottleTypesInv, [ThrottleNext]_throttleVars PROVE ThrottleTypesInv'
    OBVIOUS
  <2> USE DEF ThrottleTypesInv
  <2>1. /\ minute \in Int /\ bridge \in Seq(Int) /\ SourceLimit \in Nat /\ BridgeLimit \in Nat
    BY ThrottleAssumption DEF TInv, BridgeInv
  <2>2. ASSUME NEW s \in Sources, LoginStart(s) PROVE ThrottleTypesInv'
    <3> DEFINE recent == Recent(attempts[s])
               after == IF Len(recent) < SourceLimit THEN Append(recent, minute) ELSE recent
    <3>1. after \in Seq(Int) /\ Len(after) <= SourceLimit BY <2>1, LimitKept
    <3>2. /\ attempts' = [attempts EXCEPT ![s] = after]
          /\ connected' \in {connected, connected + 1} /\ UNCHANGED <<minute, bridge>>
      BY <2>1, <2>2, RecentLength DEF LoginStart
    <3> HIDE DEF after
    <3>3. QED BY <3>1, <3>2
  <2>3. CASE Allow
    <3> DEFINE recent == Recent(bridge)
               after == IF Len(recent) < BridgeLimit THEN Append(recent, minute) ELSE recent
    <3>1. after \in Seq(Int) /\ Len(after) <= BridgeLimit BY <2>1, LimitKept
    <3>2. bridge' = after /\ connected' \in Nat /\ UNCHANGED <<minute, attempts>>
      BY <2>1, <2>3, RecentLength DEF Allow
    <3> HIDE DEF after
    <3>3. QED BY <3>1, <3>2
  <2>4. CASE MinutePasses
    <3>1. minute' \in 0..LastMinute /\ UNCHANGED <<attempts, bridge, connected>>
      BY <2>4, ThrottleAssumption DEF MinutePasses
    <3>2. QED BY <3>1
  <2>5. CASE BackendRestarts
    <3>1. attempts' = [s \in Sources |-> <<>>] /\ UNCHANGED <<minute, bridge, connected>>
      BY <2>5 DEF BackendRestarts
    <3>2. QED BY <2>1, <3>1
  <2>6. CASE AsksPam \/ ReadFails \/ UNCHANGED throttleVars
    BY <2>6 DEF AsksPam, ReadFails, throttleVars
  <2>7. QED BY <2>2, <2>3, <2>4, <2>5, <2>6 DEF ThrottleNext
<1>3. TInv /\ ThrottleTypesInv => ThrottleTypeOK
  BY DEF TInv, AsksInv, ThrottleTypesInv, ThrottleTypeOK
<1>4. QED BY <1>1, <1>2, <1>3, ThrottleInductive, PTL DEF ThrottleSpec

-----------------------------------------------------------------------------
(* Notifications                                                           *)

(* Where the script is about to mark, it sent what it read.                *)
ReportInv ==
  /\ notice = [p \in NoticePlans |-> [event |-> notice[p].event, status |-> notice[p].status]]
  /\ DOMAIN monitor.batch \subseteq NoticePlans
  /\ monitor.at = "mark" => Batched \subseteq emailed

(* Where it is about to save, it told what it saw.                         *)
AlertInv ==
  /\ monitor = [at |-> monitor.at, batch |-> monitor.batch, seen |-> monitor.seen]
  /\ monitor.at = "save" => told = monitor.seen

NInv == ReportInv /\ AlertInv /\ OperatorTold

-----------------------------------------------------------------------------
(* What the script sent stays true of the rows it marks: those of the      *)
(* batch that are still pending, each with the event that was sent or one  *)
(* that came in between.                                                   *)
LEMMA MarkKeeps ==
  ASSUME NInv, MarkSent PROVE NInv'
<1>1. monitor' = Monitoring("health") /\ UNCHANGED <<emailed, known, told, unsaved>>
  BY DEF MarkSent, healthVars
<1>2. ReportInv' /\ AlertInv'
  BY <1>1 DEF NInv, ReportInv, AlertInv, MarkSent, Monitoring, Batched
<1>3. ASSUME NEW p \in NoticePlans, notice'[p].status = "SENT"
      PROVE  <<p, notice'[p].event>> \in emailed' \/ p \in overtaken'
  <2>1. CASE p \in Marked
    <3>1. p \in DOMAIN monitor.batch /\ notice'[p].event = notice[p].event
      BY <2>1, <1>3 DEF MarkSent, Marked, NInv, ReportInv
    <3>2. <<p, monitor.batch[p]>> \in emailed
      BY <3>1 DEF NInv, ReportInv, Batched, MarkSent
    <3>3. QED BY <2>1, <3>1, <3>2, <1>1 DEF MarkSent
  <2>2. CASE p \notin Marked
    BY <2>2, <1>1, <1>3 DEF MarkSent, NInv, OperatorTold
  <2>3. QED BY <2>1, <2>2
<1>4. known' = told' \/ unsaved'
  BY <1>1 DEF NInv, OperatorTold, MarkSent
<1>5. QED BY <1>2, <1>3, <1>4 DEF NInv, OperatorTold

(* A handler's commit makes the event pending, or overtaken when the       *)
(* script marked the one before meanwhile.                                 *)
LEMMA ChangeKeeps ==
  ASSUME NInv, NEW p \in NoticePlans, PlanChanged(p) PROVE NInv'
<1>1. UNCHANGED <<monitor, emailed, known, told, unsaved>>
  BY DEF PlanChanged, healthVars
<1>2. ReportInv' /\ AlertInv'
  BY <1>1 DEF NInv, ReportInv, AlertInv, PlanChanged, Batched
<1>3. ASSUME NEW q \in NoticePlans, notice'[q].status = "SENT"
      PROVE  <<q, notice'[q].event>> \in emailed' \/ q \in overtaken'
  <2>1. CASE q = p
    BY <2>1, <1>3 DEF PlanChanged, NInv, ReportInv
  <2>2. CASE q # p
    BY <2>2, <1>1, <1>3 DEF PlanChanged, NInv, ReportInv, OperatorTold
  <2>3. QED BY <2>1, <2>2
<1>4. QED BY <1>1, <1>2, <1>3 DEF NInv, OperatorTold

LEMMA RowsKeep ==
  ASSUME NInv, NEW p \in NoticePlans, PlanCreated(p) \/ PlanLoaded(p) PROVE NInv'
<1>1. UNCHANGED <<monitor, emailed, overtaken, known, told, unsaved>>
  BY DEF PlanCreated, PlanLoaded, healthVars
<1>2. ReportInv' /\ AlertInv'
  BY <1>1 DEF NInv, ReportInv, AlertInv, PlanCreated, PlanLoaded, Batched
<1>3. \A q \in NoticePlans : notice'[q].status = "SENT" => notice'[q] = notice[q]
  BY DEF PlanCreated, PlanLoaded, NInv, ReportInv
<1>4. QED BY <1>1, <1>2, <1>3 DEF NInv, OperatorTold

(* The other steps of the script mark nothing.                             *)
LEMMA ScriptKeeps ==
  ASSUME NInv,
         Query \/ SendNotice \/ QueryFails \/ RunFails \/ CheckHealth \/ SendAlert
           \/ SaveHealth \/ DiesUnsaved \/ HealthSwings
  PROVE  NInv'
<1>1. UNCHANGED <<notice, overtaken>> /\ emailed \subseteq emailed'
  BY DEF Query, SendNotice, QueryFails, RunFails, CheckHealth, SendAlert, SaveHealth,
         DiesUnsaved, HealthSwings, noticeOnly, healthVars
<1>2. ReportInv' /\ AlertInv'
  <2>1. CASE Query
    BY <2>1 DEF Query, NInv, ReportInv, AlertInv, Monitoring, Oldest, Pending, Batched
  <2>2. CASE SendNotice
    BY <2>2 DEF SendNotice, NInv, ReportInv, AlertInv, Batched
  <2>3. CASE QueryFails \/ RunFails
    BY <2>3 DEF QueryFails, RunFails, NInv, ReportInv, AlertInv, Monitoring, Batched
  <2>4. CASE CheckHealth
    <3>1. UNCHANGED <<notice, emailed>> BY <2>4 DEF CheckHealth, noticeOnly
    <3>2. CASE known \in {NoHealth, health}
      BY <2>4, <3>1, <3>2 DEF CheckHealth, NInv, ReportInv, AlertInv, Monitoring, Batched
    <3>3. CASE known \notin {NoHealth, health}
      <4>1. monitor' = [at |-> "alert", batch |-> monitor.batch, seen |-> health]
        BY <2>4, <3>3 DEF CheckHealth, NInv, AlertInv
      <4>2. QED BY <3>1, <4>1 DEF NInv, ReportInv, AlertInv, Batched
    <3>4. QED BY <3>2, <3>3
  <2>5. CASE SendAlert
    BY <2>5 DEF SendAlert, NInv, ReportInv, AlertInv, Batched, noticeOnly
  <2>6. CASE SaveHealth \/ DiesUnsaved
    BY <2>6 DEF SaveHealth, DiesUnsaved, NInv, ReportInv, AlertInv, Monitoring, Batched, noticeOnly
  <2>7. CASE HealthSwings
    BY <2>7 DEF HealthSwings, NInv, ReportInv, AlertInv, Batched, noticeOnly
  <2>8. QED BY <2>1, <2>2, <2>3, <2>4, <2>5, <2>6, <2>7
<1>3. known' = told' \/ unsaved' \/ monitor'.at = "save"
  BY DEF NInv, AlertInv, OperatorTold, Query, SendNotice, QueryFails, RunFails, CheckHealth,
         SendAlert, SaveHealth, DiesUnsaved, HealthSwings, noticeOnly, healthVars, Monitoring
<1>4. QED BY <1>1, <1>2, <1>3 DEF NInv, OperatorTold

(* Every step of handlers and script keeps the invariant of the module.    *)
THEOREM NoticesInductive == NoticeSpec => []NInv
<1>1. NoticeInit => NInv
  BY DEF NoticeInit, NInv, ReportInv, AlertInv, OperatorTold, Monitoring, NoEvent, Batched
<1>2. NInv /\ [NoticeNext]_noticeVars => NInv'
  <2>1. ASSUME NInv, NoticeNext PROVE NInv'
    BY <2>1, MarkKeeps, ChangeKeeps, RowsKeep, ScriptKeeps DEF NoticeNext
  <2>2. ASSUME NInv, UNCHANGED noticeVars PROVE NInv'
    BY <2>2 DEF NInv, ReportInv, AlertInv, OperatorTold, Batched, noticeVars
  <2>3. QED BY <2>1, <2>2
<1>3. QED BY <1>1, <1>2, PTL DEF NoticeSpec

(* A plan event marked SENT was emailed, unless a handler set it while the *)
(* script reported the one before; and the state file is what the operator *)
(* was sent, but between an alert and its saving (check_attention_alert.py,*)
(* planned_notifications and main).                                        *)
THEOREM NoticesAreTold == NoticeSpec => []OperatorTold
BY NoticesInductive, PTL DEF NInv

(* A handler that loaded a plan may still set its next event, and what the *)
(* script holds are events and healths that were.                          *)
PlanTyped(p) ==
  /\ notice[p] = NoEvent \/
       (notice[p].event \in 1..MaxEvents /\ notice[p].status \in {"PENDING", "SENT"})
  /\ editing[p] # NoEdit => notice[p] # NoEvent /\ notice[p].event < MaxEvents
NoticeTypesInv ==
  /\ \A p \in NoticePlans : PlanTyped(p)
  /\ editing \in [NoticePlans -> {NoEdit, "PENDING", "SENT"}]
  /\ emailed \subseteq NoticePlans \X (1..MaxEvents) /\ overtaken \subseteq NoticePlans
  /\ \A p \in DOMAIN monitor.batch : monitor.batch[p] \in 1..MaxEvents
  /\ health \in Health
  /\ known \in Health \cup {NoHealth} /\ told \in Health \cup {NoHealth}
  /\ monitor.seen \in Health \cup {NoHealth}

LEMMA PlansTyped ==
  ASSUME NInv, NoticeTypesInv, NEW p \in NoticePlans,
         PlanCreated(p) \/ PlanLoaded(p) \/ PlanChanged(p)
  PROVE  NoticeTypesInv'
<1>1. UNCHANGED <<monitor, emailed, health, known, told>> /\ overtaken' \subseteq NoticePlans
  BY DEF PlanCreated, PlanLoaded, PlanChanged, healthVars, NoticeTypesInv
<1>2. /\ editing' \in [NoticePlans -> {NoEdit, "PENDING", "SENT"}]
      /\ \A q \in NoticePlans \ {p} : notice'[q] = notice[q] /\ editing'[q] = editing[q]
  BY DEF PlanCreated, PlanLoaded, PlanChanged, NoticeTypesInv, PlanTyped, NInv, ReportInv, NoEvent
<1>3. PlanTyped(p)'
  <2>1. CASE PlanCreated(p)
    <3>1. notice'[p] = [event |-> 1, status |-> "PENDING"] /\ editing' = editing
      BY <2>1 DEF PlanCreated, NInv, ReportInv
    <3>2. editing[p] = NoEdit BY <2>1 DEF PlanCreated, NoticeTypesInv, PlanTyped
    <3>3. QED BY <3>1, <3>2, NoticeAssumption DEF PlanTyped
  <2>2. CASE PlanLoaded(p)
    BY <2>2 DEF PlanLoaded, NoticeTypesInv, PlanTyped
  <2>3. CASE PlanChanged(p)
    <3>1. /\ notice'[p].event = notice[p].event + 1 /\ editing'[p] = NoEdit
          /\ notice'[p].status \in {notice[p].status, "PENDING"}
      BY <2>3 DEF PlanChanged, NoticeTypesInv, NInv, ReportInv
    <3>2. notice[p] # NoEvent /\ notice[p].event < MaxEvents
      BY <2>3 DEF PlanChanged, NoticeTypesInv, PlanTyped
    <3>3. notice[p].event \in 1..MaxEvents /\ notice[p].status \in {"PENDING", "SENT"}
      BY <3>2 DEF NoticeTypesInv, PlanTyped
    <3>4. QED BY <3>1, <3>2, <3>3, NoticeAssumption DEF PlanTyped
  <2>4. QED BY <2>1, <2>2, <2>3
<1>4. \A q \in NoticePlans : PlanTyped(q)'
  <2>1. ASSUME NEW q \in NoticePlans, q # p PROVE PlanTyped(q)'
    BY <1>2, <2>1 DEF NoticeTypesInv, PlanTyped
  <2>2. QED BY <1>3, <2>1
<1>5. QED BY <1>1, <1>2, <1>4 DEF NoticeTypesInv

LEMMA ScriptTyped ==
  ASSUME NInv, NoticeTypesInv,
         Query \/ SendNotice \/ MarkSent \/ QueryFails \/ RunFails \/ CheckHealth \/ SendAlert
           \/ SaveHealth \/ DiesUnsaved \/ HealthSwings
  PROVE  NoticeTypesInv'
<1>1. editing' = editing
  BY DEF Query, SendNotice, MarkSent, QueryFails, RunFails, CheckHealth, SendAlert, SaveHealth,
         DiesUnsaved, HealthSwings, noticeOnly
<1>2. /\ health' \in Health
      /\ known' \in Health \cup {NoHealth} /\ told' \in Health \cup {NoHealth}
  BY DEF Query, SendNotice, MarkSent, QueryFails, RunFails, CheckHealth, SendAlert, SaveHealth,
         DiesUnsaved, HealthSwings, noticeOnly, healthVars, NoticeTypesInv
<1>3. /\ emailed' \subseteq NoticePlans \X (1..MaxEvents) /\ overtaken' \subseteq NoticePlans
  <2>1. CASE SendNotice
    <3>1. Batched \subseteq NoticePlans \X (1..MaxEvents)
      BY DEF Batched, NInv, ReportInv, NoticeTypesInv
    <3>2. QED BY <2>1, <3>1 DEF SendNotice, NoticeTypesInv
  <2>2. CASE MarkSent
    BY <2>2 DEF MarkSent, Marked, Pending, NoticeTypesInv
  <2>3. CASE Query \/ QueryFails \/ RunFails \/ CheckHealth \/ SendAlert \/ SaveHealth
               \/ DiesUnsaved \/ HealthSwings
    BY <2>3 DEF Query, QueryFails, RunFails, CheckHealth, SendAlert, SaveHealth, DiesUnsaved,
                HealthSwings, noticeOnly, NoticeTypesInv
  <2>4. QED BY <2>1, <2>2, <2>3
<1>4. \A p \in NoticePlans : PlanTyped(p)'
  <2>1. CASE MarkSent
    <3>1. ASSUME NEW p \in NoticePlans PROVE PlanTyped(p)'
      <4>1. CASE p \in Marked
        <5>1. notice[p].status = "PENDING" /\ notice[p] # NoEvent
          BY <4>1 DEF Marked, Pending, NoEvent
        <5>2. notice'[p].event = notice[p].event /\ notice'[p].status = "SENT"
          BY <2>1, <4>1 DEF MarkSent, NInv, ReportInv
        <5>3. QED BY <1>1, <5>1, <5>2 DEF NoticeTypesInv, PlanTyped, NoEvent
      <4>2. CASE p \notin Marked
        BY <1>1, <2>1, <4>2 DEF MarkSent, NoticeTypesInv, PlanTyped
      <4>3. QED BY <4>1, <4>2
    <3>2. QED BY <3>1
  <2>2. CASE UNCHANGED notice BY <1>1, <2>2 DEF NoticeTypesInv, PlanTyped
  <2>3. QED
    BY <2>1, <2>2 DEF Query, SendNotice, QueryFails, RunFails, CheckHealth, SendAlert, SaveHealth,
                      DiesUnsaved, HealthSwings, noticeOnly
<1>5. /\ \A p \in DOMAIN monitor'.batch : monitor'.batch[p] \in 1..MaxEvents
      /\ monitor'.seen \in Health \cup {NoHealth}
  <2>1. ASSUME NEW at PROVE /\ Monitoring(at) = [at |-> at, batch |-> Monitoring(at).batch, seen |-> NoHealth]
                            /\ DOMAIN Monitoring(at).batch = {}
    BY DEF Monitoring
  <2>2. CASE Query
    <3>1. CASE Pending = {} BY <2>1, <2>2, <3>1 DEF Query
    <3>2. CASE Pending # {}
      <4>1. monitor'.batch = [p \in Oldest(Pending) |-> notice[p].event] /\ monitor'.seen = NoHealth
        BY <2>1, <2>2, <3>2 DEF Query
      <4>2. \A p \in Oldest(Pending) : notice[p].event \in 1..MaxEvents
        BY DEF Oldest, Pending, NoticeTypesInv, PlanTyped, NoEvent
      <4>3. QED BY <4>1, <4>2
    <3>3. QED BY <3>1, <3>2
  <2>3. CASE SendNotice \/ SendAlert
    <3>1. monitor'.batch = monitor.batch /\ monitor'.seen = monitor.seen
      BY <2>3 DEF SendNotice, SendAlert, NInv, AlertInv
    <3>2. QED BY <3>1 DEF NoticeTypesInv
  <2>4. CASE \E at : monitor' = Monitoring(at) BY <2>1, <2>4
  <2>5. CASE CheckHealth
    <3>1. CASE known \in {NoHealth, health} BY <2>4, <2>5, <3>1 DEF CheckHealth
    <3>2. CASE known \notin {NoHealth, health}
      <4>1. monitor'.batch = monitor.batch /\ monitor'.seen = health
        BY <2>5, <3>2 DEF CheckHealth, NInv, AlertInv
      <4>2. QED BY <4>1 DEF NoticeTypesInv
    <3>3. QED BY <3>1, <3>2
  <2>6. CASE HealthSwings BY <2>6 DEF HealthSwings, NoticeTypesInv
  <2>7. QED
    BY <2>2, <2>3, <2>4, <2>5, <2>6 DEF MarkSent, QueryFails, RunFails, SaveHealth, DiesUnsaved
<1>6. QED BY <1>1, <1>2, <1>3, <1>4, <1>5 DEF NoticeTypesInv

(* Every event, alert and counter of the notifications has its type: what  *)
(* is emailed are events plans had.                                        *)
THEOREM NoticeTypeCorrect == NoticeSpec => []NoticeTypeOK
<1>1. NoticeInit => NoticeTypesInv
  BY DEF NoticeInit, NoticeTypesInv, PlanTyped, Monitoring
<1>2. NInv /\ NoticeTypesInv /\ [NoticeNext]_noticeVars => NoticeTypesInv'
  <2>1. ASSUME NInv, NoticeTypesInv, NoticeNext PROVE NoticeTypesInv'
    BY <2>1, PlansTyped, ScriptTyped DEF NoticeNext
  <2>2. ASSUME NoticeTypesInv, UNCHANGED noticeVars PROVE NoticeTypesInv'
    BY <2>2 DEF noticeVars, NoticeTypesInv, PlanTyped
  <2>3. QED BY <2>1, <2>2
<1>3. NoticeTypesInv => NoticeTypeOK
  BY DEF NoticeTypesInv, PlanTyped, NoticeTypeOK
<1>4. QED BY <1>1, <1>2, <1>3, NoticesInductive, PTL DEF NoticeSpec
=============================================================================
