--------------------------- MODULE LoginThrottle ---------------------------
(***************************************************************************)
(* Login attempts: the backend counts those of each source (backend/app/   *)
(* auth.py), the PAM bridge those of all (infra/auth/aegis_pam_bridge.py); *)
(* both counts are kept in memory.  The bridge serves each connection on a *)
(* thread of its own: it counts the attempt, reads a line, then asks PAM.  *)
(* The username of every attempt is the authorized one: the others never   *)
(* reach the bridge.                                                       *)
(***************************************************************************)
EXTENDS Integers, Sequences

CONSTANTS
  Sources,      \* hosts that log in
  SourceLimit,  \* attempts of a source in a window: 5
  BridgeLimit,  \* MAX_ATTEMPTS: 10
  Window,       \* RATE_WINDOW_SECONDS: 300
  LastMinute,   \* bound: how long time passes
  MaxBackends   \* bound: restarts of the backend

ASSUME ThrottleAssumption ==
  {BridgeLimit, SourceLimit, LastMinute} \subseteq Nat /\ Window \in Int

VARIABLES
  minute,       \* the time
  attempts,     \* _attempts of each source
  bridge,       \* _attempts of the bridge's RateLimiter
  connected,    \* connections whose bridge thread has not counted them yet
  reading,      \* bridge threads that counted theirs and wait for its line
  admitted,     \* history: when the bridge counted an attempt, since it runs
  pam,          \* history: when it asked PAM, since it runs
  backends      \* bound counter

throttleVars == <<minute, attempts, bridge, connected, reading, admitted, pam, backends>>

ThrottleInit ==
  /\ minute = 0 /\ backends = 0
  /\ attempts = [s \in Sources |-> <<>>] /\ bridge = <<>>
  /\ connected = 0 /\ reading = 0 /\ admitted = <<>> /\ pam = <<>>

(* Attempts before the cutoff are popped from the front.                   *)
Popped(seen, cutoff) ==
  LET first == CHOOSE k \in 1..(Len(seen) + 1) :
                 /\ \A j \in 1..(k - 1) : seen[j] < cutoff
                 /\ k <= Len(seen) => seen[k] >= cutoff
  IN  SubSeq(seen, first, Len(seen))

\* Mutant: an attempt is forgotten before its window has passed.
ForgottenEarly(seen) == Popped(seen, minute - Window + 1)
Recent(seen) == Popped(seen, minute - Window)

(* enforce_login_rate_limit, then the connection to the bridge, which may  *)
(* fail.  Nothing keeps a source from starting the next login meanwhile.   *)
LoginStart(s) ==
  /\ LET seen == Recent(attempts[s]) IN
     \/ /\ Len(seen) >= SourceLimit
        /\ attempts' = [attempts EXCEPT ![s] = seen] /\ UNCHANGED connected
     \/ /\ Len(seen) < SourceLimit
        /\ attempts' = [attempts EXCEPT ![s] = Append(seen, minute)]
        /\ connected' \in {connected, connected + 1}
  /\ UNCHANGED <<minute, bridge, reading, admitted, pam, backends>>

(* A thread of the bridge counts its connection, under the lock of the     *)
(* RateLimiter, or refuses it.                                             *)
Allow ==
  /\ connected > 0 /\ connected' = connected - 1
  /\ LET seen == Recent(bridge) IN
     \/ /\ Len(seen) >= BridgeLimit
        /\ bridge' = seen /\ UNCHANGED <<reading, admitted>>
     \/ /\ Len(seen) < BridgeLimit /\ bridge' = Append(seen, minute)
        /\ admitted' = Append(admitted, minute) /\ reading' = reading + 1
  /\ UNCHANGED <<minute, attempts, pam, backends>>

(* readline has no timeout: the line may come at any time, whether or not  *)
(* the backend, which waits five seconds, is still there for the answer.   *)
AsksPam ==
  /\ reading > 0 /\ reading' = reading - 1
  /\ pam' = Append(pam, minute)
  /\ UNCHANGED <<minute, attempts, bridge, connected, admitted, backends>>

(* The connection ends without a line, or with none PAM is asked about.    *)
ReadFails ==
  /\ reading > 0 /\ reading' = reading - 1
  /\ UNCHANGED <<minute, attempts, bridge, connected, admitted, pam, backends>>

MinutePasses ==
  /\ minute < LastMinute /\ minute' = minute + 1
  /\ UNCHANGED <<attempts, bridge, connected, reading, admitted, pam, backends>>

(* The sockets of logins under way may already hold their lines.           *)
BackendRestarts ==
  /\ backends < MaxBackends /\ backends' = backends + 1
  /\ attempts' = [s \in Sources |-> <<>>]
  /\ UNCHANGED <<minute, bridge, connected, reading, admitted, pam>>

ThrottleNext ==
  \/ \E s \in Sources : LoginStart(s)
  \/ Allow \/ AsksPam \/ ReadFails
  \/ MinutePasses \/ BackendRestarts

ThrottleSpec == ThrottleInit /\ [][ThrottleNext]_throttleVars

-----------------------------------------------------------------------------

ThrottleTypeOK ==
  /\ minute \in 0..LastMinute /\ connected \in Nat /\ reading \in Nat
  /\ \A s \in Sources : Len(attempts[s]) <= SourceLimit
  /\ Len(bridge) <= BridgeLimit

(* However many sources try, and however often the backend restarts and    *)
(* forgets what it counted, the bridge admits no more than BridgeLimit     *)
(* attempts in any window, and PAM is asked once for each of them at most, *)
(* not before it was admitted: the ask that comes BridgeLimit later than   *)
(* an admission is more than a window away from it.  The asks themselves   *)
(* are not spaced: threads whose lines came late may ask all at once.      *)
AttemptsSpaced ==
  /\ \A k \in 1..(Len(admitted) - BridgeLimit) : admitted[k + BridgeLimit] - admitted[k] > Window
  /\ Len(pam) <= Len(admitted)
  /\ \A k \in 1..Len(pam) : admitted[k] <= pam[k]
  /\ \A k \in 1..(Len(pam) - BridgeLimit) : pam[k + BridgeLimit] - admitted[k] > Window
=============================================================================
