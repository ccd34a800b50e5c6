---------------------------- MODULE BrokerGateway ----------------------------
(***************************************************************************)
(* The broker gateway's authorization (broker-gateway/app/main.py and      *)
(* storage.py): one asyncio loop runs the handlers and a task per attempt  *)
(* to authorize; they change each other's globals at every await.          *)
(*                                                                         *)
(* An attempt n owns its task, its two futures and its nonce.  pointed is  *)
(* the attempt _flow_task, _auth_url and _callback point to, 0 for None:   *)
(* the three are always assigned together.  What the OAuth client of the   *)
(* MCP SDK does is external: it reads tokens once, asks the user when it   *)
(* has none, and writes the tokens it is given or refreshes.               *)
(***************************************************************************)
EXTENDS Integers, FiniteSets

CONSTANTS
  MaxConnects,   \* bound: attempts to authorize
  MaxReads,      \* bound: broker reads the backend asks for
  MaxRestarts    \* bound: restarts of the process

ASSUME GatewayAssumption == {MaxConnects, MaxReads, MaxRestarts} \subseteq Nat

VARIABLES
  flow,          \* the task of each attempt
  authUrl,       \* future of each attempt: the URL to send the user to
  callback,      \* future of each attempt: the code the user brings back
  awaits,        \* the attempt whose callback future a task waits for
  starter,       \* attempts whose connect_start handler is waiting
  pointed,       \* the attempt the globals point to
  nonce,         \* attempt whose completion nonce is valid, or 0
  closing,       \* attempt the disconnect handler is waiting for, or 0
  stateStatus,       \* _state.status
  token,         \* oauth-token.enc is there
  reading,       \* a broker read is in flight: NONE, MARKET or ACCOUNT
  quiet,         \* disconnected with nothing else in flight, none begun since
  started, reads, restarts   \* bound counters

gatewayVars == <<flow, authUrl, callback, awaits, starter, pointed, nonce, closing, stateStatus,
                 token, reading, quiet, started, reads, restarts>>

Attempts == 1..MaxConnects
futures == <<authUrl, callback, awaits>>
bounds == <<started, reads, restarts>>

GatewayInit ==
  /\ flow = [n \in Attempts |-> "none"]
  /\ authUrl = [n \in Attempts |-> "none"] /\ callback = [n \in Attempts |-> "none"]
  /\ awaits = [n \in Attempts |-> 0]
  /\ starter = {} /\ pointed = 0 /\ nonce = 0 /\ closing = 0
  /\ stateStatus = "NOT_CONFIGURED" /\ token \in BOOLEAN
  /\ reading = "NONE" /\ quiet = FALSE
  /\ started = 0 /\ reads = 0 /\ restarts = 0

(* The files: a write replaces the token as a whole, so a crash leaves the *)
(* old one or the new one; clear unlinks it.                               *)
Write == token' = TRUE
Clear == token' = FALSE

Live(n) == n # 0 /\ flow[n] \in {"connecting", "asking", "validating", "cancelling"}
DoneFuture(f) == f \in {"set", "cancelled"}
Abandoned(f) == IF f = "pending" THEN "cancelled" ELSE f

-----------------------------------------------------------------------------
(* The task of an attempt (connect_and_validate)                           *)

FlowUnchanged == UNCHANGED <<starter, pointed, nonce, closing, reading, quiet, bounds>>

(* The tokens in storage serve: no user is asked.                          *)
FlowUsesToken(n) ==
  /\ flow[n] = "connecting" /\ token
  /\ flow' = [flow EXCEPT ![n] = "validating"]
  /\ UNCHANGED <<futures, stateStatus, token>> /\ FlowUnchanged

(* redirect_handler, then callback_handler: both look at the globals.      *)
FlowAsks(n) ==
  /\ flow[n] = "connecting"
  /\ authUrl' = IF pointed # 0 /\ ~ DoneFuture(authUrl[pointed])
                THEN [authUrl EXCEPT ![pointed] = "set"] ELSE authUrl
  /\ flow' = [flow EXCEPT ![n] = IF pointed = 0 THEN "failed" ELSE "asking"]
  /\ awaits' = [awaits EXCEPT ![n] = pointed]
  /\ stateStatus' = IF pointed = 0 THEN "ERROR" ELSE stateStatus
  /\ UNCHANGED <<callback, token>> /\ FlowUnchanged

(* The code is exchanged and the tokens are written.                       *)
FlowGetsCode(n) ==
  /\ flow[n] = "asking" /\ callback[awaits[n]] = "set"
  /\ flow' = [flow EXCEPT ![n] = "validating"]
  /\ Write
  /\ UNCHANGED <<futures, stateStatus>> /\ FlowUnchanged

FlowConnects(n) ==
  /\ flow[n] = "validating"
  /\ flow' = [flow EXCEPT ![n] = "connected"]
  /\ stateStatus' = "CONNECTED"
  /\ UNCHANGED <<futures, token>> /\ FlowUnchanged

(* A refused code, a failed read, a tool that is not advertised, a timeout *)
(* of 30 seconds: any exception.                                           *)
FlowFails(n) ==
  /\ \/ flow[n] \in {"connecting", "validating"}
     \/ flow[n] = "asking" /\ DoneFuture(callback[awaits[n]])
  /\ flow' = [flow EXCEPT ![n] = "failed"]
  /\ stateStatus' = "ERROR"
  /\ UNCHANGED <<futures, token>> /\ FlowUnchanged

(* The user did not come back within 600 seconds.                          *)
\* Mutant: wait_for without a timeout.
WaitsForEver(n) == FALSE
CallbackTimeout(n) ==
  /\ flow[n] = "asking" /\ callback[awaits[n]] = "pending"
  /\ callback' = [callback EXCEPT ![awaits[n]] = "cancelled"]
  /\ flow' = [flow EXCEPT ![n] = "failed"]
  /\ stateStatus' = "ERROR"
  /\ UNCHANGED <<authUrl, awaits, token>> /\ FlowUnchanged

(* CancelledError passes the handler of exceptions: no status is set.      *)
FlowCancelled(n) ==
  /\ flow[n] = "cancelling"
  /\ flow' = [flow EXCEPT ![n] = "cancelled"]
  /\ callback' = IF awaits[n] = 0 THEN callback
                 ELSE [callback EXCEPT ![awaits[n]] = Abandoned(@)]
  /\ UNCHANGED <<authUrl, awaits, stateStatus, token>> /\ FlowUnchanged

FlowStep(n) ==
  \/ FlowUsesToken(n) \/ FlowAsks(n) \/ FlowGetsCode(n) \/ FlowConnects(n)
  \/ FlowFails(n) \/ FlowCancelled(n)

-----------------------------------------------------------------------------
(* connect_start                                                           *)

ConnectStart ==
  /\ started < MaxConnects /\ ~ Live(pointed)
  /\ LET n == started + 1 IN
     /\ started' = n
     /\ flow' = [flow EXCEPT ![n] = "connecting"]
     /\ authUrl' = [authUrl EXCEPT ![n] = "pending"]
     /\ callback' = [callback EXCEPT ![n] = "pending"]
     /\ starter' = starter \cup {n} /\ pointed' = n /\ nonce' = n
  /\ stateStatus' = "AUTHORIZING" /\ quiet' = FALSE
  /\ UNCHANGED <<awaits, closing, token, reading, reads, restarts>>

Answers == <<flow, futures, pointed, nonce, closing, token, reading, quiet, bounds>>

(* It was woken by the URL or by the end of its task and answers.          *)
StartAnswered(n) ==
  /\ n \in starter /\ pointed = n
  /\ DoneFuture(authUrl[n]) \/ ~ Live(n)
  /\ starter' = starter \ {n}
  /\ UNCHANGED <<Answers, stateStatus>>

(* Thirty seconds passed, or what woke it is no longer what the globals    *)
(* point to: it cancels whatever task they point to now.                   *)
StartGivesUp(n) ==
  /\ n \in starter /\ starter' = starter \ {n}
  /\ IF pointed = n THEN ~ DoneFuture(authUrl[n]) /\ Live(n)
     ELSE DoneFuture(authUrl[n]) \/ ~ Live(n)
  /\ flow' = IF Live(pointed) THEN [flow EXCEPT ![pointed] = "cancelling"] ELSE flow
  /\ stateStatus' = IF pointed = 0 THEN stateStatus ELSE "ERROR"
  /\ UNCHANGED <<futures, pointed, nonce, closing, token, reading, quiet, bounds>>

-----------------------------------------------------------------------------
(* The user comes back                                                     *)

UserUnchanged == UNCHANGED <<flow, authUrl, awaits, starter, pointed, closing, token, reading,
                             quiet, bounds>>

(* oauth_complete with the nonce: denied, or a code.                       *)
CompleteDenied ==
  /\ nonce # 0 /\ nonce' = 0 /\ stateStatus' = "ERROR"
  /\ UNCHANGED callback /\ UserUnchanged
CompleteCode ==
  /\ nonce # 0 /\ pointed # 0 /\ callback[pointed] = "pending"
  /\ nonce' = 0
  /\ callback' = [callback EXCEPT ![pointed] = "set"]
  /\ UNCHANGED stateStatus /\ UserUnchanged

(* oauth_callback: the browser's redirect carries no nonce.                *)
CallbackDenied ==
  /\ stateStatus # "ERROR" /\ stateStatus' = "ERROR"
  /\ UNCHANGED <<nonce, callback>> /\ UserUnchanged
CallbackCode ==
  /\ pointed # 0 /\ callback[pointed] = "pending"
  /\ callback' = [callback EXCEPT ![pointed] = "set"]
  /\ UNCHANGED <<nonce, stateStatus>> /\ UserUnchanged

-----------------------------------------------------------------------------
(* disconnect                                                              *)

DisconnectBegin ==
  /\ closing = 0 /\ Live(pointed)
  /\ closing' = pointed
  /\ flow' = [flow EXCEPT ![pointed] = "cancelling"]
  /\ UNCHANGED <<futures, starter, pointed, nonce, stateStatus, token, reading, quiet, bounds>>

(* storage.clear() and the reset of the globals, without an await between. *)
\* Mutant: the task is neither cancelled nor awaited.
StillRunning == pointed # 0 \/ stateStatus # "NOT_CONFIGURED" \/ token
Awaited ==
  IF closing # 0 THEN ~ Live(closing)
  ELSE ~ Live(pointed) /\ (pointed # 0 \/ stateStatus # "NOT_CONFIGURED" \/ token)
DisconnectEnd ==
  /\ Awaited
  /\ IF pointed = 0 THEN UNCHANGED <<authUrl, callback>>
     ELSE /\ authUrl' = [authUrl EXCEPT ![pointed] = Abandoned(@)]
          /\ callback' = [callback EXCEPT ![pointed] = Abandoned(@)]
  /\ quiet' = (reading = "NONE" /\ (closing = 0 \/ closing = pointed)
               /\ \A n \in Attempts \ {pointed} : ~ Live(n))
  /\ closing' = 0 /\ pointed' = 0 /\ nonce' = 0 /\ Clear
  /\ stateStatus' = "NOT_CONFIGURED"
  /\ UNCHANGED <<flow, awaits, starter, reading, bounds>>

-----------------------------------------------------------------------------
(* Broker reads of the backend (market_data, account_snapshot)             *)

ReadUnchanged == UNCHANGED <<flow, futures, starter, pointed, nonce, closing, started,
                             restarts>>
ReadBegin(kind) ==
  /\ reading = "NONE" /\ token /\ reads < MaxReads
  /\ reading' = kind /\ reads' = reads + 1
  /\ UNCHANGED <<stateStatus, token, quiet>> /\ ReadUnchanged

(* The client refreshes its token and writes it, whatever was cleared.     *)
ReadRefresh ==
  /\ reading # "NONE" /\ ~ token /\ Write
  /\ UNCHANGED <<stateStatus, reading, quiet, reads>> /\ ReadUnchanged
ReadEnd ==
  /\ reading # "NONE" /\ reading' = "NONE"
  /\ stateStatus' \in IF reading = "ACCOUNT" THEN {stateStatus, "CONNECTED"} ELSE {stateStatus}
  /\ UNCHANGED <<token, quiet, reads>> /\ ReadUnchanged

(* The process starts anew: only the files are left.                       *)
GatewayRestart ==
  /\ restarts < MaxRestarts /\ restarts' = restarts + 1
  /\ flow' = [n \in Attempts |-> IF Live(n) THEN "none" ELSE flow[n]]
  /\ authUrl' = [n \in Attempts |-> "none"] /\ callback' = [n \in Attempts |-> "none"]
  /\ starter' = {} /\ pointed' = 0 /\ nonce' = 0 /\ closing' = 0
  /\ stateStatus' = "NOT_CONFIGURED" /\ reading' = "NONE"
  /\ UNCHANGED <<awaits, token, quiet, started, reads>>

(* What /internal/status shows.                                            *)
PublicStatus == IF stateStatus = "NOT_CONFIGURED" /\ token THEN "DISCONNECTED" ELSE stateStatus

Handlers == \E n \in Attempts : StartAnswered(n) \/ StartGivesUp(n)

GatewayNext ==
  \/ \E n \in Attempts : FlowStep(n) \/ CallbackTimeout(n)
  \/ ConnectStart
  \/ Handlers
  \/ CompleteDenied \/ CompleteCode \/ CallbackDenied \/ CallbackCode
  \/ DisconnectBegin \/ DisconnectEnd
  \/ \E kind \in {"MARKET", "ACCOUNT"} : ReadBegin(kind)
  \/ ReadRefresh \/ ReadEnd
  \/ GatewayRestart
GatewaySpec == GatewayInit /\ [][GatewayNext]_gatewayVars

-----------------------------------------------------------------------------
(* Properties                                                              *)

GatewayTypeOK ==
  /\ flow \in [Attempts -> {"none", "connecting", "asking", "validating", "cancelling",
                            "connected", "failed", "cancelled"}]
  /\ authUrl \in [Attempts -> {"none", "pending", "set", "cancelled"}]
  /\ callback \in [Attempts -> {"none", "pending", "set", "cancelled"}]
  /\ awaits \in [Attempts -> 0..MaxConnects]
  /\ starter \subseteq Attempts /\ {pointed, nonce, closing} \subseteq 0..MaxConnects
  /\ stateStatus \in {"NOT_CONFIGURED", "AUTHORIZING", "CONNECTED", "ERROR"}
  /\ {token, quiet} \subseteq BOOLEAN
  /\ reading \in {"NONE", "MARKET", "ACCOUNT"}

(* A disconnect that no broker read and no new attempt overlaps leaves no  *)
(* task running and no token, and nothing brings them back before the next *)
(* attempt: no late code, no callback, no restart.  A read in flight would *)
(* write its refreshed token, or set CONNECTED, after the clearing.        *)
QuietDisconnect ==
  quiet => /\ ~ token /\ \A n \in Attempts : ~ Live(n)
           /\ PublicStatus \in {"NOT_CONFIGURED", "ERROR"}

(* The operator can always try again: whether a user never comes back, a   *)
(* denial leaves the task waiting or an answer gets lost, the task ends.   *)
RetryPossible == []<>(~ Live(pointed))
=============================================================================
