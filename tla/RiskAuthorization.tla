------------------------- MODULE RiskAuthorization -------------------------
(***************************************************************************)
(* The deterministic risk engine (backend/app/risk) and the routes that    *)
(* run it: an assessment loads the active policy, the controls and the     *)
(* earlier assessments, evaluates its twenty checks on what it loaded, and *)
(* commits the outcome, and the circuit breaker it trips, in a later step. *)
(*                                                                         *)
(* Quantities are hundredths of a share, prices are dollars, amounts are   *)
(* cents.  A request carries the ages its timestamps give it, and whether  *)
(* the instrument may be traded in fractions.                              *)
(***************************************************************************)
EXTENDS Integers, Sequences, FiniteSets, FiniteSetsExt

CONSTANTS
  Requests,       \* the assessments callers ask for
  Configurations, \* the policies operators create
  DefaultPolicy,  \* DEFAULT_POLICY
  Callers,        \* API threads
  MaxPolicies,    \* bound: versions of the policy
  MaxUpdates      \* bound: operator updates of the controls

VARIABLES
  policies,       \* risk_policies, by version
  controls,       \* the switches of risk_control_state
  assessments,    \* risk_assessments
  caller,         \* what each thread is about to commit
  tripped,        \* a breaker code was recorded and not cleared since
  updates         \* bound counter

riskVars == <<policies, controls, assessments, caller, tripped, updates>>

-----------------------------------------------------------------------------
(* The engine                                                              *)

Absolute(x) == IF x < 0 THEN -x ELSE x
Trial(p, r) == p.eligible /\ r.portfolio < p.trialBelow
PositionLimit(p, r) ==  \* in cents, times 100
  Max({r.portfolio * p.maxPosition, IF Trial(p, r) THEN 100 * p.trialNotional ELSE 0})

(* The checks on the order itself, for either side.                        *)
OrderChecks(p, r, k) ==
  LET notional == r.qty * r.price
      whole == r.qty % 100 = 0
  IN [KILL_SWITCH_CLEAR |-> ~k.kill,
      CIRCUIT_BREAKER_CLEAR |-> ~k.breaker,
      ORDER_QUANTITY |-> r.qty \in 1..p.maxQuantity,
      MINIMUM_NOTIONAL |-> notional >= p.minNotional,
      FRACTIONAL_ELIGIBILITY |-> whole \/ r.fractions,
      FRACTIONAL_SESSION |-> whole \/ r.session,
      ORDER_NOTIONAL |-> notional \in 1..p.maxNotional,
      PRICE_SANITY |-> Absolute(r.price - r.reference) * 10000 <= p.maxDeviation * r.reference,
      SELL_POSITION_AVAILABLE |-> r.side = "BUY" \/ notional <= r.position,
      OPEN_ORDERS |-> r.open < p.maxOpen,
      MARKET_DATA_FRESH |-> r.age \in 0..p.maxAge,
      PROPOSAL_FRESH |-> r.proposalAge \in 0..p.maxProposalAge]

(* The limits a sale is exempt from.                                       *)
EntryChecks(p, r) ==
  LET notional == r.qty * r.price IN
     [POSITION_LIMIT |-> 100 * (r.position + notional) <= PositionLimit(p, r),
      PORTFOLIO_EXPOSURE |-> 100 * (r.exposure + notional) <= r.portfolio * p.maxExposure,
      SECTOR_EXPOSURE |-> 100 * (r.sector + notional) <= r.portfolio * p.maxSector,
      CORRELATION_EXPOSURE |-> 100 * (r.correlated + notional) <= r.portfolio * p.maxCorrelated,
      DAILY_LOSS |-> r.pnl >= -p.maxLoss,
      DRAWDOWN |-> r.drawdown <= p.maxDrawdown,
      VOLATILITY |-> r.volatility <= p.maxVolatility,
      BUYING_POWER |-> 100 * notional <= r.power * p.maxPowerUse]

FailedIn(checks) == {c \in DOMAIN checks : ~checks[c]}
Failed(p, r, k) ==
  FailedIn(OrderChecks(p, r, k)) \cup (IF r.side = "SELL" THEN {} ELSE FailedIn(EntryChecks(p, r)))
BreakerCodes == {"DAILY_LOSS", "DRAWDOWN", "VOLATILITY"}

(* effective_policy: a strategy may tighten four of the limits.            *)
\* Mutant: the strategy's limit replaces the policy's.
Replaced(limit, own) == own
Tightened(limit, own) == Min({limit, own})
Effective(p, r) ==
  [f \in DOMAIN p |->
     IF f \in DOMAIN r.limits THEN Tightened(p[f], r.limits[f])
     ELSE IF f = "eligible" THEN p.trialEnabled /\ r.farm
     ELSE p[f]]

(* What schemas.py admits, and the four limits of a strategy.              *)
PolicyTerms ==
  {"maxQuantity", "minNotional", "maxNotional", "maxDeviation", "maxOpen", "maxAge",
   "maxProposalAge", "maxPosition", "maxExposure", "maxSector", "maxCorrelated", "maxLoss",
   "maxDrawdown", "maxVolatility", "maxPowerUse", "trialBelow", "trialNotional"}
IsPolicy(p) ==
  /\ DOMAIN p = PolicyTerms \cup {"trialEnabled", "eligible"}
  /\ \A f \in PolicyTerms : p[f] \in Nat
  /\ p.trialEnabled \in BOOLEAN /\ ~p.eligible
Tightenable == {"maxPosition", "maxExposure", "maxLoss", "maxDrawdown"}
IsRequest(r) ==
  /\ {r.qty, r.price, r.reference, r.portfolio, r.power, r.position, r.exposure, r.sector,
      r.correlated, r.pnl, r.drawdown, r.volatility} \subseteq Int
  /\ r.portfolio \in Nat
  /\ DOMAIN r.limits \subseteq Tightenable /\ \A f \in DOMAIN r.limits : r.limits[f] \in Nat

ASSUME RiskAssumption ==
  /\ IsPolicy(DefaultPolicy) /\ \A conf \in Configurations : IsPolicy(conf)
  /\ \A r \in Requests : IsRequest(r)
  /\ MaxUpdates \in Nat

-----------------------------------------------------------------------------
(* State                                                                   *)

PolicyRow(conf) == [conf |-> conf, active |-> TRUE]
RiskControls == [kill: BOOLEAN, breaker: BOOLEAN]
Outcome == {"AUTHORIZED", "REJECTED"}

(* ensure_defaults at start: a policy made before the two-dollar trial is  *)
(* rewritten in place.                                                     *)
Upgraded(conf) == IF conf.trialNotional < 200 THEN [conf EXCEPT !.trialNotional = 200] ELSE conf
ActiveOf(rows) == {v \in DOMAIN rows : rows[v].active}
Newest(rows) == Max(ActiveOf(rows))

Doing(op, fields) == [op |-> op, with |-> fields]
Resting == Doing("none", <<>>)

RiskInit ==
  /\ policies = <<PolicyRow(DefaultPolicy)>>
  /\ controls = [kill |-> FALSE, breaker |-> FALSE]
  /\ assessments = {}
  /\ caller = [c \in Callers |-> Resting]
  /\ tripped = FALSE /\ updates = 0

-----------------------------------------------------------------------------
(* assess                                                                  *)

Identity(p, r) == <<Effective(p, r), r>>
\* Mutant: the proposal id is not looked up.
NotLookedUp(r) == FALSE
Duplicate(r) == \E a \in assessments : a.request.proposal = r.proposal

Reasons(p, r) == IF Duplicate(r) THEN {"DUPLICATE_PROPOSAL"} ELSE Failed(Effective(p, r), r, controls)

AssessLoad(c, r) ==
  /\ caller[c] = Resting
  /\ LET v == Newest(policies) IN
     /\ ~\E a \in assessments : a.identity = Identity(policies[v].conf, r)
     /\ caller' = [caller EXCEPT ![c] = Doing("assess",
          [request |-> r, policy |-> v, identity |-> Identity(policies[v].conf, r),
           reasons |-> Reasons(policies[v].conf, r), breaker |-> controls.breaker,
           crossed |-> FALSE])]
  /\ UNCHANGED <<policies, controls, assessments, tripped, updates>>

(* A commit crosses the requests that loaded before it.                    *)
Crossing(c) ==
  [d \in Callers |-> IF d = c THEN Resting
                     ELSE IF caller[d].op = "assess" THEN [caller[d] EXCEPT !.with.crossed = TRUE]
                     ELSE caller[d]]

(* The breaker is written when it differs from the loaded one.             *)
Trips(w) == w.reasons \cap BreakerCodes # {}
\* Mutant: the loaded value is written back.
StaleBreaker(w) == Trips(w) \/ w.breaker
BreakerAfter(w) == IF Trips(w) /\ ~w.breaker THEN TRUE ELSE controls.breaker

AssessCommit(c) ==
  /\ caller[c].op = "assess"
  /\ LET w == caller[c].with
         row == [request |-> w.request, policy |-> w.policy, identity |-> w.identity,
                 outcome |-> IF w.reasons = {} THEN "AUTHORIZED" ELSE "REJECTED",
                 reasons |-> w.reasons, crossed |-> w.crossed]
     IN IF \E a \in assessments : a.identity = w.identity
        THEN /\ caller' = [caller EXCEPT ![c] = Resting]   \* the unique index raises
             /\ UNCHANGED <<controls, assessments, tripped>>
        ELSE /\ assessments' = assessments \cup {row}
             /\ controls' = [controls EXCEPT !.breaker = BreakerAfter(w)]
             /\ tripped' = (tripped \/ (w.reasons \cap BreakerCodes # {} /\ ~w.crossed))
             /\ caller' = Crossing(c)
  /\ UNCHANGED <<policies, updates>>

-----------------------------------------------------------------------------
(* The operator's routes, and a restart                                    *)

UpdateLoad(c, kill, breaker) ==
  /\ caller[c] = Resting /\ updates < MaxUpdates /\ updates' = updates + 1
  /\ caller' = [caller EXCEPT ![c] =
       Doing("update", [seen |-> controls, new |-> [kill |-> kill, breaker |-> breaker]])]
  /\ UNCHANGED <<policies, controls, assessments, tripped>>

UpdateCommit(c) ==
  /\ caller[c].op = "update"
  /\ LET w == caller[c].with
         written(f) == IF w.new[f] # w.seen[f] THEN w.new[f] ELSE controls[f]
     IN controls' = [f \in {"kill", "breaker"} |-> written(f)]
  /\ tripped' = (tripped /\ controls'.breaker)
  /\ caller' = Crossing(c)
  /\ UNCHANGED <<policies, assessments, updates>>

PolicyLoad(c, conf) ==
  /\ caller[c] = Resting /\ Len(policies) < MaxPolicies
  /\ ~\E v \in DOMAIN policies : policies[v].conf = conf
  /\ caller' = [caller EXCEPT ![c] =
       Doing("policy", [conf |-> conf, version |-> Len(policies) + 1, old |-> ActiveOf(policies)])]
  /\ UNCHANGED <<policies, controls, assessments, tripped, updates>>

(* The unique version and checksum let one of two creations through.       *)
\* Mutant: the policies that were active stay so.
KeptActive(rows, old) == rows
Deactivated(rows, old) == [v \in DOMAIN rows |-> [rows[v] EXCEPT !.active = @ /\ v \notin old]]
PolicyCommit(c) ==
  /\ caller[c].op = "policy"
  /\ LET w == caller[c].with IN
     policies' = IF w.version \in DOMAIN policies THEN policies
                 ELSE Append(Deactivated(policies, w.old), PolicyRow(w.conf))
  /\ caller' = [caller EXCEPT ![c] = Resting]
  /\ UNCHANGED <<controls, assessments, tripped, updates>>

(* A rewritten policy keeps its checksum unique, or the start fails.       *)
Restart ==
  /\ \E c \in Callers : caller[c] # Resting
  /\ LET v == Newest(policies)
         conf == Upgraded(policies[v].conf)
     IN /\ ~\E u \in DOMAIN policies \ {v} : policies[u].conf = conf
        /\ policies' = [policies EXCEPT ![v].conf = conf]
  /\ caller' = [c \in Callers |-> Resting]
  /\ UNCHANGED <<controls, assessments, tripped, updates>>

RiskNext ==
  \/ Restart
  \/ \E c \in Callers :
       \/ \E r \in Requests : AssessLoad(c, r)
       \/ \E k, b \in BOOLEAN : UpdateLoad(c, k, b)
       \/ \E conf \in Configurations : PolicyLoad(c, conf)
       \/ AssessCommit(c) \/ UpdateCommit(c) \/ PolicyCommit(c)

RiskSpec == RiskInit /\ [][RiskNext]_riskVars

-----------------------------------------------------------------------------
(* Properties                                                              *)

RiskTypeOK ==
  /\ \A v \in DOMAIN policies : policies[v].active \in BOOLEAN
  /\ controls \in RiskControls
  /\ \A a \in assessments : a.request \in Requests /\ a.outcome \in Outcome
                            /\ a.policy \in DOMAIN policies
  /\ \A c \in Callers : caller[c].op \in {"none", "assess", "update", "policy"}
  /\ tripped \in BOOLEAN /\ updates \in 0..MaxUpdates

(* A breaker that an assessment tripped stays engaged until an operator    *)
(* clears it, whatever commits later.  Not counted are the trips of an     *)
(* assessment beside which an assessment or an update committed: such an   *)
(* update may have cleared what the assessment believes engaged.           *)
TripHeld == tripped => controls.breaker

(* Of the assessments of one proposal, at most one is authorized, however  *)
(* the proposal's numbers and the policy change in between, when none ran  *)
(* beside the commit of another.  Two that do can both be authorized,      *)
(* which the documents' duplicate prevention denies: nothing in the        *)
(* database keeps them apart, and this property does not cover them.       *)
OneAuthorization ==
  \A a, b \in assessments :
    /\ a.request.proposal = b.request.proposal
    /\ a.outcome = "AUTHORIZED" /\ b.outcome = "AUTHORIZED"
    /\ ~a.crossed /\ ~b.crossed
    => a = b

(* One policy is active at a time, whatever creations race.                *)
OneActivePolicy == Cardinality(ActiveOf(policies)) = 1

(* What a strategy authorizes the global policy allows too, except for the *)
(* position limit of the micro-account trial.                              *)
NeverLoosened ==
  \A a \in assessments :
    a.outcome = "AUTHORIZED" =>
      Failed(policies[a.policy].conf, a.request, [kill |-> FALSE, breaker |-> FALSE])
        \subseteq (IF Trial(a.identity[1], a.request) THEN {"POSITION_LIMIT"} ELSE {})
=============================================================================
