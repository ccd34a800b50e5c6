------------------------- MODULE AuthorizationProofs -------------------------
(***************************************************************************)
(* What the risk engine lets through.  That one policy is active, that a   *)
(* tripped breaker holds and that a proposal is authorized once, for any   *)
(* requests, policies and callers; that no strategy loosens the policy, for*)
(* any that schemas.py admits; and of exits, what an authorized one rests  *)
(* on and that it is authorized once, for any positions, prices, snapshots *)
(* and deaths of the worker.                                               *)
(*                                                                         *)
(* None of the four about the engine is inductive: what a commit may do    *)
(* depends on what its thread loaded.  The invariant says what each thread *)
(* in flight may rely on: a creation whose version is free knows the active*)
(* policies, and an assessment that nothing crossed knows the breaker and  *)
(* that no other assessment of its proposal exists.                        *)
(*                                                                         *)
(* Nor are the properties of exits: between the commit of an assessment    *)
(* and the commit that marks the plan with it, time passes, snapshots and  *)
(* quotes arrive and the worker dies, and the mark tells what was true at  *)
(* the assessment.  The invariant says what the worker still carries then. *)
(***************************************************************************)
EXTENDS RiskAuthorization, DividendExit, FiniteSums

(* The shape of the rows.                                                  *)
PolicyShape(row) == row = [conf |-> row.conf, active |-> row.active] /\ row.active \in BOOLEAN
RowsInv ==
  /\ Len(policies) \in Nat
  /\ policies = [v \in 1..Len(policies) |-> policies[v]]
  /\ \A v \in 1..Len(policies) : PolicyShape(policies[v])
  /\ \E v \in 1..Len(policies) : ActiveOf(policies) = {v}
  /\ controls \in RiskControls
  /\ caller = [c \in Callers |-> caller[c]]
  /\ \A c \in Callers : caller[c] = [op |-> caller[c].op, with |-> caller[c].with]

(* A creation whose version is still free knows what it has to deactivate. *)
CreationInv(c) ==
  LET w == caller[c].with IN
  caller[c].op = "policy" =>
    /\ w.version \in 1..(Len(policies) + 1)
    /\ w.version = Len(policies) + 1 => w.old = ActiveOf(policies)

UpdateInv(c) ==
  caller[c].op = "update" => {caller[c].with.seen, caller[c].with.new} \subseteq RiskControls

(* An assessment nothing crossed knows the breaker, and that it is the     *)
(* first of its proposal if it will authorize.                             *)
AssessInv(c) ==
  LET w == caller[c].with IN
  caller[c].op = "assess" =>
    /\ w = [request |-> w.request, policy |-> w.policy, identity |-> w.identity,
            reasons |-> w.reasons, breaker |-> w.breaker, crossed |-> w.crossed]
    /\ w.breaker \in BOOLEAN /\ w.crossed \in BOOLEAN
    /\ ~w.crossed =>
         /\ w.breaker = controls.breaker
         /\ w.reasons = {} => ~\E a \in assessments : a.request.proposal = w.request.proposal

CallerInv == \A c \in Callers : CreationInv(c) /\ UpdateInv(c) /\ AssessInv(c)
RInv == RowsInv /\ CallerInv /\ TripHeld /\ OneAuthorization

-----------------------------------------------------------------------------
(* Updating a field of a row keeps the others.                             *)
LEMMA FieldUpdates ==
  ASSUME NEW row, NEW z, row = [conf |-> row.conf, active |-> row.active]
  PROVE  [row EXCEPT !.active = z] = [conf |-> row.conf, active |-> z]
OBVIOUS

(* And so does marking an assessment as crossed.                           *)
LEMMA CrossedUpdates ==
  ASSUME NEW w, NEW z,
         w = [request |-> w.request, policy |-> w.policy, identity |-> w.identity,
              reasons |-> w.reasons, breaker |-> w.breaker, crossed |-> w.crossed]
  PROVE  [w EXCEPT !.crossed = z] =
           [request |-> w.request, policy |-> w.policy, identity |-> w.identity,
            reasons |-> w.reasons, breaker |-> w.breaker, crossed |-> z]
OBVIOUS

(* The newest of the active policies is the only one.                      *)
LEMMA NewestIsActive ==
  ASSUME RowsInv PROVE Newest(policies) \in 1..Len(policies)
<1>1. PICK v \in 1..Len(policies) : ActiveOf(policies) = {v} BY DEF RowsInv
<1>2. Max({v}) = v BY <1>1 DEF Max
<1>3. QED BY <1>1, <1>2 DEF Newest

(* Loading changes nothing but what the thread holds.                      *)
LEMMA LoadKeeps ==
  ASSUME RInv, NEW c \in Callers,
         \/ \E r \in Requests : AssessLoad(c, r)
         \/ \E k, b \in BOOLEAN : UpdateLoad(c, k, b)
         \/ \E conf \in Configurations : PolicyLoad(c, conf)
  PROVE  RInv'
<1>1. UNCHANGED <<policies, controls, assessments, tripped>>
  BY DEF AssessLoad, UpdateLoad, PolicyLoad
<1>2. PICK op, w : caller' = [caller EXCEPT ![c] = [op |-> op, with |-> w]]
  BY DEF AssessLoad, UpdateLoad, PolicyLoad, Doing
<1>3. RowsInv' BY <1>1, <1>2 DEF RInv, RowsInv, ActiveOf
<1>4. \A d \in Callers \ {c} : CreationInv(d)' /\ UpdateInv(d)' /\ AssessInv(d)'
  BY <1>1, <1>2 DEF RInv, RowsInv, CallerInv, CreationInv, UpdateInv, AssessInv, ActiveOf
<1>5. CreationInv(c)' /\ UpdateInv(c)' /\ AssessInv(c)'
  <2>1. CASE \E r \in Requests : AssessLoad(c, r)
    <3>1. PICK r \in Requests : AssessLoad(c, r) BY <2>1
    <3>2. caller'[c].op = "assess" /\ caller'[c].with =
            [request |-> r, policy |-> Newest(policies),
             identity |-> Identity(policies[Newest(policies)].conf, r),
             reasons |-> Reasons(policies[Newest(policies)].conf, r),
             breaker |-> controls.breaker, crossed |-> FALSE]
      BY <3>1 DEF AssessLoad, Doing, RInv, RowsInv
    <3>3. Reasons(policies[Newest(policies)].conf, r) = {} =>
            ~\E a \in assessments : a.request.proposal = r.proposal
      BY DEF Reasons, Duplicate
    <3>4. QED BY <1>1, <3>2, <3>3 DEF CreationInv, UpdateInv, AssessInv, RInv, RowsInv, RiskControls
  <2>2. CASE \E k, b \in BOOLEAN : UpdateLoad(c, k, b)
    <3>1. PICK k \in BOOLEAN, b \in BOOLEAN : UpdateLoad(c, k, b) BY <2>2
    <3>2. caller'[c].op = "update" /\ caller'[c].with =
            [seen |-> controls, new |-> [kill |-> k, breaker |-> b]]
      BY <3>1 DEF UpdateLoad, Doing, RInv, RowsInv
    <3>3. QED BY <3>2 DEF CreationInv, UpdateInv, AssessInv, RInv, RowsInv, RiskControls
  <2>3. CASE \E conf \in Configurations : PolicyLoad(c, conf)
    <3>1. PICK conf \in Configurations : PolicyLoad(c, conf) BY <2>3
    <3>2. caller'[c].op = "policy" /\ caller'[c].with =
            [conf |-> conf, version |-> Len(policies) + 1, old |-> ActiveOf(policies)]
      BY <3>1 DEF PolicyLoad, Doing, RInv, RowsInv
    <3>3. QED BY <1>1, <3>2 DEF CreationInv, UpdateInv, AssessInv, RInv, RowsInv, ActiveOf
  <2>4. QED BY <2>1, <2>2, <2>3
<1>6. QED BY <1>1, <1>3, <1>4, <1>5 DEF RInv, CallerInv, TripHeld, OneAuthorization

-----------------------------------------------------------------------------
(* What a commit that others cross leaves of their threads.                *)
LEMMA CrossingKeeps ==
  ASSUME RInv, NEW c \in Callers, caller' = Crossing(c), UNCHANGED policies,
         controls' \in RiskControls
  PROVE  RowsInv' /\ CallerInv'
<1>1. RowsInv'
  <2>1. ASSUME NEW d \in Callers
        PROVE  caller'[d] = [op |-> caller'[d].op, with |-> caller'[d].with]
    <3>1. CASE d = c BY <3>1 DEF Crossing, Resting, Doing
    <3>2. CASE d # c /\ caller[d].op = "assess"
      <4>1. caller'[d] = [caller[d] EXCEPT !.with.crossed = TRUE] BY <3>2 DEF Crossing
      <4> DEFINE x == [caller[d].with EXCEPT !.crossed = TRUE]
      <4>2. caller'[d] = [caller[d] EXCEPT !.with = x] BY <4>1
      <4> HIDE DEF x
      <4>3. QED BY <4>2 DEF RInv, RowsInv
    <3>3. CASE d # c /\ caller[d].op # "assess" BY <3>3 DEF Crossing, RInv, RowsInv
    <3>4. QED BY <3>1, <3>2, <3>3
  <2>2. caller' = [d \in Callers |-> caller'[d]] BY DEF Crossing
  <2>3. QED BY <2>1, <2>2 DEF RInv, RowsInv, ActiveOf
<1>2. ASSUME NEW d \in Callers PROVE CreationInv(d)' /\ UpdateInv(d)' /\ AssessInv(d)'
  <2>1. CASE d = c
    BY <2>1 DEF Crossing, Resting, Doing, CreationInv, UpdateInv, AssessInv
  <2>2. CASE d # c /\ caller[d].op = "assess"
    <3> DEFINE w == caller[d].with
               x == [w EXCEPT !.crossed = TRUE]
    <3>1. caller'[d] = [caller[d] EXCEPT !.with = x] BY <2>2 DEF Crossing
    <3>2. AssessInv(d) BY DEF RInv, CallerInv
    <3>3. x = [request |-> w.request, policy |-> w.policy, identity |-> w.identity,
               reasons |-> w.reasons, breaker |-> w.breaker, crossed |-> TRUE]
      <4>1. w = [request |-> w.request, policy |-> w.policy, identity |-> w.identity,
                 reasons |-> w.reasons, breaker |-> w.breaker, crossed |-> w.crossed]
        BY <2>2, <3>2 DEF AssessInv
      <4> HIDE DEF w
      <4>2. QED BY <4>1, CrossedUpdates, Zenon
    <3> HIDE DEF x
    <3>4. caller'[d].op = "assess" /\ caller'[d].with = x
      BY <2>2, <3>1 DEF RInv, RowsInv
    <3>5. QED BY <2>2, <3>2, <3>3, <3>4 DEF CreationInv, UpdateInv, AssessInv
  <2>3. CASE d # c /\ caller[d].op # "assess"
    BY <2>3 DEF Crossing, RInv, CallerInv, CreationInv, UpdateInv, AssessInv, ActiveOf
  <2>4. QED BY <2>1, <2>2, <2>3
<1>3. QED BY <1>1, <1>2 DEF CallerInv

(* A thread that stops holding anything leaves the others as they were.    *)
LEMMA RestingKeeps ==
  ASSUME RInv, NEW c \in Callers, caller' = [caller EXCEPT ![c] = Resting],
         UNCHANGED <<policies, controls, assessments>>
  PROVE  RowsInv' /\ CallerInv'
<1>1. RowsInv' BY DEF RInv, RowsInv, ActiveOf, Resting, Doing
<1>2. CallerInv'
  BY DEF RInv, RowsInv, CallerInv, CreationInv, UpdateInv, AssessInv, ActiveOf, Resting, Doing
<1>3. QED BY <1>1, <1>2

(* An assessment commits a breaker that is at least the one it found, and  *)
(* an authorization that is the first of its proposal, if nothing crossed. *)
LEMMA AssessKeeps ==
  ASSUME RInv, NEW c \in Callers, AssessCommit(c) PROVE RInv'
<1> DEFINE w == caller[c].with
           row == [request |-> w.request, policy |-> w.policy, identity |-> w.identity,
                   outcome |-> IF w.reasons = {} THEN "AUTHORIZED" ELSE "REJECTED",
                   reasons |-> w.reasons, crossed |-> w.crossed]
<1>1. AssessInv(c) /\ caller[c].op = "assess" BY DEF RInv, CallerInv, AssessCommit
<1>2. CASE \E a \in assessments : a.identity = w.identity
  <2>1. caller' = [caller EXCEPT ![c] = Resting] /\ UNCHANGED <<policies, controls, assessments, tripped>>
    BY <1>2 DEF AssessCommit
  <2>2. QED BY <2>1, RestingKeeps DEF RInv, TripHeld, OneAuthorization
<1>3. CASE ~\E a \in assessments : a.identity = w.identity
  <2>1. /\ assessments' = assessments \cup {row}
        /\ controls' = [controls EXCEPT !.breaker = BreakerAfter(w)]
        /\ tripped' = (tripped \/ (w.reasons \cap BreakerCodes # {} /\ ~w.crossed))
        /\ caller' = Crossing(c) /\ UNCHANGED policies
    BY <1>3 DEF AssessCommit
  <2>2. controls' \in RiskControls
    BY <2>1 DEF RInv, RowsInv, RiskControls, BreakerAfter
  <2>3. RowsInv' /\ CallerInv' BY <2>1, <2>2, CrossingKeeps
  <2>4. TripHeld'
    BY <2>1, <1>1 DEF TripHeld, RInv, RowsInv, RiskControls, BreakerAfter, Trips, AssessInv
  <2>5. OneAuthorization'
    <3>1. row.outcome = "AUTHORIZED" /\ ~row.crossed =>
            ~\E a \in assessments : a.request.proposal = row.request.proposal
      BY <1>1 DEF AssessInv
    <3>2. QED BY <2>1, <3>1 DEF RInv, OneAuthorization
  <2>6. QED BY <2>3, <2>4, <2>5 DEF RInv
<1>4. QED BY <1>2, <1>3

LEMMA UpdateKeeps ==
  ASSUME RInv, NEW c \in Callers, UpdateCommit(c) PROVE RInv'
<1>1. UpdateInv(c) /\ caller[c].op = "update" BY DEF RInv, CallerInv, UpdateCommit
<1>2. controls' \in RiskControls
  BY <1>1 DEF UpdateCommit, UpdateInv, RInv, RowsInv, RiskControls
<1>3. RowsInv' /\ CallerInv' BY <1>2, CrossingKeeps DEF UpdateCommit
<1>4. QED BY <1>3 DEF UpdateCommit, RInv, TripHeld, OneAuthorization

(* What a creation whose version is free makes of the policies.            *)
LEMMA PolicyAppends ==
  ASSUME RInv, NEW c \in Callers,
         LET w == caller[c].with IN
           w.old = ActiveOf(policies)
           /\ policies' = Append(Deactivated(policies, w.old), PolicyRow(w.conf))
  PROVE  LET n == Len(policies)
             w == caller[c].with
         IN  Len(policies') = n + 1 /\ policies' = [v \in 1..(n + 1) |->
               IF v = n + 1 THEN PolicyRow(w.conf)
               ELSE [conf |-> policies[v].conf, active |-> FALSE]]
<1> DEFINE w == caller[c].with  n == Len(policies)
<1>1. w.old = ActiveOf(policies) /\ policies' = Append(Deactivated(policies, w.old), PolicyRow(w.conf))
  OBVIOUS
<1>2. DOMAIN policies = 1..n /\ n \in Nat BY DEF RInv, RowsInv
<1>3. Deactivated(policies, w.old) =
        [v \in 1..n |-> [conf |-> policies[v].conf, active |-> FALSE]]
  <2>1. ASSUME NEW v \in 1..n
        PROVE  [policies[v] EXCEPT !.active = @ /\ v \notin w.old]
                 = [conf |-> policies[v].conf, active |-> FALSE]
    <3>1. (policies[v].active /\ v \notin w.old) = FALSE BY <1>1, <1>2 DEF ActiveOf
    <3>2. [policies[v] EXCEPT !.active = @ /\ v \notin w.old]
            = [policies[v] EXCEPT !.active = FALSE]
      BY <3>1
    <3>3. policies[v] = [conf |-> policies[v].conf, active |-> policies[v].active]
      BY DEF RInv, RowsInv, PolicyShape
    <3>4. [policies[v] EXCEPT !.active = FALSE] = [conf |-> policies[v].conf, active |-> FALSE]
      BY <3>3, FieldUpdates, Zenon
    <3>5. QED BY <3>2, <3>4, Zenon
  <2>2. QED BY <2>1, <1>2 DEF Deactivated
<1>4. Len(policies') = n + 1 /\ policies' = [v \in 1..(n + 1) |->
        IF v = n + 1 THEN PolicyRow(w.conf) ELSE [conf |-> policies[v].conf, active |-> FALSE]]
  <2> DEFINE R == {PolicyRow(w.conf)} \cup {[conf |-> policies[v].conf, active |-> FALSE] : v \in 1..n}
             s == [v \in 1..n |-> [conf |-> policies[v].conf, active |-> FALSE]]
  <2>1. s \in Seq(R) /\ Len(s) = n
    <3>1. \A v \in 1..n : s[v] \in R OBVIOUS
    <3> HIDE DEF R
    <3>2. s \in [1..n -> R] BY <3>1
    <3>3. QED BY <3>2, <1>2
  <2>2. PolicyRow(w.conf) \in R OBVIOUS
  <2> HIDE DEF R
  <2>3. QED BY <2>1, <2>2, <1>1, <1>3, <1>2
<1>5. QED BY <1>4

(* A new policy takes the place of the one that was active: its version is *)
(* free, so no other was created since its thread loaded.                  *)
LEMMA PolicyKeeps ==
  ASSUME RInv, NEW c \in Callers, PolicyCommit(c) PROVE RInv'
<1> DEFINE w == caller[c].with  n == Len(policies)
<1>1. CreationInv(c) /\ caller[c].op = "policy" /\ UNCHANGED <<controls, assessments, tripped>>
  BY DEF RInv, CallerInv, PolicyCommit
<1>2. DOMAIN policies = 1..n /\ n \in Nat BY DEF RInv, RowsInv
<1>3. CASE w.version \in 1..n
  <2>1. caller' = [caller EXCEPT ![c] = Resting] /\ UNCHANGED policies
    BY <1>2, <1>3 DEF PolicyCommit
  <2>2. QED BY <1>1, <2>1, RestingKeeps DEF RInv, TripHeld, OneAuthorization
<1>4. CASE w.version \notin 1..n
  <2>1. w.version = n + 1 /\ w.old = ActiveOf(policies)
    BY <1>1, <1>2, <1>4 DEF CreationInv
  <2>2. policies' = Append(Deactivated(policies, w.old), PolicyRow(w.conf))
    BY <1>2, <1>4 DEF PolicyCommit
  <2>4. Len(policies') = n + 1 /\ policies' = [v \in 1..(n + 1) |->
          IF v = n + 1 THEN PolicyRow(w.conf) ELSE [conf |-> policies[v].conf, active |-> FALSE]]
    BY <1>2, <2>1, <2>2, PolicyAppends
  <2>5. ActiveOf(policies') = {n + 1}
    BY <2>4, <1>2 DEF ActiveOf, PolicyRow
  <2>6. RowsInv'
    <3>1. \A v \in 1..(n + 1) : PolicyShape(policies'[v]) BY <1>2, <2>4 DEF PolicyShape, PolicyRow
    <3>2. caller' = [d \in Callers |-> caller'[d]] /\ \A d \in Callers :
            caller'[d] = [op |-> caller'[d].op, with |-> caller'[d].with]
      BY DEF RInv, RowsInv, PolicyCommit, Resting, Doing
    <3>3. policies' = [v \in 1..(n + 1) |-> policies'[v]] BY <2>4
    <3>4. Len(policies') = n + 1 /\ n + 1 \in Nat /\ n + 1 \in 1..(n + 1) BY <1>2, <2>4
    <3>5. controls' \in RiskControls BY <1>1 DEF RInv, RowsInv
    <3> HIDE DEF n
    <3>6. QED BY <2>5, <3>1, <3>2, <3>3, <3>4, <3>5 DEF RowsInv
  <2>7. CallerInv'
    <3>1. ASSUME NEW d \in Callers PROVE CreationInv(d)' /\ UpdateInv(d)' /\ AssessInv(d)'
      <4>1. CASE d = c
        BY <4>1 DEF PolicyCommit, RInv, RowsInv, Resting, Doing, CreationInv, UpdateInv, AssessInv
      <4>2. CASE d # c
        <5>1. caller'[d] = caller[d] BY <4>2 DEF PolicyCommit, RInv, RowsInv
        <5>2. QED
          BY <1>1, <1>2, <2>4, <5>1 DEF RInv, CallerInv, CreationInv, UpdateInv, AssessInv
      <4>3. QED BY <4>1, <4>2
    <3>2. QED BY <3>1 DEF CallerInv
  <2>8. QED BY <1>1, <2>6, <2>7 DEF RInv, TripHeld, OneAuthorization
<1>5. QED BY <1>3, <1>4

(* What a restart makes of the policies.                                   *)
LEMMA RestartRewrites ==
  ASSUME RInv, Restart
  PROVE  LET v == Newest(policies)
             x == Upgraded(policies[v].conf)
         IN  /\ v \in 1..Len(policies) /\ Len(policies') = Len(policies)
             /\ policies' = [u \in 1..Len(policies) |-> policies'[u]]
             /\ \A u \in 1..Len(policies) :
                  policies'[u] = IF u = v THEN [conf |-> x, active |-> policies[v].active]
                                 ELSE policies[u]
<1> DEFINE v == Newest(policies)
<1>1. v \in 1..Len(policies) BY NewestIsActive DEF RInv
<1>2. policies' = [policies EXCEPT ![v].conf = Upgraded(policies[v].conf)]
      /\ caller' = [c \in Callers |-> Resting] /\ UNCHANGED <<controls, assessments, tripped>>
  BY DEF Restart
<1> DEFINE x == Upgraded(policies[v].conf)
<1>3. policies' = [policies EXCEPT ![v] = [policies[v] EXCEPT !.conf = x]] BY <1>2
<1> HIDE DEF x
<1>4. [policies[v] EXCEPT !.conf = x] = [conf |-> x, active |-> policies[v].active]
  BY <1>1 DEF RInv, RowsInv, PolicyShape
<1>5. policies' = [u \in 1..Len(policies) |-> policies'[u]] /\ Len(policies') = Len(policies)
  <2> DEFINE n == Len(policies)
  <2>1. n \in Nat /\ DOMAIN policies = 1..n BY DEF RInv, RowsInv
  <2>2. DOMAIN policies' = 1..n /\ policies' = [u \in DOMAIN policies |-> policies'[u]]
    BY <1>3, <2>1
  <2>3. Len(policies') = n BY <2>1, <2>2
  <2>4. QED BY <2>1, <2>2, <2>3
<1>6. \A u \in 1..Len(policies) :
        policies'[u] = IF u = v THEN [conf |-> x, active |-> policies[v].active] ELSE policies[u]
  BY <1>1, <1>3, <1>4 DEF RInv, RowsInv
<1>7. QED BY <1>1, <1>5, <1>6 DEF x

(* A restart rewrites the terms of the active policy and forgets requests. *)
LEMMA RestartKeeps ==
  ASSUME RInv, Restart PROVE RInv'
<1>1. caller' = [c \in Callers |-> Resting] /\ UNCHANGED <<controls, assessments, tripped>>
  BY DEF Restart
<1>2. Len(policies') = Len(policies) /\ policies' = [u \in 1..Len(policies) |-> policies'[u]]
  BY RestartRewrites
<1>3. \A u \in 1..Len(policies) :
        PolicyShape(policies'[u]) /\ policies'[u].active = policies[u].active
  BY RestartRewrites DEF RInv, RowsInv, PolicyShape
<1>4. ActiveOf(policies') = ActiveOf(policies)
  BY <1>2, <1>3 DEF ActiveOf, RInv, RowsInv
<1>5. RowsInv' BY <1>1, <1>2, <1>3, <1>4 DEF RInv, RowsInv, Resting, Doing
<1>6. CallerInv'
  BY <1>1 DEF CallerInv, CreationInv, UpdateInv, AssessInv, Resting, Doing
<1>7. QED BY <1>1, <1>5, <1>6 DEF RInv, TripHeld, OneAuthorization

-----------------------------------------------------------------------------
(* Every step of the callers and of a restart keeps the invariant.         *)
THEOREM RiskInductive == RiskSpec => []RInv
<1>1. RiskInit => RInv
  <2> SUFFICES ASSUME RiskInit PROVE RInv OBVIOUS
  <2>1. policies = <<PolicyRow(DefaultPolicy)>> BY DEF RiskInit
  <2>2. Len(policies) = 1 /\ DOMAIN policies = {1} /\ policies[1] = PolicyRow(DefaultPolicy)
    BY <2>1
  <2>3. ActiveOf(policies) = {1} BY <2>2 DEF ActiveOf, PolicyRow
  <2>4. RowsInv
    <3>1. policies = [v \in 1..1 |-> policies[v]] BY <2>1, <2>2
    <3>2. controls \in RiskControls /\ caller = [c \in Callers |-> Resting]
      BY DEF RiskInit, RiskControls
    <3>3. PolicyShape(PolicyRow(DefaultPolicy)) BY DEF PolicyShape, PolicyRow
    <3>4. Resting = [op |-> Resting.op, with |-> Resting.with] BY DEF Resting, Doing
    <3>5. QED BY <2>2, <2>3, <3>1, <3>2, <3>3, <3>4 DEF RowsInv
  <2>5. QED
    BY <2>4 DEF RiskInit, RInv, CallerInv, CreationInv, UpdateInv, AssessInv, Resting, Doing,
               TripHeld, OneAuthorization
<1>2. RInv /\ [RiskNext]_riskVars => RInv'
  <2>1. ASSUME RInv, RiskNext PROVE RInv'
    BY <2>1, LoadKeeps, AssessKeeps, UpdateKeeps, PolicyKeeps, RestartKeeps DEF RiskNext
  <2>2. ASSUME RInv, UNCHANGED riskVars PROVE RInv'
    BY <2>2 DEF riskVars, RInv, RowsInv, CallerInv, CreationInv, UpdateInv, AssessInv, ActiveOf,
               TripHeld, OneAuthorization
  <2>3. QED BY <2>1, <2>2
<1>3. QED BY <1>1, <1>2, PTL DEF RiskSpec

(* A breaker an assessment tripped stays engaged until an operator clears  *)
(* it, unless another request committed beside that assessment (assess and *)
(* update_risk_controls).                                                  *)
THEOREM TripsHold == RiskSpec => []TripHeld
BY RiskInductive, PTL DEF RInv

(* A proposal is authorized once, unless assessments of it crossed (assess *)
(* with its lookup of the proposal).                                       *)
THEOREM AuthorizedOnce == RiskSpec => []OneAuthorization
BY RiskInductive, PTL DEF RInv

(* One policy is active, however creations and restarts race               *)
(* (create_risk_policy and ensure_defaults).                               *)
THEOREM ActiveOnce == RiskSpec => []OneActivePolicy
<1>1. RInv => OneActivePolicy
  BY FS_Singleton DEF RInv, RowsInv, OneActivePolicy
<1>2. QED BY RiskInductive, <1>1, PTL

-----------------------------------------------------------------------------
(* No loosening: the checks of the effective policy imply the global ones. *)

(* Minimum and maximum of two.                                             *)
LEMMA TwoOf ==
  ASSUME NEW a \in Int, NEW b \in Int
  PROVE  /\ Min({a, b}) \in Int /\ Min({a, b}) <= a
         /\ Max({a, b}) = IF a >= b THEN a ELSE b
<1>1. Min({a, b}) \in {a, b} /\ \A y \in {a, b} : Min({a, b}) <= y
  <2>1. \E x \in {a, b} : \A y \in {a, b} : x <= y BY a <= b \/ b <= a
  <2>2. QED BY <2>1 DEF Min
<1>2. Max({a, b}) \in {a, b} /\ \A y \in {a, b} : Max({a, b}) >= y
  <2>1. \E x \in {a, b} : \A y \in {a, b} : x >= y BY a <= b \/ b <= a
  <2>2. QED BY <2>1 DEF Max
<1>3. QED BY <1>1, <1>2

(* The position limit grows with its share of the portfolio.               *)
LEMMA FloorGrows ==
  ASSUME NEW u \in Int, NEW v \in Int, u <= v
  PROVE  /\ Max({u, 0}) \in Int /\ Max({v, 0}) \in Int
         /\ Max({u, 0}) <= Max({v, 0})
<1>1. Max({u, 0}) = IF u >= 0 THEN u ELSE 0 BY TwoOf
<1>2. ASSUME NEW w \in Int PROVE Max({w, 0}) = IF w >= 0 THEN w ELSE 0 BY TwoOf
<1>3. QED BY <1>1, <1>2

(* What a strategy leaves of the policy.                                   *)
LEMMA EffectiveTightens ==
  ASSUME NEW p, IsPolicy(p), NEW r, IsRequest(r)
  PROVE  LET e == Effective(p, r) IN
         /\ \A f \in DOMAIN p \ (Tightenable \cup {"eligible"}) : e[f] = p[f]
         /\ \A f \in Tightenable : e[f] \in Int /\ e[f] <= p[f]
<1>1. Tightenable \subseteq DOMAIN p /\ \A f \in Tightenable : p[f] \in Int
  BY DEF IsPolicy, PolicyTerms, Tightenable
<1>2. \A f \in DOMAIN r.limits : f \in Tightenable /\ r.limits[f] \in Int
  BY DEF IsRequest
<1>3. ASSUME NEW f \in Tightenable
      PROVE  Effective(p, r)[f] \in Int /\ Effective(p, r)[f] <= p[f]
  <2>1. f # "eligible" BY DEF Tightenable
  <2>2. CASE f \in DOMAIN r.limits
    <3>1. Effective(p, r)[f] = Min({p[f], r.limits[f]})
      BY <1>1, <2>2 DEF Effective, Tightened
    <3>2. QED BY <1>1, <1>2, <2>2, <3>1, TwoOf
  <2>3. CASE f \notin DOMAIN r.limits
    BY <1>1, <2>1, <2>3 DEF Effective
  <2>4. QED BY <2>2, <2>3
<1>4. \A f \in DOMAIN p \ (Tightenable \cup {"eligible"}) : Effective(p, r)[f] = p[f]
  BY <1>2 DEF Effective
<1>5. QED BY <1>3, <1>4

(* What the checks of an entry say, one by one.                            *)
LEMMA EntryChecksHold ==
  ASSUME NEW p, NEW r
  PROVE  LET n == r.qty * r.price
             x == EntryChecks(p, r)
         IN
         /\ FailedIn(x) = {c \in {"POSITION_LIMIT", "PORTFOLIO_EXPOSURE", "SECTOR_EXPOSURE",
              "CORRELATION_EXPOSURE", "DAILY_LOSS", "DRAWDOWN", "VOLATILITY", "BUYING_POWER"} : ~x[c]}
         /\ x.POSITION_LIMIT <=> 100 * (r.position + n) <= PositionLimit(p, r)
         /\ x.PORTFOLIO_EXPOSURE <=> 100 * (r.exposure + n) <= r.portfolio * p.maxExposure
         /\ x.SECTOR_EXPOSURE <=> 100 * (r.sector + n) <= r.portfolio * p.maxSector
         /\ x.CORRELATION_EXPOSURE <=> 100 * (r.correlated + n) <= r.portfolio * p.maxCorrelated
         /\ x.DAILY_LOSS <=> r.pnl >= -p.maxLoss
         /\ x.DRAWDOWN <=> r.drawdown <= p.maxDrawdown
         /\ x.VOLATILITY <=> r.volatility <= p.maxVolatility
         /\ x.BUYING_POWER <=> 100 * n <= r.power * p.maxPowerUse
<1> DEFINE x == EntryChecks(p, r)
<1>1. DOMAIN x = {"POSITION_LIMIT", "PORTFOLIO_EXPOSURE", "SECTOR_EXPOSURE",
         "CORRELATION_EXPOSURE", "DAILY_LOSS", "DRAWDOWN", "VOLATILITY", "BUYING_POWER"}
  BY DEF EntryChecks
<1>2. QED BY <1>1 DEF EntryChecks, FailedIn

Clear == [kill |-> FALSE, breaker |-> FALSE]

(* An order the effective policy lets through passes the order checks of   *)
(* the global one: none of their limits is the strategy's.                 *)
LEMMA OrderNotLoosened ==
  ASSUME NEW p, IsPolicy(p), NEW r, IsRequest(r), NEW k,
         FailedIn(OrderChecks(Effective(p, r), r, k)) = {}
  PROVE  FailedIn(OrderChecks(p, r, Clear)) = {}
<1> DEFINE e == Effective(p, r)
           x == OrderChecks(e, r, k)
           y == OrderChecks(p, r, Clear)
           order == {"ORDER_QUANTITY", "MINIMUM_NOTIONAL", "FRACTIONAL_ELIGIBILITY",
             "FRACTIONAL_SESSION", "ORDER_NOTIONAL", "PRICE_SANITY", "SELL_POSITION_AVAILABLE",
             "OPEN_ORDERS", "MARKET_DATA_FRESH", "PROPOSAL_FRESH"}
<1>1. /\ e.maxQuantity = p.maxQuantity /\ e.minNotional = p.minNotional
      /\ e.maxNotional = p.maxNotional /\ e.maxDeviation = p.maxDeviation
      /\ e.maxOpen = p.maxOpen /\ e.maxAge = p.maxAge /\ e.maxProposalAge = p.maxProposalAge
  BY EffectiveTightens DEF IsPolicy, PolicyTerms, Tightenable
<1> HIDE DEF e
<1>2. /\ DOMAIN x = {"KILL_SWITCH_CLEAR", "CIRCUIT_BREAKER_CLEAR"} \cup order
      /\ DOMAIN y = {"KILL_SWITCH_CLEAR", "CIRCUIT_BREAKER_CLEAR"} \cup order
  BY DEF OrderChecks
<1>3. \A c \in order : x[c] = y[c]
  <2>1. /\ x.ORDER_QUANTITY = y.ORDER_QUANTITY /\ x.MINIMUM_NOTIONAL = y.MINIMUM_NOTIONAL
        /\ x.FRACTIONAL_ELIGIBILITY = y.FRACTIONAL_ELIGIBILITY
        /\ x.FRACTIONAL_SESSION = y.FRACTIONAL_SESSION
    BY <1>1 DEF OrderChecks
  <2>2. x.ORDER_NOTIONAL = y.ORDER_NOTIONAL BY <1>1 DEF OrderChecks
  <2>3. x.PRICE_SANITY = y.PRICE_SANITY BY <1>1 DEF OrderChecks
  <2>4. /\ x.SELL_POSITION_AVAILABLE = y.SELL_POSITION_AVAILABLE
        /\ x.OPEN_ORDERS = y.OPEN_ORDERS /\ x.MARKET_DATA_FRESH = y.MARKET_DATA_FRESH
        /\ x.PROPOSAL_FRESH = y.PROPOSAL_FRESH
    BY <1>1 DEF OrderChecks
  <2> HIDE DEF x, y
  <2>5. QED BY <2>1, <2>2, <2>3, <2>4
<1>4. y.KILL_SWITCH_CLEAR /\ y.CIRCUIT_BREAKER_CLEAR
  <2>1. y.KILL_SWITCH_CLEAR = ~Clear.kill BY DEF OrderChecks
  <2>2. y.CIRCUIT_BREAKER_CLEAR = ~Clear.breaker BY DEF OrderChecks
  <2>3. ~Clear.kill /\ ~Clear.breaker BY DEF Clear
  <2> HIDE DEF y
  <2>4. QED BY <2>1, <2>2, <2>3
<1>5. FailedIn(x) = {} BY DEF e
<1> HIDE DEF x, y
<1>6. \A c \in DOMAIN y : y[c] BY <1>2, <1>3, <1>4, <1>5 DEF FailedIn
<1>7. FailedIn(y) = {} BY <1>6 DEF FailedIn
<1>8. QED BY <1>7 DEF y

(* And for a purchase the limits of an entry, but for the trial's.         *)
LEMMA EntryNotLoosened ==
  ASSUME NEW p, IsPolicy(p), NEW r, IsRequest(r),
         FailedIn(EntryChecks(Effective(p, r), r)) = {}
  PROVE  FailedIn(EntryChecks(p, r)) \subseteq
           (IF Trial(Effective(p, r), r) THEN {"POSITION_LIMIT"} ELSE {})
<1> DEFINE e == Effective(p, r)
           n == r.qty * r.price
<1>1. /\ e.maxSector = p.maxSector /\ e.maxCorrelated = p.maxCorrelated
      /\ e.maxVolatility = p.maxVolatility /\ e.maxPowerUse = p.maxPowerUse
      /\ {e.maxPosition, e.maxExposure, e.maxLoss, e.maxDrawdown} \subseteq Int
      /\ e.maxPosition <= p.maxPosition /\ e.maxExposure <= p.maxExposure
      /\ e.maxLoss <= p.maxLoss /\ e.maxDrawdown <= p.maxDrawdown
  BY EffectiveTightens DEF IsPolicy, PolicyTerms, Tightenable
<1>2. /\ {p.maxPosition, p.maxExposure, p.maxLoss, p.maxDrawdown, p.trialNotional} \subseteq Int
      /\ ~p.eligible
  BY DEF IsPolicy, PolicyTerms
<1> HIDE DEF e
<1>3. /\ 100 * (r.position + n) <= PositionLimit(e, r)
      /\ 100 * (r.exposure + n) <= r.portfolio * e.maxExposure
      /\ 100 * (r.sector + n) <= r.portfolio * e.maxSector
      /\ 100 * (r.correlated + n) <= r.portfolio * e.maxCorrelated
      /\ r.pnl >= -e.maxLoss /\ r.drawdown <= e.maxDrawdown
      /\ r.volatility <= e.maxVolatility /\ 100 * n <= r.power * e.maxPowerUse
  <2>1. FailedIn(EntryChecks(e, r)) = {} BY DEF e
  <2>2. QED BY <2>1, EntryChecksHold DEF n
<1>4. {n, r.portfolio, r.pnl, r.drawdown, r.position, r.exposure} \subseteq Int /\ r.portfolio >= 0
  BY DEF IsRequest
<1> HIDE DEF n
<1>5. r.portfolio * e.maxPosition <= r.portfolio * p.maxPosition
      /\ r.portfolio * e.maxExposure <= r.portfolio * p.maxExposure
  BY <1>1, <1>2, <1>4
<1>6. /\ 100 * (r.exposure + n) <= r.portfolio * p.maxExposure
      /\ 100 * (r.sector + n) <= r.portfolio * p.maxSector
      /\ 100 * (r.correlated + n) <= r.portfolio * p.maxCorrelated
      /\ r.pnl >= -p.maxLoss /\ r.drawdown <= p.maxDrawdown
      /\ r.volatility <= p.maxVolatility /\ 100 * n <= r.power * p.maxPowerUse
  <2>1. 100 * (r.exposure + n) <= r.portfolio * p.maxExposure
    BY <1>1, <1>2, <1>3, <1>4, <1>5
  <2>2. r.pnl >= -p.maxLoss /\ r.drawdown <= p.maxDrawdown BY <1>1, <1>2, <1>3, <1>4
  <2>3. QED BY <1>1, <1>3, <2>1, <2>2
<1>7. ~Trial(e, r) => 100 * (r.position + n) <= PositionLimit(p, r)
  <2>1. PositionLimit(p, r) = Max({r.portfolio * p.maxPosition, 0})
    BY <1>2 DEF PositionLimit, Trial
  <2>2. ASSUME ~Trial(e, r) PROVE PositionLimit(e, r) = Max({r.portfolio * e.maxPosition, 0})
    BY <2>2 DEF PositionLimit
  <2>3. ASSUME ~Trial(e, r) PROVE 100 * (r.position + n) <= PositionLimit(p, r)
    <3> DEFINE u == r.portfolio * e.maxPosition  v == r.portfolio * p.maxPosition
    <3>1. u \in Int /\ v \in Int /\ u <= v BY <1>1, <1>2, <1>4, <1>5
    <3>2. PositionLimit(e, r) = Max({u, 0}) /\ PositionLimit(p, r) = Max({v, 0})
      BY <2>1, <2>2, <2>3
    <3> HIDE DEF u, v
    <3>3. 100 * (r.position + n) <= Max({u, 0}) /\ 100 * (r.position + n) \in Int
      BY <1>3, <1>4, <3>2
    <3>4. QED BY <3>1, <3>2, <3>3, FloorGrows
  <2>4. QED BY <2>3
<1> DEFINE x == EntryChecks(p, r)
<1>8. /\ x.PORTFOLIO_EXPOSURE /\ x.SECTOR_EXPOSURE /\ x.CORRELATION_EXPOSURE
      /\ x.DAILY_LOSS /\ x.DRAWDOWN /\ x.VOLATILITY /\ x.BUYING_POWER
      /\ ~Trial(e, r) => x.POSITION_LIMIT
  BY <1>6, <1>7, EntryChecksHold DEF n
<1>9. FailedIn(x) = {c \in {"POSITION_LIMIT", "PORTFOLIO_EXPOSURE", "SECTOR_EXPOSURE",
        "CORRELATION_EXPOSURE", "DAILY_LOSS", "DRAWDOWN", "VOLATILITY", "BUYING_POWER"} : ~x[c]}
  BY EntryChecksHold
<1> HIDE DEF x
<1>10. FailedIn(x) \subseteq (IF Trial(e, r) THEN {"POSITION_LIMIT"} ELSE {})
  BY <1>8, <1>9
<1>11. QED BY <1>10 DEF x, e

(* Rewriting the trial's amount changes no global check: the trial is a    *)
(* strategy's.                                                             *)
LEMMA UpgradeFailsAlike ==
  ASSUME NEW p, IsPolicy(p), NEW r
  PROVE  IsPolicy(Upgraded(p)) /\ Failed(Upgraded(p), r, Clear) = Failed(p, r, Clear)
<1> DEFINE q == Upgraded(p)
<1>1. /\ DOMAIN q = DOMAIN p /\ \A f \in DOMAIN p \ {"trialNotional"} : q[f] = p[f]
      /\ q.trialNotional \in Nat
  BY DEF Upgraded, IsPolicy, PolicyTerms
<1>2. IsPolicy(q) BY <1>1 DEF IsPolicy, PolicyTerms
<1>3. /\ q.maxQuantity = p.maxQuantity /\ q.minNotional = p.minNotional
      /\ q.maxNotional = p.maxNotional /\ q.maxDeviation = p.maxDeviation
      /\ q.maxOpen = p.maxOpen /\ q.maxAge = p.maxAge /\ q.maxProposalAge = p.maxProposalAge
      /\ q.maxPosition = p.maxPosition /\ q.maxExposure = p.maxExposure
      /\ q.maxSector = p.maxSector /\ q.maxCorrelated = p.maxCorrelated
      /\ q.maxLoss = p.maxLoss /\ q.maxDrawdown = p.maxDrawdown
      /\ q.maxVolatility = p.maxVolatility /\ q.maxPowerUse = p.maxPowerUse
  BY <1>1 DEF IsPolicy, PolicyTerms
<1>4. ~q.eligible /\ ~p.eligible BY <1>2 DEF IsPolicy
<1> HIDE DEF q
<1>5. PositionLimit(q, r) = PositionLimit(p, r) BY <1>3, <1>4 DEF PositionLimit, Trial
<1>6. OrderChecks(q, r, Clear) = OrderChecks(p, r, Clear) BY <1>3 DEF OrderChecks
<1>7. EntryChecks(q, r) = EntryChecks(p, r) BY <1>3, <1>5 DEF EntryChecks
<1>8. Failed(q, r, Clear) = Failed(p, r, Clear) BY <1>6, <1>7 DEF Failed
<1>9. QED BY <1>2, <1>8 DEF q

(* What policy v refuses of a request is at most the trial's exception.    *)
Allowed(v, r, e) ==
  Failed(policies[v].conf, r, Clear) \subseteq (IF Trial(e, r) THEN {"POSITION_LIMIT"} ELSE {})

PolicyInv == \A v \in 1..Len(policies) : IsPolicy(policies[v].conf)
AskedInv(c) ==
  LET w == caller[c].with IN
  /\ caller[c].op = "policy" => IsPolicy(w.conf)
  /\ caller[c].op = "assess" =>
       /\ w.policy \in 1..Len(policies)
       /\ w.reasons = {} => Allowed(w.policy, w.request, w.identity[1])
AnsweredInv ==
  \A a \in assessments :
    /\ a.policy \in 1..Len(policies)
    /\ a.outcome = "AUTHORIZED" => Allowed(a.policy, a.request, a.identity[1])
AllowedInv == PolicyInv /\ AnsweredInv /\ \A c \in Callers : AskedInv(c)

(* An assessment finds nothing wrong only if the policy it loaded allows   *)
(* the request.                                                            *)
LEMMA ReasonsAllow ==
  ASSUME NEW p, IsPolicy(p), NEW r, IsRequest(r), Reasons(p, r) = {}
  PROVE  Failed(p, r, Clear) \subseteq
           (IF Trial(Effective(p, r), r) THEN {"POSITION_LIMIT"} ELSE {})
<1>1. Failed(Effective(p, r), r, controls) = {} BY DEF Reasons
<1>2. FailedIn(OrderChecks(p, r, Clear)) = {} BY <1>1, OrderNotLoosened DEF Failed
<1>3. CASE r.side = "SELL" BY <1>2, <1>3 DEF Failed
<1>4. CASE r.side # "SELL"
  <2>1. FailedIn(EntryChecks(Effective(p, r), r)) = {} BY <1>1, <1>4 DEF Failed
  <2>2. QED BY <1>2, <1>4, <2>1, EntryNotLoosened DEF Failed
<1>5. QED BY <1>3, <1>4

(* Where the policies stay, so does what threads and rows hold of them.    *)
LEMMA AllowedLoads ==
  ASSUME RInv, AllowedInv, NEW c \in Callers,
         \/ \E r \in Requests : AssessLoad(c, r)
         \/ \E k, b \in BOOLEAN : UpdateLoad(c, k, b)
         \/ \E conf \in Configurations : PolicyLoad(c, conf)
  PROVE  AllowedInv'
<1>1. UNCHANGED <<policies, controls, assessments>> BY DEF AssessLoad, UpdateLoad, PolicyLoad
<1>2. PICK op, w : caller' = [caller EXCEPT ![c] = [op |-> op, with |-> w]]
  BY DEF AssessLoad, UpdateLoad, PolicyLoad, Doing
<1>3. PolicyInv' /\ AnsweredInv'
  BY <1>1 DEF AllowedInv, PolicyInv, AnsweredInv, Allowed
<1>4. \A d \in Callers \ {c} : AskedInv(d)'
  BY <1>1, <1>2 DEF AllowedInv, AskedInv, Allowed, RInv, RowsInv
<1>5. AskedInv(c)'
  <2>1. CASE \E r \in Requests : AssessLoad(c, r)
    <3> DEFINE v == Newest(policies)
    <3>1. PICK r \in Requests : AssessLoad(c, r) BY <2>1
    <3>2. caller'[c].op = "assess" /\ caller'[c].with =
            [request |-> r, policy |-> v, identity |-> Identity(policies[v].conf, r),
             reasons |-> Reasons(policies[v].conf, r), breaker |-> controls.breaker,
             crossed |-> FALSE]
      BY <3>1 DEF AssessLoad, Doing, RInv, RowsInv
    <3>3. v \in 1..Len(policies) BY NewestIsActive DEF RInv
    <3>4. Reasons(policies[v].conf, r) = {} => Allowed(v, r, Identity(policies[v].conf, r)[1])
      BY <3>3, ReasonsAllow, RiskAssumption DEF AllowedInv, PolicyInv, Identity, Allowed
    <3> HIDE DEF v
    <3>5. QED BY <1>1, <3>2, <3>3, <3>4 DEF AskedInv, Allowed
  <2>2. CASE \E k, b \in BOOLEAN : UpdateLoad(c, k, b)
    <3>1. caller'[c].op = "update" BY <2>2 DEF UpdateLoad, Doing, RInv, RowsInv
    <3>2. QED BY <3>1 DEF AskedInv
  <2>3. CASE \E conf \in Configurations : PolicyLoad(c, conf)
    <3>1. PICK conf \in Configurations : PolicyLoad(c, conf) BY <2>3
    <3>2. caller'[c].op = "policy" /\ caller'[c].with.conf = conf
      BY <3>1 DEF PolicyLoad, Doing, RInv, RowsInv
    <3>3. QED BY <3>2, RiskAssumption DEF AskedInv
  <2>4. QED BY <2>1, <2>2, <2>3
<1>6. QED BY <1>3, <1>4, <1>5 DEF AllowedInv

(* Nor does ending a request, or being crossed, change what others ask.    *)
LEMMA AllowedCrossing ==
  ASSUME RInv, AllowedInv, NEW c \in Callers, UNCHANGED policies,
         caller' = Crossing(c) \/ caller' = [caller EXCEPT ![c] = Resting]
  PROVE  \A d \in Callers : AskedInv(d)'
<1> SUFFICES ASSUME NEW d \in Callers PROVE AskedInv(d)' OBVIOUS
<1>1. AskedInv(d) BY DEF AllowedInv
<1>2. CASE d = c BY <1>2 DEF Crossing, Resting, Doing, AskedInv, RInv, RowsInv
<1>3. CASE d # c /\ caller'[d] = caller[d] BY <1>1, <1>3 DEF AskedInv, Allowed
<1>4. CASE d # c /\ caller'[d] # caller[d]
  <2> DEFINE w == caller[d].with
             x == [w EXCEPT !.crossed = TRUE]
  <2>1. caller[d].op = "assess" /\ caller'[d] = [caller[d] EXCEPT !.with = x]
    BY <1>4 DEF Crossing, RInv, RowsInv
  <2>2. x.policy = w.policy /\ x.reasons = w.reasons /\ x.request = w.request
        /\ x.identity = w.identity
    <3>1. w = [request |-> w.request, policy |-> w.policy, identity |-> w.identity,
               reasons |-> w.reasons, breaker |-> w.breaker, crossed |-> w.crossed]
      BY <2>1 DEF RInv, CallerInv, AssessInv
    <3> HIDE DEF w
    <3>2. x = [request |-> w.request, policy |-> w.policy, identity |-> w.identity,
               reasons |-> w.reasons, breaker |-> w.breaker, crossed |-> TRUE]
      BY <3>1, CrossedUpdates, Zenon
    <3>3. QED BY <3>2
  <2> HIDE DEF x
  <2>3. caller'[d].op = "assess" /\ caller'[d].with = x BY <2>1 DEF RInv, RowsInv
  <2>4. QED BY <1>1, <2>1, <2>2, <2>3 DEF AskedInv, Allowed
<1>5. QED BY <1>2, <1>3, <1>4

(* What an assessment stores is what its thread found allowed.             *)
LEMMA AllowedAssess ==
  ASSUME RInv, AllowedInv, NEW c \in Callers, AssessCommit(c) PROVE AllowedInv'
<1> DEFINE w == caller[c].with
           row == [request |-> w.request, policy |-> w.policy, identity |-> w.identity,
                   outcome |-> IF w.reasons = {} THEN "AUTHORIZED" ELSE "REJECTED",
                   reasons |-> w.reasons, crossed |-> w.crossed]
<1>1. AskedInv(c) /\ caller[c].op = "assess" BY DEF AllowedInv, AssessCommit
<1>2. assessments' \subseteq assessments \cup {row} /\ UNCHANGED policies
      /\ (caller' = Crossing(c) \/ caller' = [caller EXCEPT ![c] = Resting])
  BY DEF AssessCommit
<1>3. AnsweredInv'
  <2>1. row.policy \in 1..Len(policies)
        /\ (row.outcome = "AUTHORIZED" => Allowed(row.policy, row.request, row.identity[1]))
    BY <1>1 DEF AskedInv
  <2> HIDE DEF row
  <2>2. QED BY <1>2, <2>1 DEF AllowedInv, AnsweredInv, Allowed
<1>4. QED BY <1>2, <1>3, AllowedCrossing DEF AllowedInv, PolicyInv

(* A new policy is one of those admitted; the earlier ones keep their      *)
(* terms.                                                                  *)
LEMMA AllowedPolicies ==
  ASSUME RInv, AllowedInv, NEW c \in Callers, PolicyCommit(c) PROVE AllowedInv'
<1> DEFINE w == caller[c].with  n == Len(policies)
<1>1. /\ CreationInv(c) /\ AskedInv(c) /\ caller[c].op = "policy" /\ UNCHANGED assessments
      /\ caller' = [caller EXCEPT ![c] = Resting]
  BY DEF RInv, CallerInv, AllowedInv, PolicyCommit
<1>2. DOMAIN policies = 1..n /\ n \in Nat BY DEF RInv, RowsInv
<1>3. CASE w.version \in 1..n
  <2>1. UNCHANGED policies BY <1>2, <1>3 DEF PolicyCommit
  <2>2. PolicyInv' /\ AnsweredInv'
    BY <1>1, <2>1 DEF AllowedInv, PolicyInv, AnsweredInv, Allowed
  <2>3. QED BY <1>1, <2>1, <2>2, AllowedCrossing DEF AllowedInv
<1>4. CASE w.version \notin 1..n
  <2>1. w.old = ActiveOf(policies)
        /\ policies' = Append(Deactivated(policies, w.old), PolicyRow(w.conf))
    BY <1>1, <1>2, <1>4 DEF CreationInv, PolicyCommit
  <2>2. Len(policies') = n + 1 /\ policies' = [v \in 1..(n + 1) |->
          IF v = n + 1 THEN PolicyRow(w.conf) ELSE [conf |-> policies[v].conf, active |-> FALSE]]
    BY <2>1, PolicyAppends
  <2>3. /\ \A v \in 1..n : policies'[v].conf = policies[v].conf
        /\ policies'[n + 1].conf = w.conf
    BY <1>2, <2>2 DEF PolicyRow
  <2>4. PolicyInv'
    BY <1>1, <1>2, <2>2, <2>3 DEF AllowedInv, PolicyInv, AskedInv
  <2>5. \A v \in 1..n : \A r, e : Allowed(v, r, e)' <=> Allowed(v, r, e) BY <2>3 DEF Allowed
  <2>6. 1..n \subseteq 1..Len(policies') BY <1>2, <2>2
  <2>7. AnsweredInv' BY <1>1, <2>5, <2>6 DEF AllowedInv, AnsweredInv
  <2>8. ASSUME NEW d \in Callers PROVE AskedInv(d)'
    <3>1. CASE d = c BY <1>1, <3>1 DEF AskedInv, Resting, Doing, RInv, RowsInv
    <3>2. CASE d # c
      <4>1. caller'[d] = caller[d] BY <1>1, <3>2 DEF RInv, RowsInv
      <4>2. QED BY <4>1, <2>5, <2>6 DEF AllowedInv, AskedInv
    <3>3. QED BY <3>1, <3>2
  <2>9. QED BY <2>4, <2>7, <2>8 DEF AllowedInv
<1>5. QED BY <1>3, <1>4

(* A rewritten policy allows what it allowed before.                       *)
LEMMA AllowedRestart ==
  ASSUME RInv, AllowedInv, Restart PROVE AllowedInv'
<1> DEFINE v == Newest(policies)  x == Upgraded(policies[v].conf)
<1>1. UNCHANGED assessments /\ caller' = [c \in Callers |-> Resting] BY DEF Restart
<1>2. v \in 1..Len(policies) /\ Len(policies') = Len(policies)
      /\ \A u \in 1..Len(policies) :
           policies'[u] = IF u = v THEN [conf |-> x, active |-> policies[v].active]
                          ELSE policies[u]
  BY RestartRewrites
<1>3. IsPolicy(policies[v].conf) BY <1>2 DEF AllowedInv, PolicyInv
<1>4. IsPolicy(x) /\ \A r : Failed(x, r, Clear) = Failed(policies[v].conf, r, Clear)
  BY <1>3, UpgradeFailsAlike
<1> HIDE DEF v, x
<1>5. PolicyInv' BY <1>2, <1>4 DEF AllowedInv, PolicyInv
<1>6. \A u \in 1..Len(policies) : \A r, e : Allowed(u, r, e)' <=> Allowed(u, r, e)
  BY <1>2, <1>4 DEF Allowed
<1>7. AnsweredInv' BY <1>1, <1>2, <1>6 DEF AllowedInv, AnsweredInv
<1>8. \A c \in Callers : AskedInv(c)' BY <1>1 DEF AskedInv, Resting, Doing
<1>9. QED BY <1>5, <1>7, <1>8 DEF AllowedInv

LEMMA AllowedInductive == RiskSpec => []AllowedInv
<1>1. RiskInit => AllowedInv
  <2> SUFFICES ASSUME RiskInit PROVE AllowedInv OBVIOUS
  <2>1. policies = <<PolicyRow(DefaultPolicy)>> /\ assessments = {}
        /\ caller = [c \in Callers |-> Resting]
    BY DEF RiskInit
  <2>2. Len(policies) = 1 /\ policies[1].conf = DefaultPolicy BY <2>1 DEF PolicyRow
  <2>3. PolicyInv BY <2>2, RiskAssumption DEF PolicyInv
  <2>4. QED BY <2>1, <2>3 DEF AllowedInv, AnsweredInv, AskedInv, Resting, Doing
<1>2. RInv /\ AllowedInv /\ [RiskNext]_riskVars => AllowedInv'
  <2>1. ASSUME RInv, AllowedInv, NEW c \in Callers, UpdateCommit(c) PROVE AllowedInv'
    <3>1. UNCHANGED <<policies, assessments>> /\ caller' = Crossing(c) BY <2>1 DEF UpdateCommit
    <3>2. PolicyInv' /\ AnsweredInv' BY <2>1, <3>1 DEF AllowedInv, PolicyInv, AnsweredInv, Allowed
    <3>3. QED BY <2>1, <3>1, <3>2, AllowedCrossing DEF AllowedInv
  <2>2. ASSUME RInv, AllowedInv, RiskNext PROVE AllowedInv'
    BY <2>1, <2>2, AllowedLoads, AllowedAssess, AllowedPolicies, AllowedRestart DEF RiskNext
  <2>3. ASSUME AllowedInv, UNCHANGED riskVars PROVE AllowedInv'
    BY <2>3 DEF riskVars, AllowedInv, PolicyInv, AnsweredInv, AskedInv, Allowed
  <2>4. QED BY <2>2, <2>3
<1>3. QED BY <1>1, <1>2, RiskInductive, PTL DEF RiskSpec

(* Whatever a strategy asks for, an authorized request passes every check  *)
(* of the global policy its row names, but for the trial's position limit  *)
(* (effective_policy and assess), also after a restart rewrote that policy.*)
THEOREM PolicyNeverLoosened == RiskSpec => []NeverLoosened
<1>1. AllowedInv => NeverLoosened
  BY DEF AllowedInv, AnsweredInv, Allowed, NeverLoosened, Clear
<1>2. QED BY <1>1, AllowedInductive, PTL

-----------------------------------------------------------------------------
(* Types: what a thread assesses is one of the requests.                   *)
AskingInv(c) ==
  /\ caller[c].op \in {"none", "assess", "update", "policy"}
  /\ caller[c].op = "assess" => caller[c].with.request \in Requests
RiskTypesInv ==
  /\ tripped \in BOOLEAN /\ updates \in 0..MaxUpdates
  /\ \A a \in assessments : a.request \in Requests /\ a.outcome \in Outcome
  /\ \A c \in Callers : AskingInv(c)

(* A commit leaves what the other threads ask for.                         *)
LEMMA CrossingAsksAlike ==
  ASSUME RInv, NEW c \in Callers, \A d \in Callers : AskingInv(d),
         caller' = Crossing(c) \/ caller' = [caller EXCEPT ![c] = Resting]
  PROVE  \A d \in Callers : AskingInv(d)'
<1> SUFFICES ASSUME NEW d \in Callers PROVE AskingInv(d)' OBVIOUS
<1>1. CASE d = c BY <1>1 DEF Crossing, Resting, Doing, AskingInv, RInv, RowsInv
<1>2. CASE d # c /\ caller'[d] = caller[d] BY <1>2 DEF AskingInv
<1>3. CASE d # c /\ caller'[d] # caller[d]
  <2> DEFINE w == caller[d].with
             x == [w EXCEPT !.crossed = TRUE]
  <2>1. caller[d].op = "assess" /\ caller'[d] = [caller[d] EXCEPT !.with = x]
    BY <1>3 DEF Crossing, RInv, RowsInv
  <2>2. x.request = w.request
    <3>1. w = [request |-> w.request, policy |-> w.policy, identity |-> w.identity,
               reasons |-> w.reasons, breaker |-> w.breaker, crossed |-> w.crossed]
      BY <2>1 DEF RInv, CallerInv, AssessInv
    <3> HIDE DEF w
    <3>2. x = [request |-> w.request, policy |-> w.policy, identity |-> w.identity,
               reasons |-> w.reasons, breaker |-> w.breaker, crossed |-> TRUE]
      BY <3>1, CrossedUpdates, Zenon
    <3>3. QED BY <3>2
  <2> HIDE DEF x
  <2>3. caller'[d].op = "assess" /\ caller'[d].with = x BY <2>1 DEF RInv, RowsInv
  <2>4. QED BY <2>1, <2>2, <2>3 DEF AskingInv
<1>4. QED BY <1>1, <1>2, <1>3

LEMMA RiskTypesKept ==
  ASSUME RInv, RiskTypesInv, RiskNext PROVE RiskTypesInv'
<1>1. ASSUME NEW c \in Callers,
             \/ \E r \in Requests : AssessLoad(c, r)
             \/ \E k, b \in BOOLEAN : UpdateLoad(c, k, b)
             \/ \E conf \in Configurations : PolicyLoad(c, conf)
      PROVE  RiskTypesInv'
  <2>1. /\ UNCHANGED <<tripped, assessments>> /\ updates' \in 0..MaxUpdates
        /\ \E op \in {"assess", "update", "policy"} : \E w :
             /\ caller' = [caller EXCEPT ![c] = [op |-> op, with |-> w]]
             /\ op = "assess" => w.request \in Requests
    BY <1>1, RiskAssumption DEF AssessLoad, UpdateLoad, PolicyLoad, Doing, RiskTypesInv
  <2>2. QED BY <2>1 DEF RiskTypesInv, AskingInv, RInv, RowsInv
<1>2. ASSUME NEW c \in Callers, AssessCommit(c) PROVE RiskTypesInv'
  <2> DEFINE w == caller[c].with
             row == [request |-> w.request, policy |-> w.policy, identity |-> w.identity,
                     outcome |-> IF w.reasons = {} THEN "AUTHORIZED" ELSE "REJECTED",
                     reasons |-> w.reasons, crossed |-> w.crossed]
  <2>1. /\ assessments' \subseteq assessments \cup {row} /\ UNCHANGED updates
        /\ tripped' \in BOOLEAN
        /\ caller' = Crossing(c) \/ caller' = [caller EXCEPT ![c] = Resting]
    BY <1>2 DEF AssessCommit, RiskTypesInv
  <2>2. row.request \in Requests /\ row.outcome \in Outcome
    BY <1>2 DEF AssessCommit, RiskTypesInv, AskingInv, Outcome
  <2> HIDE DEF row
  <2>3. QED BY <2>1, <2>2, CrossingAsksAlike DEF RiskTypesInv
<1>3. ASSUME NEW c \in Callers, UpdateCommit(c) \/ PolicyCommit(c) PROVE RiskTypesInv'
  <2>1. /\ UNCHANGED <<assessments, updates>> /\ tripped' \in BOOLEAN
        /\ caller' = Crossing(c) \/ caller' = [caller EXCEPT ![c] = Resting]
    BY <1>3 DEF UpdateCommit, PolicyCommit, RiskTypesInv
  <2>2. QED BY <2>1, CrossingAsksAlike DEF RiskTypesInv
<1>4. CASE Restart
  BY <1>4 DEF Restart, RiskTypesInv, AskingInv, Resting, Doing
<1>5. QED BY <1>1, <1>2, <1>3, <1>4 DEF RiskNext

(* Every row, switch and counter of the risk service has its type, and an  *)
(* assessment names a policy that exists (models.py, risk/service.py).     *)
THEOREM RiskTypeCorrect == RiskSpec => []RiskTypeOK
<1>1. RiskInit => RiskTypesInv
  <2> SUFFICES ASSUME RiskInit PROVE RiskTypesInv OBVIOUS
  <2>1. tripped = FALSE /\ updates = 0 /\ assessments = {} /\ caller = [c \in Callers |-> Resting]
    BY DEF RiskInit
  <2>2. 0 \in 0..MaxUpdates BY RiskAssumption
  <2>3. \A c \in Callers : AskingInv(c) BY <2>1 DEF AskingInv, Resting, Doing
  <2>4. QED BY <2>1, <2>2, <2>3 DEF RiskTypesInv
<1>2. RInv /\ RiskTypesInv /\ [RiskNext]_riskVars => RiskTypesInv'
  BY RiskTypesKept DEF riskVars, RiskTypesInv, AskingInv
<1>3. RInv /\ AllowedInv /\ RiskTypesInv => RiskTypeOK
  <2> SUFFICES ASSUME RInv, AllowedInv, RiskTypesInv PROVE RiskTypeOK OBVIOUS
  <2>1. \A v \in DOMAIN policies : policies[v].active \in BOOLEAN
    BY DEF RInv, RowsInv, PolicyShape
  <2>2. DOMAIN policies = 1..Len(policies) /\ controls \in RiskControls BY DEF RInv, RowsInv
  <2>3. \A a \in assessments : a.policy \in DOMAIN policies
    BY <2>2 DEF AllowedInv, AnsweredInv
  <2>4. QED BY <2>1, <2>2, <2>3 DEF RiskTypesInv, RiskTypeOK, AskingInv
<1>4. QED BY <1>1, <1>2, <1>3, RiskInductive, AllowedInductive, PTL DEF RiskSpec

-----------------------------------------------------------------------------
(* Recovery exits                                                          *)

Times == clock \in Nat /\ deaths \in Nat /\ quote.at \in Int

(* A snapshot that shows shares did read the positions.                    *)
SnapshotsInv ==
  \A s \in snapshots : /\ s.at \in Nat /\ s.at <= clock
                       /\ s.shares >= 1 => "get_equity_positions" \in s.datasets

(* A plan keeps what it was signalled from.                                *)
Signalled(p) ==
  /\ position[p] = "EXIT_SIGNALLED" /\ clock >= ExTick
  /\ exitPlan[p].quote.price >= Target /\ exitPlan[p].quote.at \in Int
  /\ exitPlan[p].snapshot \in snapshots /\ exitPlan[p].snapshot.shares >= 1

ExitPlansInv ==
  /\ position \in [Positions -> {"OPEN", "EXIT_SIGNALLED"}]
  /\ exitPlan = [p \in Positions |-> exitPlan[p]]
  /\ \A p \in Positions : exitPlan[p].status # "NONE" => Signalled(p)

(* Proposals are those of plans; of two with one name one is authorized.   *)
ProposalOf(a, p) ==
  position[p] = "EXIT_SIGNALLED" /\ exitPlan[p].status # "NONE"
  /\ a.proposal = <<p, exitPlan[p].quote.at>>
AssessedInv ==
  /\ \A a \in assessed : \E p \in Positions : ProposalOf(a, p)
  /\ \A a, b \in assessed : a.authorized /\ b.authorized /\ a.proposal = b.proposal => a = b

(* What the worker is about to mark a plan with is fresh evidence of it.   *)
FreshAt(p, plan, at) ==
  /\ at >= ExTick /\ (p \in Fractional => Opens <= at /\ at < Closes0)
  /\ at - plan.snapshot.at <= SnapshotAge
  /\ at - plan.quote.at \in 0..QuoteAge
MarkingInv ==
  marking # NoMark =>
    /\ marking \in assessed
    /\ \E p \in Positions :
         /\ marking.proposal = <<p, exitPlan[p].quote.at>>
         /\ exitPlan[p].status = "EXIT_RISK_REVIEW_REQUIRED"
         /\ marking.authorized => FreshAt(p, exitPlan[p], marking.at)

(* An authorization not yet marked is in the worker's hands, or the worker *)
(* died with it.                                                           *)
Carried(p, a) == marking = a /\ exitPlan[p].status = "EXIT_RISK_REVIEW_REQUIRED"
GrantedInv ==
  /\ \A p \in Positions : exitPlan[p].status = "RISK_AUTHORIZED_EXIT" =>
       \E a \in assessed : a.authorized /\ a.proposal[1] = p
  /\ \A p \in Positions, a \in assessed :
       a.authorized /\ a.proposal[1] = p /\ exitPlan[p].status # "RISK_AUTHORIZED_EXIT"
         => deaths > 0 \/ Carried(p, a)

XInv ==
  /\ Times /\ SnapshotsInv /\ ExitPlansInv /\ AssessedInv /\ MarkingInv /\ GrantedInv
  /\ ExitEvidence

-----------------------------------------------------------------------------
(* There is a latest snapshot, if there is one at all.                     *)
LEMMA LatestIsOne ==
  ASSUME Times, SnapshotsInv, snapshots # {} PROVE Latest(snapshots) \in snapshots
<1> DEFINE Ages == {clock - s.at : s \in snapshots}
<1>1. Ages \in SUBSET Nat BY DEF Times, SnapshotsInv
<1>2. Ages # {} OBVIOUS
<1> HIDE DEF Ages
<1>3. PICK n \in Ages : \A m \in Ages : n <= m BY <1>1, <1>2, SmallestNumber
<1> USE DEF Ages
<1>4. PICK s \in snapshots : n = clock - s.at BY <1>3
<1>5. \A t \in snapshots : t.at <= s.at
  <2>1. ASSUME NEW t \in snapshots PROVE t.at <= s.at
    <3>1. n <= clock - t.at BY <1>3
    <3>2. t.at \in Nat /\ s.at \in Nat /\ clock \in Nat BY DEF SnapshotsInv, Times
    <3>3. QED BY <1>4, <3>1, <3>2
  <2>2. QED BY <2>1
<1>6. QED BY <1>5 DEF Latest

LEMMA NoProposalIsNoMark ==
  ASSUME XInv, NEW a \in assessed PROVE a # NoMark
BY DEF XInv, AssessedInv, ProposalOf, NoMark

(* Synchronizing, time and quotes change nothing a plan was signalled from.*)
LEMMA ExitWorldKeeps ==
  ASSUME XInv, (SyncNext /\ UNCHANGED exitOnly) \/ \E price \in Prices : QuoteArrives(price)
  PROVE  XInv'
<1>1. /\ UNCHANGED <<position, exitPlan, assessed, marking, deaths>>
      /\ clock' \in {clock, clock + 1} /\ snapshots \subseteq snapshots'
      /\ quote'.at \in Int
      /\ \A s \in snapshots' \ snapshots :
           s.at = clock /\ (s.shares >= 1 => "get_equity_positions" \in s.datasets)
  <2>1. CASE \E price \in Prices : QuoteArrives(price)
    BY <2>1 DEF QuoteArrives, syncVars, XInv, Times
  <2>2. CASE SyncNext /\ UNCHANGED exitOnly
    <3>1. UNCHANGED <<quote, position, exitPlan, assessed, marking, deaths>>
      BY <2>2 DEF exitOnly
    <3>2. CASE \E c \in Syncers : SyncBegin(c) \/ SyncError(c) \/ SyncRefused(c)
      BY <3>1, <3>2 DEF SyncBegin, SyncError, SyncRefused, XInv, Times
    <3>3. ASSUME NEW c \in Syncers, NEW advertised, NEW bad, SyncStores(c, Answer(advertised, bad))
          PROVE  /\ snapshots' = snapshots \cup {Normalized(Answer(advertised, bad))}
                 /\ clock' = clock
                 /\ LET s == Normalized(Answer(advertised, bad))
                    IN  s.at = clock /\ (s.shares >= 1 => "get_equity_positions" \in s.datasets)
      BY <3>3 DEF SyncStores, Normalized, Answer
    <3>4. CASE SoldByHand \/ Tick
      BY <3>1, <3>4 DEF SoldByHand, Tick, XInv, Times
    <3>5. CASE \E c \in Syncers, missing \in Losses :
                 \/ SyncStores(c, Answer(Tools, missing))
                 \/ SyncStores(c, Answer(Tools \ missing, {}))
      <4>1. PICK advertised, bad : \E c \in Syncers : SyncStores(c, Answer(advertised, bad))
        BY <3>5
      <4>2. QED BY <3>1, <3>3, <4>1 DEF XInv, Times
    <3>6. QED BY <2>2, <3>2, <3>4, <3>5 DEF SyncNext
  <2>3. QED BY <2>1, <2>2
<1>3. Times' /\ SnapshotsInv' BY <1>1 DEF XInv, Times, SnapshotsInv
<1>4. ExitPlansInv' BY <1>1, ExDateAssumption DEF XInv, Times, ExitPlansInv, Signalled
<1>5. AssessedInv' BY <1>1 DEF XInv, AssessedInv, ProposalOf
<1>6. MarkingInv' BY <1>1 DEF XInv, MarkingInv, FreshAt
<1>7. GrantedInv' BY <1>1 DEF XInv, GrantedInv, Carried
<1>8. ExitEvidence' BY <1>1 DEF XInv, ExitEvidence
<1>9. QED BY <1>3, <1>4, <1>5, <1>6, <1>7, <1>8 DEF XInv

(* A signal is of a position that had no plan, so no proposal either.      *)
LEMMA ExitMonitorKeeps ==
  ASSUME XInv, Monitor PROVE XInv'
<1> DEFINE s == Latest(snapshots)
           signalled == {p \in Positions : position[p] = "OPEN" /\ Recovered0(s)}
<1>1. /\ marking = NoMark /\ UNCHANGED <<syncVars, quote, assessed, marking, deaths>>
      /\ position' = [p \in Positions |->
           IF p \in signalled THEN "EXIT_SIGNALLED" ELSE position[p]]
      /\ exitPlan' = [p \in Positions |->
           IF p \in signalled
           THEN [status |-> "EXIT_RISK_REVIEW_REQUIRED", snapshot |-> s, quote |-> quote]
           ELSE exitPlan[p]]
  BY DEF Monitor
<1>2. s \in snapshots BY LatestIsOne DEF XInv, Monitor
<1>3. \A p \in signalled : position[p] = "OPEN" /\ clock >= ExTick /\ s.shares >= 1
                           /\ quote.price >= Target
  BY DEF Recovered0
<1>4. \A p \in signalled : exitPlan[p].status = "NONE"
  BY <1>3 DEF XInv, ExitPlansInv, Signalled
<1>5. \A a \in assessed : \A p \in signalled : a.proposal[1] # p
  BY <1>3 DEF XInv, AssessedInv, ProposalOf
<1>6. signalled \subseteq Positions OBVIOUS
<1> HIDE DEF signalled, s
<1>7. Times' /\ SnapshotsInv' BY <1>1 DEF XInv, Times, SnapshotsInv, syncVars
<1>8. ExitPlansInv'
  BY <1>1, <1>2, <1>3, <1>6 DEF XInv, ExitPlansInv, Signalled, Times, syncVars
<1>9. AssessedInv'
  <2>1. ASSUME NEW a \in assessed, NEW p \in Positions, ProposalOf(a, p)
        PROVE  ProposalOf(a, p)'
    BY <1>1, <1>4, <2>1 DEF ProposalOf
  <2>2. QED BY <1>1, <2>1 DEF XInv, AssessedInv
<1>10. MarkingInv' BY <1>1 DEF MarkingInv
<1>11. GrantedInv'
  <2>1. \A p \in Positions : exitPlan'[p].status = "RISK_AUTHORIZED_EXIT"
          => exitPlan[p].status = "RISK_AUTHORIZED_EXIT"
    BY <1>1
  <2>2. ASSUME NEW p \in Positions, NEW a \in assessed, a.authorized, a.proposal[1] = p,
               exitPlan'[p].status # "RISK_AUTHORIZED_EXIT"
        PROVE  deaths > 0
    BY <1>1, <1>5, <2>2, NoProposalIsNoMark DEF XInv, GrantedInv, Carried
  <2>3. QED BY <1>1, <2>1, <2>2 DEF XInv, GrantedInv
<1>12. ExitEvidence' BY <1>1, <1>4 DEF XInv, ExitEvidence
<1>13. QED BY <1>7, <1>8, <1>9, <1>10, <1>11, <1>12 DEF XInv

(* An assessment is of fresh evidence, and authorized if it is the first   *)
(* of its name; one that was authorized before was lost with a worker.     *)
LEMMA ExitAssessKeeps ==
  ASSUME XInv, NEW p \in Positions, NEW clear \in BOOLEAN, Assess(p, clear) PROVE XInv'
<1> DEFINE proposal == <<p, exitPlan[p].quote.at>>
           a == [proposal |-> proposal, at |-> clock,
                 authorized |-> SessionCheck(p) /\ clear /\ New(proposal)]
<1>1. /\ marking = NoMark /\ exitPlan[p].status = "EXIT_RISK_REVIEW_REQUIRED"
      /\ FreshEvidence(exitPlan[p]) /\ assessed' = assessed \cup {a} /\ marking' = a
      /\ UNCHANGED <<syncVars, quote, position, exitPlan, deaths>>
  BY DEF Assess
<1>2. /\ a.proposal = proposal /\ a.at = clock
      /\ a.authorized => SessionCheck(p) /\ New(proposal)
  OBVIOUS
<1>3. Signalled(p) BY <1>1 DEF XInv, ExitPlansInv
<1>4. ProposalOf(a, p) BY <1>1, <1>2, <1>3 DEF ProposalOf, Signalled
<1> HIDE DEF a
<1>5. Times' /\ SnapshotsInv' /\ ExitPlansInv' /\ ExitEvidence'
  BY <1>1 DEF XInv, Times, SnapshotsInv, ExitPlansInv, Signalled, ExitEvidence, syncVars
<1>6. AssessedInv'
  <2>1. ASSUME NEW b \in assessed', NEW q \in Positions, ProposalOf(b, q)
        PROVE  ProposalOf(b, q)'
    BY <1>1, <2>1 DEF ProposalOf
  <2>2. \A b \in assessed' : \E q \in Positions : ProposalOf(b, q)
    BY <1>1, <1>4 DEF XInv, AssessedInv
  <2>3. ASSUME NEW b \in assessed', NEW c \in assessed', b.authorized, c.authorized,
               b.proposal = c.proposal
        PROVE  b = c
    <3>1. b \in assessed \cup {a} /\ c \in assessed \cup {a} BY <1>1
    <3>2. QED BY <1>2, <2>3, <3>1 DEF XInv, AssessedInv, New
  <2>4. QED BY <2>1, <2>2, <2>3 DEF AssessedInv
<1>7. MarkingInv'
  <2>1. a.authorized => FreshAt(p, exitPlan[p], a.at)
    BY <1>1, <1>2, <1>3 DEF FreshAt, FreshEvidence, FreshSnapshot, SessionCheck, RegularSession,
                           Signalled
  <2>2. QED BY <1>1, <1>2, <2>1 DEF MarkingInv, FreshAt
<1>8. GrantedInv'
  <2>1. ASSUME NEW q \in Positions, NEW b \in assessed', b.authorized, b.proposal[1] = q,
               exitPlan[q].status # "RISK_AUTHORIZED_EXIT"
        PROVE  deaths > 0 \/ Carried(q, b)'
    <3>1. CASE b = a BY <1>1, <1>2, <2>1, <3>1 DEF Carried
    <3>2. CASE b \in assessed
      BY <1>1, <2>1, <3>2, NoProposalIsNoMark DEF XInv, GrantedInv, Carried
    <3>3. QED BY <1>1, <3>1, <3>2
  <2>2. QED BY <1>1, <2>1 DEF XInv, GrantedInv
<1>9. QED BY <1>5, <1>6, <1>7, <1>8 DEF XInv

(* A mark tells what was true at the assessment.                           *)
LEMMA ExitMarkKeeps ==
  ASSUME XInv, Mark PROVE XInv'
<1>1. PICK p \in Positions :
        /\ marking.proposal = <<p, exitPlan[p].quote.at>>
        /\ exitPlan[p].status = "EXIT_RISK_REVIEW_REQUIRED"
        /\ marking.authorized => FreshAt(p, exitPlan[p], marking.at)
  BY DEF Mark, XInv, MarkingInv
<1>2. marking \in assessed /\ marking'= NoMark
      /\ UNCHANGED <<syncVars, quote, position, assessed, deaths>>
  BY DEF Mark, XInv, MarkingInv
<1>3. exitPlan' = [exitPlan EXCEPT ![p] =
       [status |-> IF marking.authorized THEN "RISK_AUTHORIZED_EXIT" ELSE "EXIT_RISK_BLOCKED",
        snapshot |-> @.snapshot, quote |-> @.quote, revalidated |-> marking.at]]
  BY <1>1 DEF Mark
<1>4. /\ exitPlan'[p].snapshot = exitPlan[p].snapshot /\ exitPlan'[p].quote = exitPlan[p].quote
      /\ exitPlan'[p].revalidated = marking.at
      /\ exitPlan'[p].status =
           IF marking.authorized THEN "RISK_AUTHORIZED_EXIT" ELSE "EXIT_RISK_BLOCKED"
      /\ \A q \in Positions \ {p} : exitPlan'[q] = exitPlan[q]
  BY <1>3 DEF XInv, ExitPlansInv
<1>5. Signalled(p) BY <1>1 DEF XInv, ExitPlansInv
<1>6. Times' /\ SnapshotsInv' BY <1>2 DEF XInv, Times, SnapshotsInv, syncVars
<1>7. ExitPlansInv'
  <2>1. exitPlan' = [q \in Positions |-> exitPlan'[q]] BY <1>3 DEF XInv, ExitPlansInv
  <2>2. QED BY <1>2, <1>4, <1>5, <2>1 DEF XInv, ExitPlansInv, Signalled, syncVars
<1>8. AssessedInv'
  <2>1. ASSUME NEW a \in assessed, NEW q \in Positions, ProposalOf(a, q)
        PROVE  ProposalOf(a, q)'
    BY <1>2, <1>4, <2>1 DEF ProposalOf
  <2>2. QED BY <1>2, <2>1 DEF XInv, AssessedInv
<1>9. MarkingInv' BY <1>2 DEF MarkingInv
<1>10. GrantedInv'
  <2>1. marking.proposal[1] = p BY <1>1
  <2>2. ASSUME NEW q \in Positions, exitPlan'[q].status = "RISK_AUTHORIZED_EXIT"
        PROVE  \E a \in assessed : a.authorized /\ a.proposal[1] = q
    BY <1>2, <1>4, <2>1, <2>2 DEF XInv, GrantedInv
  <2>3. ASSUME NEW q \in Positions, NEW a \in assessed, a.authorized, a.proposal[1] = q,
               exitPlan'[q].status # "RISK_AUTHORIZED_EXIT"
        PROVE  deaths > 0
    <3>1. q = p => a # marking BY <1>4, <2>3
    <3>2. q # p => a # marking BY <2>1, <2>3
    <3>3. exitPlan[q].status # "RISK_AUTHORIZED_EXIT" BY <1>1, <1>4, <2>3
    <3>4. QED BY <2>3, <3>1, <3>2, <3>3 DEF XInv, GrantedInv, Carried
  <2>4. QED BY <1>2, <2>2, <2>3 DEF GrantedInv
<1>11. ExitEvidence'
  <2>1. marking.authorized => exitPlan[p].snapshot \in snapshots /\ FreshAt(p, exitPlan[p], marking.at)
    BY <1>1, <1>5 DEF Signalled
  <2>2. QED
    BY <1>2, <1>4, <1>5, <2>1 DEF XInv, ExitEvidence, Signalled, FreshAt, SnapshotsInv
<1>12. QED BY <1>6, <1>7, <1>8, <1>9, <1>10, <1>11 DEF XInv

LEMMA ExitDeathKeeps ==
  ASSUME XInv, WorkerDies PROVE XInv'
<1>1. /\ deaths' = deaths + 1 /\ marking' = NoMark
      /\ UNCHANGED <<syncVars, quote, position, exitPlan, assessed>>
  BY DEF WorkerDies
<1>2. Times' /\ SnapshotsInv' /\ ExitPlansInv' /\ AssessedInv' /\ ExitEvidence'
  BY <1>1 DEF XInv, Times, SnapshotsInv, ExitPlansInv, Signalled, AssessedInv, ProposalOf,
              ExitEvidence, syncVars
<1>3. MarkingInv' BY <1>1 DEF MarkingInv
<1>4. GrantedInv' BY <1>1 DEF XInv, GrantedInv, Times
<1>5. QED BY <1>2, <1>3, <1>4 DEF XInv

(* Every step of the worker, the broker and time keeps the invariant.      *)
THEOREM ExitInductive == ExitSpec => []XInv
<1>1. ExitInit => XInv
  BY DEF ExitInit, SyncInit, XInv, Times, NoQuote, SnapshotsInv, ExitPlansInv, NoPlan,
         AssessedInv, MarkingInv, GrantedInv, ExitEvidence
<1>2. XInv /\ [ExitNext]_exitVars => XInv'
  <2>1. ASSUME XInv, ExitNext PROVE XInv'
    BY <2>1, ExitWorldKeeps, ExitMonitorKeeps, ExitAssessKeeps, ExitMarkKeeps, ExitDeathKeeps DEF ExitNext
  <2>2. ASSUME XInv, UNCHANGED exitVars PROVE XInv'
    BY <2>2 DEF exitVars, syncVars, exitOnly, XInv, Times, SnapshotsInv, ExitPlansInv, Signalled,
                AssessedInv, ProposalOf, MarkingInv, FreshAt, GrantedInv, Carried, ExitEvidence
  <2>3. QED BY <2>1, <2>2
<1>3. QED BY <1>1, <1>2, PTL DEF ExitSpec

(* An authorized exit has the evidence it needs, as it was at the          *)
(* assessment, whatever came between that and its mark                     *)
(* (monitor_recovery_exits, authorize_recovery_exits).                     *)
THEOREM ExitsAreEvidenced == ExitSpec => []ExitEvidence
BY ExitInductive, PTL DEF XInv

LEMMA OneOrNone ==
  ASSUME NEW S, \A x, y \in S : x = y PROVE Cardinality(S) <= 1
<1>1. CASE S = {} BY <1>1, FS_EmptySet
<1>2. CASE S # {}
  <2>1. PICK x \in S : TRUE BY <1>2
  <2>2. S = {x} BY <2>1
  <2>3. QED BY <2>2, FS_Singleton
<1>3. QED BY <1>1, <1>2

(* However the worker dies, an exit is authorized at most once, its plan   *)
(* says so only if it was, and an authorized exit is blocked only after a  *)
(* worker died between the two commits.                                    *)
THEOREM ExitsAuthorizedOnce == ExitSpec => []OneExitAuthorization
<1>1. XInv => OneExitAuthorization
  <2> SUFFICES ASSUME XInv, NEW p \in Positions
      PROVE  LET granted == {a \in assessed : a.authorized /\ a.proposal[1] = p} IN
               /\ Cardinality(granted) <= 1
               /\ exitPlan[p].status = "RISK_AUTHORIZED_EXIT" => granted # {}
               /\ exitPlan[p].status = "EXIT_RISK_BLOCKED" /\ granted # {} => deaths > 0
    BY DEF OneExitAuthorization
  <2> DEFINE granted == {a \in assessed : a.authorized /\ a.proposal[1] = p}
  <2> USE DEF XInv
  <2>2. ASSUME NEW a \in granted, NEW b \in granted PROVE a = b
    <3>1. a \in assessed /\ b \in assessed /\ a.proposal[1] = p /\ b.proposal[1] = p
          /\ a.authorized /\ b.authorized
      OBVIOUS
    <3>2. a.proposal = <<p, exitPlan[p].quote.at>> /\ b.proposal = <<p, exitPlan[p].quote.at>>
      BY <3>1 DEF AssessedInv, ProposalOf
    <3>3. QED BY <3>1, <3>2 DEF AssessedInv
  <2>3. Cardinality(granted) <= 1 BY <2>2, OneOrNone
  <2>4. exitPlan[p].status = "RISK_AUTHORIZED_EXIT" => granted # {}
    <3>1. exitPlan[p].status = "RISK_AUTHORIZED_EXIT" =>
            \E a \in assessed : a.authorized /\ a.proposal[1] = p
      BY DEF GrantedInv
    <3>2. QED BY <3>1
  <2>5. exitPlan[p].status = "EXIT_RISK_BLOCKED" /\ granted # {} => deaths > 0
    <3>1. ASSUME NEW a \in granted, exitPlan[p].status = "EXIT_RISK_BLOCKED" PROVE deaths > 0
      <4>1. a \in assessed /\ a.authorized /\ a.proposal[1] = p OBVIOUS
      <4>2. QED BY <3>1, <4>1 DEF GrantedInv, Carried
    <3>2. QED BY <3>1
  <2>6. QED BY <2>3, <2>4, <2>5
<1>2. QED BY <1>1, ExitInductive, PTL

-----------------------------------------------------------------------------
(* Types of the broker's snapshots and of the exits.                       *)
SharesInv == held \in 0..Bought /\ \A s \in snapshots : s.shares \in 0..Bought
VerifiedInv == \A s \in snapshots : s.status = "VERIFIED" => Required \subseteq s.datasets
SyncTypesInv ==
  /\ clock \in 0..LastTick /\ sync \in [Syncers -> 0..MaxTries]
  /\ latestRun \in {"NONE", "COMPLETE", "ATTENTION", "FAILED"}
  /\ SharesInv /\ VerifiedInv
PlanStatuses == {"NONE", "EXIT_RISK_REVIEW_REQUIRED", "RISK_AUTHORIZED_EXIT", "EXIT_RISK_BLOCKED"}
ExitTypesInv ==
  /\ SyncTypesInv
  /\ \A p \in Positions : exitPlan[p].status \in PlanStatuses
  /\ \A a \in assessed : a.authorized \in BOOLEAN /\ a.at \in 0..clock

(* An answer without failures read everything that is required.            *)
LEMMA AnswerTyped ==
  ASSUME NEW advertised, NEW bad, held \in 0..Bought
  PROVE  LET s == Normalized(Answer(advertised, bad)) IN
         /\ s.shares \in 0..Bought
         /\ s.status = "VERIFIED" => Required \subseteq s.datasets
         /\ RunStatus(s) \in {"COMPLETE", "ATTENTION"}
BY SyncAssumption DEF Normalized, Answer, RunStatus

LEMMA SyncTypesKept ==
  ASSUME XInv, SyncTypesInv, SyncNext PROVE SyncTypesInv' /\ clock <= clock'
<1>1. ASSUME NEW c \in Syncers, SyncBegin(c) \/ SyncError(c) \/ SyncRefused(c)
      PROVE  SyncTypesInv' /\ clock <= clock'
  <2>1. UNCHANGED <<clock, held, snapshots>>
        /\ latestRun' \in {"NONE", "COMPLETE", "ATTENTION", "FAILED"}
    BY <1>1 DEF SyncBegin, SyncError, SyncRefused, SyncTypesInv
  <2>2. \E n \in 0..MaxTries : sync' = [sync EXCEPT ![c] = n]
    BY <1>1 DEF SyncBegin, SyncError, SyncRefused, SyncTypesInv, MaxTries, NotSyncing
  <2>3. QED BY <2>1, <2>2 DEF SyncTypesInv, SharesInv, VerifiedInv
<1>2. ASSUME NEW c \in Syncers, NEW advertised, NEW bad, SyncStores(c, Answer(advertised, bad))
      PROVE  SyncTypesInv' /\ clock <= clock'
  <2> DEFINE s == Normalized(Answer(advertised, bad))
  <2>1. /\ s.shares \in 0..Bought
        /\ s.status = "VERIFIED" => Required \subseteq s.datasets
        /\ RunStatus(s) \in {"COMPLETE", "ATTENTION"}
    BY AnswerTyped DEF SyncTypesInv, SharesInv
  <2>2. /\ snapshots' = snapshots \cup {s} /\ latestRun' = RunStatus(s)
        /\ sync' = [sync EXCEPT ![c] = 0] /\ UNCHANGED <<clock, held>>
    BY <1>2 DEF SyncStores, NotSyncing
  <2> HIDE DEF s
  <2>3. QED BY <2>1, <2>2 DEF SyncTypesInv, SharesInv, VerifiedInv, MaxTries
<1>3. CASE SoldByHand \/ Tick
  <2>1. /\ UNCHANGED <<sync, snapshots, latestRun>> /\ held' \in 0..Bought
        /\ clock' \in 0..LastTick /\ clock <= clock'
    BY <1>3, SyncAssumption DEF SoldByHand, Tick, SyncTypesInv, SharesInv
  <2>2. QED BY <2>1 DEF SyncTypesInv, SharesInv, VerifiedInv
<1>4. QED BY <1>1, <1>2, <1>3 DEF SyncNext

(* Every row of a synchronization and of an exit has its type: a snapshot  *)
(* that is VERIFIED has every dataset that is required, none is from the   *)
(* future, and no assessment is (normalize, synchronize,                   *)
(* authorize_recovery_exits).                                              *)
THEOREM ExitTypeCorrect == ExitSpec => []ExitTypeOK
<1>1. ExitInit => ExitTypesInv
  BY SyncAssumption DEF ExitInit, SyncInit, ExitTypesInv, SyncTypesInv, SharesInv, VerifiedInv,
                        NotSyncing, MaxTries, NoPlan, PlanStatuses
<1>2. XInv /\ ExitTypesInv /\ [ExitNext]_exitVars => ExitTypesInv'
  <2> SUFFICES ASSUME XInv, ExitTypesInv, [ExitNext]_exitVars PROVE ExitTypesInv' OBVIOUS
  <2>1. CASE SyncNext /\ UNCHANGED exitOnly
    <3>1. SyncTypesInv' /\ clock <= clock' BY <2>1, SyncTypesKept DEF ExitTypesInv
    <3>2. clock \in Nat /\ clock' \in Nat
      BY <3>1, SyncAssumption DEF ExitTypesInv, SyncTypesInv
    <3>3. QED BY <2>1, <3>1, <3>2 DEF ExitTypesInv, exitOnly
  <2>2. ASSUME UNCHANGED syncVars, UNCHANGED assessed,
               \A p \in Positions : exitPlan'[p].status \in PlanStatuses
        PROVE  ExitTypesInv'
    BY <2>2 DEF ExitTypesInv, SyncTypesInv, SharesInv, VerifiedInv, syncVars
  <2>3. CASE Monitor \/ Mark
    <3>1. UNCHANGED syncVars /\ UNCHANGED assessed BY <2>3 DEF Monitor, Mark
    <3>2. \A p \in Positions : exitPlan'[p].status \in PlanStatuses
      BY <2>3 DEF Monitor, Mark, XInv, ExitPlansInv, ExitTypesInv, PlanStatuses
    <3>3. QED BY <2>2, <3>1, <3>2
  <2>4. CASE WorkerDies \/ (\E price \in Prices : QuoteArrives(price)) \/ UNCHANGED exitVars
    BY <2>2, <2>4 DEF WorkerDies, QuoteArrives, exitVars, exitOnly, ExitTypesInv
  <2>5. ASSUME NEW p \in Positions, NEW clear \in BOOLEAN, Assess(p, clear)
        PROVE  ExitTypesInv'
    <3>1. PICK a : /\ assessed' = assessed \cup {a} /\ a.at = clock /\ a.authorized \in BOOLEAN
                   /\ UNCHANGED <<syncVars, exitPlan>>
      <4> DEFINE a == [proposal |-> <<p, exitPlan[p].quote.at>>, at |-> clock,
                       authorized |-> SessionCheck(p) /\ clear /\ New(<<p, exitPlan[p].quote.at>>)]
      <4>1. assessed' = assessed \cup {a} /\ UNCHANGED <<syncVars, exitPlan>>
        BY <2>5 DEF Assess
      <4>2. a.authorized \in BOOLEAN /\ a.at = clock BY DEF SessionCheck, RegularSession, New
      <4> HIDE DEF a
      <4>3. QED BY <4>1, <4>2
    <3>2. clock \in 0..clock BY DEF XInv, Times
    <3>3. QED
      BY <3>1, <3>2 DEF ExitTypesInv, SyncTypesInv, SharesInv, VerifiedInv, syncVars
  <2>6. QED BY <2>1, <2>3, <2>4, <2>5 DEF ExitNext
<1>3. XInv /\ ExitTypesInv => ExitTypeOK
  <2>1. ASSUME XInv, ExitTypesInv PROVE ExitTypeOK
    <3>1. SyncTypeOK
      BY <2>1 DEF ExitTypesInv, SyncTypesInv, SharesInv, VerifiedInv, SyncTypeOK, XInv, SnapshotsInv
    <3>2. QED
      BY <2>1, <3>1 DEF ExitTypesInv, ExitTypeOK, XInv, ExitPlansInv, PlanStatuses
  <2>2. QED BY <2>1
<1>4. QED BY <1>1, <1>2, <1>3, ExitInductive, PTL DEF ExitSpec
=============================================================================
