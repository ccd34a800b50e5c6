--------------------------- MODULE CapitalPlanning ---------------------------
(***************************************************************************)
(* Capital plans: reservations made inside Aegis for an entry session, the *)
(* API threads and the worker that create, revalidate and release them     *)
(* (the planned-trade routes of backend/app/main.py, planning.py, and the  *)
(* capture of fills in dividend_exit_monitor.py).  The notification        *)
(* columns that the same commits write are the state of PlanNotifications. *)
(*                                                                         *)
(* None of them locks a row.  A handler loads rows in one step and commits *)
(* in another; a commit writes the attributes that differ from the loaded  *)
(* ones.  A plan is named by the terms its checksum freezes, so two rows   *)
(* with the same terms cannot exist: the second insert raises.             *)
(***************************************************************************)
EXTENDS Integers, FiniteSets, FiniteSetsExt, Functions

CONSTANTS
  Decisions,    \* ENTRY decisions of the Dividend Farm
  Entries,      \* pairs of a symbol and its entry session
  EntryOf,      \* the entry each decision is for
  Plans,        \* the terms plans may freeze: decision, notional, rationale
  Planner,      \* the fixed rationale of the qualified planner
  Payable,      \* <<decision, notional>> whose expected dividend does not round to zero
  Assessments,  \* authorized risk assessments
  AssessedFor,  \* the decision each is for
  Handlers,     \* API threads
  MaxPower,     \* bound: buying power a broker snapshot may show
  None

ASSUME EntryAssumption == EntryOf \in [Decisions -> Entries]
ASSUME AmountAssumption ==
  /\ MaxPower \in Nat
  /\ \A p \in Plans : p.dec \in Decisions /\ p.amt \in Nat \ {0}
(* Columns have lengths and amounts have limits, so terms are finitely many. *)
ASSUME FinitenessAssumption == IsFiniteSet(Plans) /\ IsFiniteSet(Handlers)
ASSUME TermAssumption == Payable \subseteq Decisions \X Nat
ASSUME AssessmentAssumption ==
  None \notin Assessments /\ AssessedFor \in [Assessments -> Decisions]

VARIABLES
  row,       \* planned_trades, by terms
  latest,    \* the plan with the highest id of each decision
  intent,    \* status of the controlled intent of each assessment
  bought,    \* assessments whose intent has a reconciled entry fill
  position,  \* assessments whose fill is registered as a position
  phase,     \* of each entry: before its session, in it, after its close, a later day
  fresh,     \* assessments whose evidence is fresh
  power,     \* buying power in the latest snapshot
  req,       \* what each API thread is about to commit
  worker     \* where the worker's loop is, with what it loaded

planned == <<row, latest>>
execution == <<intent, bought>>
clocks == <<phase, fresh, power>>
vars == <<planned, execution, position, clocks, req, worker>>

-----------------------------------------------------------------------------
(* Types                                                                   *)

Amounts == {p.amt : p \in Plans}
ActivePlan == {"PLANNED", "REVALIDATION_BLOCKED", "READY_FOR_FINAL_APPROVAL"}
PlanStatus == ActivePlan \cup {"NONE", "CANCELLED", "EXPIRED", "FILLED"}
Row == [status: PlanStatus, final: Assessments \cup {None}, reserved: Amounts \cup {0}]

NoRow == [status |-> "NONE", final |-> None, reserved |-> 0]
NewRow(p) == [status |-> "PLANNED", final |-> None, reserved |-> p.amt]

Phase == {"FUTURE", "OPEN", "CLOSED", "PAST"}
Turn == {"REJECT", "REJECTING", "EXPIRE", "EXPIRING", "CAPTURE", "CAPTURING",
         "PLAN", "PLANNING"}
NothingSeen == [p \in {} |-> NoRow]

Idle == [op |-> "idle"]
AtTurn(t) == [turn |-> t, seen |-> NothingSeen, lapse |-> {}, todo |-> {},
              left |-> 0, target |-> 0, new |-> {}]

(* Legacy plans, made before the half-cent gate existed, may not be payable. *)
Legacy == {p \in Plans : <<p.dec, p.amt>> \notin Payable}

Init ==
  /\ \E old \in SUBSET Legacy :
       /\ \A p, q \in old : p.dec = q.dec => p = q
       /\ SumFunctionOnSet([p \in Plans |-> p.amt], old) <= MaxPower
       /\ row = [p \in Plans |-> IF p \in old THEN NewRow(p) ELSE NoRow]
       /\ latest = [d \in Decisions |->
            IF \E p \in old : p.dec = d THEN CHOOSE p \in old : p.dec = d ELSE None]
  /\ intent = [a \in Assessments |-> "NONE"]
  /\ bought = {} /\ position = {}
  /\ phase = [e \in Entries |-> "FUTURE"]
  /\ fresh = Assessments
  /\ power = MaxPower
  /\ req = [h \in Handlers |-> Idle]
  /\ worker = AtTurn("REJECT")

-----------------------------------------------------------------------------
(* Reading and writing rows                                                *)

IsActive(p) == row[p].status \in ActivePlan
ReservedBy(S) ==
  SumFunctionOnSet([p \in Plans |-> row[p].reserved], {p \in S : IsActive(p)})
\* Mutants: the reservations are not counted; overbooked cash is negative.
DeployableGross(S) == power
DeployableSigned(S) == power - ReservedBy(S)
Deployable(S) == Max({0, power - ReservedBy(S)})
PlanPhase(p) == phase[EntryOf[p.dec]]
IsPayable(p) == <<p.dec, p.amt>> \in Payable

(* An UPDATE carries the attributes whose new value is not the loaded one. *)
Written(now, seen, new) == [f \in DOMAIN now |-> IF new[f] # seen[f] THEN new[f] ELSE now[f]]
Cancelled(r) == [r EXCEPT !.status = "CANCELLED"]
Expired(r) == [r EXCEPT !.status = "EXPIRED"]
Blocked(r) == [r EXCEPT !.status = "REVALIDATION_BLOCKED"]
Ready(r, a) == [r EXCEPT !.status = "READY_FOR_FINAL_APPROVAL", !.final = a]
Filled(r) == [r EXCEPT !.status = "FILLED", !.reserved = 0]

-----------------------------------------------------------------------------
(* API threads                                                             *)

Starts(h, op, p, new) ==
  /\ req[h] = Idle
  /\ req' = [req EXCEPT ![h] = [op |-> op, plan |-> p, seen |-> row[p], new |-> new]]
  /\ UNCHANGED <<planned, execution, position, clocks, worker>>

CreateLoad(h, p) ==
  /\ p.why # Planner
  /\ PlanPhase(p) # "PAST"
  /\ ~\E q \in Plans : q.dec = p.dec /\ IsActive(q)
  /\ IsPayable(p)
  /\ p.amt <= Deployable(Plans)
  /\ Starts(h, "create", p, NewRow(p))

CancelLoad(h, p) == IsActive(p) /\ Starts(h, "update", p, Cancelled(row[p]))

\* Mutant: the assessment may be of another decision.
RevalidatedByAny(p, a) ==
  LET fits == a \in fresh /\ row[p].reserved <= Deployable(Plans \ {p}) /\ IsPayable(p)
  IN CASE PlanPhase(p) = "PAST" -> Expired(row[p])
       [] PlanPhase(p) = "OPEN" /\ fits -> Ready(row[p], a)
       [] OTHER -> Blocked(row[p])
Revalidated(p, a) ==
  LET fits == /\ a \in fresh /\ AssessedFor[a] = p.dec
              /\ row[p].reserved <= Deployable(Plans \ {p})
              /\ IsPayable(p)
  IN CASE PlanPhase(p) = "PAST" -> Expired(row[p])
       [] PlanPhase(p) = "OPEN" /\ fits -> Ready(row[p], a)
       [] OTHER -> Blocked(row[p])

RevalidateLoad(h, p, a) ==
  /\ row[p].status \in {"PLANNED", "REVALIDATION_BLOCKED"}
  /\ Starts(h, "update", p, Revalidated(p, a))

InsertCommit(h) ==
  /\ req[h].op = "create"
  /\ LET p == req[h].plan IN
       IF row[p].status = "NONE"
       THEN row' = [row EXCEPT ![p] = req[h].new] /\ latest' = [latest EXCEPT ![p.dec] = p]
       ELSE UNCHANGED planned
  /\ req' = [req EXCEPT ![h] = Idle]
  /\ UNCHANGED <<execution, position, clocks, worker>>

UpdateCommit(h) ==
  /\ req[h].op = "update"
  /\ row' = [row EXCEPT ![req[h].plan] = Written(@, req[h].seen, req[h].new)]
  /\ req' = [req EXCEPT ![h] = Idle]
  /\ UNCHANGED <<latest, execution, position, clocks, worker>>

HandlerDies(h) ==
  /\ req[h] # Idle
  /\ req' = [req EXCEPT ![h] = Idle]
  /\ UNCHANGED <<planned, execution, position, clocks, worker>>

-----------------------------------------------------------------------------
(* The worker's loop                                                       *)

WorkerLoads(from, to, S, lapsing, registering) ==
  /\ worker.turn = from
  /\ worker' = [AtTurn(to) EXCEPT !.seen = [p \in S |-> row[p]],
                                  !.lapse = lapsing, !.todo = registering]
  /\ UNCHANGED <<planned, execution, position, clocks, req>>

WorkerWrites(from, to, new) ==
  /\ worker.turn = from
  /\ row' = [p \in Plans |-> IF p \in DOMAIN worker.seen
                             THEN Written(row[p], worker.seen[p], new[p])
                             ELSE row[p]]
  /\ worker' = AtTurn(to)
  /\ UNCHANGED <<latest, bought, clocks, req>>

RejectLoad ==
  WorkerLoads("REJECT", "REJECTING", {p \in Plans : IsActive(p) /\ ~IsPayable(p)}, {}, {})
RejectCommit ==
  /\ WorkerWrites("REJECTING", "EXPIRE", [p \in DOMAIN worker.seen |-> Cancelled(worker.seen[p])])
  /\ UNCHANGED <<intent, position>>

\* Mutant: a plan that awaits final approval is not released.
ExpirableUnapproved ==
  {p \in Plans : row[p].status \in {"PLANNED", "REVALIDATION_BLOCKED"}
                 /\ PlanPhase(p) \in {"CLOSED", "PAST"}}
ExpirablePlans == {p \in Plans : IsActive(p) /\ PlanPhase(p) \in {"CLOSED", "PAST"}}
ExpireLoad ==
  WorkerLoads("EXPIRE", "EXPIRING", ExpirablePlans,
    {a \in Assessments : intent[a] = "PENDING" /\ \E p \in ExpirablePlans : row[p].final = a}, {})
ExpireCommit ==
  /\ WorkerWrites("EXPIRING", "CAPTURE", [p \in DOMAIN worker.seen |-> Expired(worker.seen[p])])
  /\ intent' = [a \in Assessments |-> IF a \in worker.lapse THEN "EXPIRED" ELSE intent[a]]
  /\ UNCHANGED position

\* Mutant: a fill without a plan is passed over.
CaptureLoadPlanned ==
  LET due == {a \in bought \ position : latest[AssessedFor[a]] # None}
  IN WorkerLoads("CAPTURE", "CAPTURING", {latest[AssessedFor[a]] : a \in due}, {}, due)
CaptureLoad ==
  LET due == bought \ position
  IN WorkerLoads("CAPTURE", "CAPTURING", {latest[AssessedFor[a]] : a \in due} \ {None}, {}, due)
CaptureCommit ==
  /\ WorkerWrites("CAPTURING", "PLAN", [p \in DOMAIN worker.seen |-> Filled(worker.seen[p])])
  /\ position' = position \cup worker.todo
  /\ UNCHANGED intent

-----------------------------------------------------------------------------
(* The qualified planner: one transaction over the candidates              *)

PlannerStays == UNCHANGED <<planned, execution, position, clocks, req>>

PlannerSkips == worker.turn = "PLAN" /\ worker' = AtTurn("REJECT") /\ PlannerStays

(* Each symbol brings its latest decision.  One target serves a whole pass; *)
(* what is left is the smaller of the cash and the strategy's allocation.   *)
PlannerLoad ==
  /\ worker.turn = "PLAN"
  /\ \E C \in SUBSET {d \in Decisions : phase[EntryOf[d]] # "PAST"},
        target \in Amounts, share \in 0 .. MaxPower :
       /\ \A d, e \in C : EntryOf[d] = EntryOf[e] => d = e
       /\ worker' = [AtTurn("PLANNING") EXCEPT !.todo = C, !.target = target,
            !.left = Min({Deployable(Plans), Max({0, share - ReservedBy(Plans)})})]
  /\ PlannerStays

PlannedFor(e) == \E p \in Plans : EntryOf[p.dec] = e /\ (IsActive(p) \/ p \in worker.new)

Considers(d) == worker.turn = "PLANNING" /\ d \in worker.todo /\ worker.left >= 1
Candidate(d) == [dec |-> d, amt |-> Min({worker.target, worker.left}), why |-> Planner]

PlannerPasses(d) ==
  /\ Considers(d)
  /\ PlannedFor(EntryOf[d]) \/ Candidate(d) \notin Plans \/ ~IsPayable(Candidate(d))
  /\ worker' = [worker EXCEPT !.todo = @ \ {d}]
  /\ PlannerStays

Qualifies(d) ==
  /\ Considers(d) /\ ~PlannedFor(EntryOf[d])
  /\ Candidate(d) \in Plans /\ IsPayable(Candidate(d))

\* Mutant: the terms of a released plan are inserted again.
PlannerReservesAny(d) ==
  /\ Qualifies(d)
  /\ worker' = [worker EXCEPT !.todo = @ \ {d}, !.new = @ \cup {Candidate(d)},
                              !.left = @ - Candidate(d).amt]
  /\ PlannerStays
PlannerReserves(d) ==
  /\ Qualifies(d) /\ row[Candidate(d)].status = "NONE"
  /\ worker' = [worker EXCEPT !.todo = @ \ {d}, !.new = @ \cup {Candidate(d)},
                              !.left = @ - Candidate(d).amt]
  /\ PlannerStays

(* The insert repeats the terms of a released plan: the pass is rolled back. *)
PlannerCollides(d) ==
  /\ Qualifies(d) /\ row[Candidate(d)].status # "NONE"
  /\ worker' = AtTurn("REJECT")
  /\ PlannerStays

PlannerCommits ==
  /\ worker.turn = "PLANNING"
  /\ worker.todo = {} \/ worker.left < 1
  /\ row' = [p \in Plans |-> IF p \in worker.new THEN NewRow(p) ELSE row[p]]
  /\ latest' = [d \in Decisions |-> IF \E p \in worker.new : p.dec = d
                                    THEN CHOOSE p \in worker.new : p.dec = d ELSE latest[d]]
  /\ worker' = AtTurn("REJECT")
  /\ UNCHANGED <<execution, position, clocks, req>>

WorkerDies ==
  /\ worker.turn \in {"REJECTING", "EXPIRING", "CAPTURING", "PLANNING"}
  /\ worker' = AtTurn("REJECT")
  /\ UNCHANGED <<planned, execution, position, clocks, req>>

-----------------------------------------------------------------------------
(* The rest of Aegis, the broker and time                                  *)

RestStays == UNCHANGED <<planned, position, req, worker>>

IntentProposed(a) ==
  /\ intent[a] = "NONE"
  /\ intent' = [intent EXCEPT ![a] = "PENDING"]
  /\ UNCHANGED <<bought, clocks>> /\ RestStays

(* An order sent before the intent expired may fill after it. *)
IntentFilled(a) ==
  /\ intent[a] # "NONE" /\ a \notin bought
  /\ intent' = [intent EXCEPT ![a] = "FILLED"]
  /\ bought' = bought \cup {a}
  /\ UNCHANGED clocks /\ RestStays

SnapshotShows(cash) ==
  /\ power' = cash
  /\ UNCHANGED <<execution, phase, fresh>> /\ RestStays

NextPhase == [FUTURE |-> "OPEN", OPEN |-> "CLOSED", CLOSED |-> "PAST"]
TimePasses(e) ==
  /\ phase[e] # "PAST"
  /\ phase' = [phase EXCEPT ![e] = NextPhase[@]]
  /\ UNCHANGED <<execution, fresh, power>> /\ RestStays

EvidenceAges(a) ==
  /\ a \in fresh
  /\ fresh' = fresh \ {a}
  /\ UNCHANGED <<execution, phase, power>> /\ RestStays

-----------------------------------------------------------------------------
HandlerCommits(h) == InsertCommit(h) \/ UpdateCommit(h)
HandlerNext(h) ==
  \/ \E p \in Plans :
       \/ CreateLoad(h, p) \/ CancelLoad(h, p)
       \/ \E a \in Assessments \cup {None} : RevalidateLoad(h, p, a)
  \/ HandlerCommits(h) \/ HandlerDies(h)

Plan == \/ PlannerSkips \/ PlannerLoad \/ PlannerCommits
        \/ \E d \in Decisions : PlannerPasses(d) \/ PlannerReserves(d) \/ PlannerCollides(d)
Works == \/ RejectLoad \/ RejectCommit \/ ExpireLoad \/ ExpireCommit
         \/ CaptureLoad \/ CaptureCommit \/ Plan
WorkerNext == Works \/ WorkerDies

Environment ==
  \/ \E a \in Assessments : IntentProposed(a) \/ IntentFilled(a) \/ EvidenceAges(a)
  \/ \E cash \in 0 .. MaxPower : SnapshotShows(cash)
  \/ \E e \in Entries : TimePasses(e)

Next == (\E h \in Handlers : HandlerNext(h)) \/ WorkerNext \/ Environment
Spec == Init /\ [][Next]_vars

(***************************************************************************)
(* A handler runs to its end.  The worker's loop goes on, and a worker     *)
(* that is restarted does not die before the same commit for ever.         *)
(***************************************************************************)
FairSpec ==
  /\ Spec
  /\ \A h \in Handlers : WF_vars(HandlerCommits(h))
  /\ WF_vars(Works)
  /\ SF_vars(RejectCommit) /\ SF_vars(ExpireCommit) /\ SF_vars(CaptureCommit)

-----------------------------------------------------------------------------
(* Properties                                                              *)

(* Plans and what threads hold of them have their types. *)
TypeOK ==
  /\ row \in [Plans -> Row]
  /\ latest \in [Decisions -> Plans \cup {None}]
  /\ intent \in [Assessments -> {"NONE", "PENDING", "FILLED", "EXPIRED"}]
  /\ position \subseteq bought /\ bought \subseteq Assessments
  /\ phase \in [Entries -> Phase] /\ fresh \subseteq Assessments
  /\ power \in 0 .. MaxPower
  /\ \A h \in Handlers : req[h] = Idle \/
       req[h] \in [op: {"create", "update"}, plan: Plans, seen: Row, new: Row]
  /\ worker.turn \in Turn /\ DOMAIN worker.seen \subseteq Plans
  /\ worker.left \in 0 .. MaxPower /\ worker.new \subseteq Plans

(* Creation reads the capacity and inserts later, without a lock, and a     *)
(* stale revalidation may revive a released plan; yet each thread can hold  *)
(* at most one capacity it read, so the plans never reserve more than that  *)
(* many times the largest buying power (create_planned_trade,               *)
(* create_qualified_plans, revalidate_planned_trade).                       *)
OverbookingBounded == ReservedBy(Plans) <= (Cardinality(Handlers) + 1) * MaxPower

(* A plan ready for final approval carries an assessment of its own         *)
(* decision, whatever stale writes met on the row (revalidate_planned_trade). *)
ReadyIsAssessed ==
  \A p \in Plans : row[p].status = "READY_FOR_FINAL_APPROVAL" =>
    row[p].final \in Assessments /\ AssessedFor[row[p].final] = p.dec

(* What a row says of itself: its assessment is of the plan's decision, a   *)
(* plan that is ready has one, and terms without a plan have none.          *)
Sound(p, r) ==
  /\ r \in Row
  /\ r.final # None => AssessedFor[r.final] = p.dec
  /\ r.status = "READY_FOR_FINAL_APPROVAL" => r.final # None
  /\ r.status = "NONE" => r.final = None

(* What a thread that loaded a row may still rely on when it commits. *)
Relies(p, seen) ==
  /\ p \in Plans /\ Sound(p, seen)
  /\ row[p].status # "NONE"
  /\ seen.final # None => row[p].final # None

RowsInv ==
  /\ row \in [Plans -> Row]
  /\ \A p \in Plans : Sound(p, row[p])
LatestInv ==
  /\ latest \in [Decisions -> Plans \cup {None}]
  /\ \A d \in Decisions : latest[d] # None => row[latest[d]].status # "NONE"
RequestInv(h) ==
  \/ req[h] = Idle
  \/ /\ req[h].op = "create"
     /\ req[h].plan \in Plans /\ req[h].plan.why # Planner
     /\ req[h].new = NewRow(req[h].plan)
  \/ /\ req[h].op = "update"
     /\ Relies(req[h].plan, req[h].seen)
     /\ Sound(req[h].plan, req[h].new) /\ req[h].new.status # "NONE"
     /\ req[h].seen.final # None => req[h].new.final # None
WorkerInv ==
  /\ \A p \in DOMAIN worker.seen : Relies(p, worker.seen[p])
  /\ \A p \in worker.new : p \in Plans /\ p.why = Planner /\ row[p].status = "NONE"
(* ReadyIsAssessed made inductive: a thread may rely on what it loaded,     *)
(* since an assessment, once on a row, is replaced but never removed, and   *)
(* the planner inserts only terms that have no row (Written, PlannerReserves). *)
CInv ==
  /\ RowsInv /\ LatestInv /\ WorkerInv
  /\ fresh \subseteq Assessments /\ bought \subseteq Assessments
  /\ DOMAIN req = Handlers
  /\ \A h \in Handlers : RequestInv(h)

(* OverbookingBounded made inductive.  A plan claims capital while it is    *)
(* active, while a thread that will commit it holds it, and while the       *)
(* planner is about to insert it; before its row exists it claims its terms.*)
(* What the planner has left to spend counts as claimed.                    *)
Claim == [p \in Plans |-> IF row[p].status = "NONE" THEN p.amt ELSE row[p].reserved]
Active == {p \in Plans : IsActive(p)}
Held == {req[h].plan : h \in {g \in Handlers : req[g] # Idle}}
Claiming == Active \cup Held \cup worker.new
ClaimsInv ==
  /\ \A p \in Plans : row[p].reserved \in {0, p.amt} /\ row[p].reserved <= MaxPower
  /\ \A h \in Handlers :
       /\ req[h].op = "create" => req[h].plan.amt <= MaxPower
       /\ req[h].op = "update" => req[h].new.reserved = req[h].seen.reserved
  /\ worker.target \in Nat
  /\ SumFunctionOnSet(Claim, worker.new) + worker.left <= MaxPower
  /\ SumFunctionOnSet(Claim, Claiming) + worker.left <= (Cardinality(Handlers) + 1) * MaxPower

(* What every step preserves, the types included.                          *)
PlansInv ==
  /\ CInv /\ ClaimsInv /\ TypeOK
  /\ worker.turn = "CAPTURING" => worker.todo \subseteq bought

(* Once its session is over a plan ends up holding no capital, for good,    *)
(* even when a stale revalidation revives it (expire_missed_plans).         *)
MissedPlanReleased ==
  \A p \in Plans : (PlanPhase(p) = "PAST") ~> [](~IsActive(p))

(* A reconciled entry fill becomes a position, though the worker dies       *)
(* between loading and committing (capture_filled_entries).                 *)
FillBecomesPosition == \A a \in Assessments : (a \in bought) ~> (a \in position)

(* "deduplicates plans" (docs/development-status.md:397): a planner pass    *)
(* never fails because it repeats the terms of a plan that exists.          *)
PlannerDeduplicates == [][\A d \in Decisions : ~PlannerCollides(d)]_vars
=============================================================================
