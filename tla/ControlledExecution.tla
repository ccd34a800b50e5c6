------------------------ MODULE ControlledExecution ------------------------
(***************************************************************************)
(* Governed controlled-live execution: the trade intent, its ledger        *)
(* record, the operator's controls, the broker's order and the threads     *)
(* that move them (backend/app/execution/live.py, the controlled-live      *)
(* routes of backend/app/main.py, the broker part of data/worker.py).      *)
(*                                                                         *)
(* Every API request runs on a thread of its own and every database        *)
(* session keeps the values it loaded (autoflush and expire_on_commit are  *)
(* off), so a handler is two or more steps: it loads rows, calls the       *)
(* gateway, and commits.  A commit writes an attribute only when the new   *)
(* value differs from the loaded one.  Only execute() locks its rows.      *)
(* The rows one handler loads before its first call out are one step.      *)
(***************************************************************************)
EXTENDS Integers, FiniteSets

CONSTANTS
  Intents,     \* intents, one per authorized risk assessment
  Handlers,    \* API threads
  Worker,      \* the single thread of the ingestion worker
  WorkerEnabled, \* settings.ingestion_worker_enabled and broker_sync_enabled
  None,        \* no intent, no order reference
  Qty,         \* quantity of every intent, in fill units
  MaxFilled,   \* bound: units the broker may report filled (> Qty: overfill)
  TermValues,  \* order fields reconcile() compares: symbol, side, quantity, type, limit
  Terms,       \* the terms each intent froze
  Notional,    \* notional of each intent
  Caps,        \* ceilings an operator authorization may carry
  Faults       \* faults of the environment: a subset of FaultKinds

FaultKinds == {"crash", "malformed"}

ASSUME WorkerIsNoHandler == Worker \notin Handlers /\ WorkerEnabled \in BOOLEAN
ASSUME NoneIsNoIntent == None \notin Intents
ASSUME QtyAssumption == Qty \in Nat \ {0} /\ MaxFilled \in Nat /\ MaxFilled >= Qty
ASSUME TermsAssumption == Terms \in [Intents -> TermValues]
ASSUME CapAssumption == Caps \subseteq Nat \ {0} /\ Notional \in [Intents -> Nat \ {0}]
ASSUME FaultsAssumption == Faults \subseteq FaultKinds

Threads == Handlers \cup {Worker}

VARIABLES
  intent,    \* controlled_trade_intents.status; "NONE" before the row exists
  approval,  \* whether approval_checksum is set on the row
  age,       \* of its evidence: usable, then stale, then the intent expires
  record,    \* controlled_execution_records.status; "NONE" without a row
  ref,       \* actual_order.order_ref of the record; the intent an order is for
  calls,     \* history: placement requests sent for the intent
  order,     \* the broker's order for the intent
  seen,      \* filled quantity of each order in the latest broker snapshot
  kill, breaker,   \* risk_control_state
  authCap,   \* ceiling of the live authorization in force, 0 when none is
  req,       \* what each thread is doing, with the values it loaded
  batch      \* the records the worker's session loaded and has yet to visit

rows == <<intent, approval, age>>
ledger == <<record, ref, calls>>
broker == <<order, seen>>
controls == <<kill, breaker, authCap>>
threads == <<req, batch>>
vars == <<rows, ledger, broker, controls, threads>>

-----------------------------------------------------------------------------
(* Types                                                                   *)

PendingIntent == {"PROPOSED", "APPROVED_TRIAL_ONLY", "REVIEWED_TRIAL_ONLY"}
IntentStatus == PendingIntent \cup
  {"NONE", "REJECTED", "EXPIRED", "SUBMITTING", "SUBMITTED", "PARTIALLY_FILLED",
   "FILLED", "BROKER_REJECTED", "EXECUTION_ATTENTION", "CANCEL_REQUESTED"}

Unsubmitted == {"NONE", "REVIEWED_ONLY"}
OpenRecord == {"SUBMITTED", "PARTIALLY_FILLED"}
KnownRecord == OpenRecord \cup {"FILLED", "CANCEL_REQUESTED"}
RecordStatus == Unsubmitted \cup KnownRecord \cup {"SUBMITTING", "UNKNOWN", "REJECTED"}

\* Statuses reconcile_from_snapshot accepts.  It also names
\* RECONCILIATION_ATTENTION, which nothing writes.
Reconcilable == OpenRecord \cup {"UNKNOWN"}

\* What reconcile() can conclude from an order it was shown.
Evidence == {"MISMATCH", "SUBMITTED", "PARTIALLY_FILLED", "FILLED"}

Refs == Intents \cup {None}
Absent == -1       \* no snapshot of the last 300 seconds lists the order

NoOrder == [state |-> "none", terms |-> None, filled |-> 0]
Order == [state : {"none", "pending", "working", "refused", "dead"},
          terms : TermValues \cup {None}, filled : 0..MaxFilled]

Steps == {"idle", "approving", "rejecting", "expiring", "reviewing", "executing",
          "placing", "cancelling", "alarming", "recovering", "bound",
          "sweeping", "reconciling"}
Request == [pc : Steps, i : Refs, age : {"fresh", "stale", "overdue"}, cap : Caps \cup {0},
            row : IntentStatus, rec : RecordStatus, ref : Refs, brk : BOOLEAN,
            ev : Evidence]

Idle == [pc |-> "idle", i |-> None, age |-> "fresh", cap |-> 0, row |-> "NONE",
         rec |-> "NONE", ref |-> None, brk |-> FALSE, ev |-> "MISMATCH"]

Unlisted == [rec |-> "NONE", ref |-> None]

TypeOK ==
  /\ intent \in [Intents -> IntentStatus]
  /\ approval \in [Intents -> BOOLEAN]
  /\ age \in [Intents -> {"fresh", "stale", "overdue"}]
  /\ record \in [Intents -> RecordStatus]
  /\ ref \in [Intents -> Refs]
  /\ calls \in [Intents -> Nat]
  /\ order \in [Intents -> Order]
  /\ seen \in [Intents -> {Absent} \cup (0..MaxFilled)]
  /\ kill \in BOOLEAN /\ breaker \in BOOLEAN
  /\ authCap \in Caps \cup {0}
  /\ req \in [Threads -> Request]
  /\ batch \in [Intents -> [rec : RecordStatus, ref : Refs]]

\* The tables of a fresh installation: controls clear, live trading not
\* authorized, no intent.
Init ==
  /\ intent = [i \in Intents |-> "NONE"]
  /\ approval = [i \in Intents |-> FALSE]
  /\ age = [i \in Intents |-> "fresh"]
  /\ record = [i \in Intents |-> "NONE"]
  /\ ref = [i \in Intents |-> None]
  /\ calls = [i \in Intents |-> 0]
  /\ order = [i \in Intents |-> NoOrder]
  /\ seen = [i \in Intents |-> Absent]
  /\ kill = FALSE /\ breaker = FALSE /\ authCap = 0
  /\ req = [t \in Threads |-> Idle]
  /\ batch = [i \in Intents |-> Unlisted]

-----------------------------------------------------------------------------
(* Threads                                                                 *)

\* The worker reconciles the rest of its list in the same session, which
\* keeps the controls row as it loaded or last wrote it.
Rest(t, brk) ==
  IF t = Worker /\ \E i \in Intents : batch[i] # Unlisted
  THEN [Idle EXCEPT !.pc = "sweeping", !.brk = brk] ELSE Idle

Enters(t, request) == req' = [req EXCEPT ![t] = request] /\ UNCHANGED batch
Leaves(t) == Enters(t, Rest(t, req[t].brk))

\* The thread alone moves: it loads rows and calls out, or gives up.
Moves(t, request) == Enters(t, request) /\ UNCHANGED <<rows, ledger, broker, controls>>
Drops(t) == Moves(t, Rest(t, req[t].brk))

\* A handler's last commit: the intent's status, alone or with the record's.
SetsIntent(t, row) ==
  /\ intent' = [intent EXCEPT ![req[t].i] = row]
  /\ Leaves(t)
  /\ UNCHANGED <<age, ledger, broker, controls>>

SetsBoth(t, row, rec) ==
  /\ intent' = [intent EXCEPT ![req[t].i] = row]
  /\ record' = [record EXCEPT ![req[t].i] = rec]
  /\ Leaves(t)
  /\ UNCHANGED <<approval, age, calls, broker>>

At(t, pc) == req[t].pc = pc
Free(t) == At(t, "idle")

\* An UPDATE leaves a column alone when the new value is the loaded one,
\* whatever another session has committed there since.
Written(current, loaded, new) == IF new = loaded THEN current ELSE new

-----------------------------------------------------------------------------
(* From risk authorization to official review                              *)

\* POST intents: one intent per risk assessment, expiring after five minutes.
CreateIntent(t, i) ==
  /\ Free(t) /\ intent[i] = "NONE"
  /\ intent' = [intent EXCEPT ![i] = "PROPOSED"]
  /\ UNCHANGED <<approval, age, ledger, broker, controls, threads>>

\* approve, and reject: load the row, find it PROPOSED.
ApproveLoad(t, i) ==
  /\ Free(t) /\ intent[i] = "PROPOSED"
  /\ Moves(t, [Idle EXCEPT !.pc = IF age[i] = "overdue" THEN "expiring" ELSE "approving", !.i = i])

ApproveCommit(t) ==
  /\ At(t, "approving") /\ SetsIntent(t, "APPROVED_TRIAL_ONLY")
  /\ approval' = [approval EXCEPT ![req[t].i] = TRUE]

RejectLoad(t, i) ==
  /\ Free(t) /\ intent[i] = "PROPOSED"
  /\ Moves(t, [Idle EXCEPT !.pc = "rejecting", !.i = i])

\* Mutant: rejection also clears the approval it finds.
RejectCommitClears(t) ==
  At(t, "rejecting") /\ SetsIntent(t, "REJECTED") /\ approval' = [approval EXCEPT ![req[t].i] = FALSE]

RejectCommit(t) ==
  At(t, "rejecting") /\ SetsIntent(t, "REJECTED") /\ UNCHANGED approval

\* The worker's expire_missed_plans: the plan behind a pending intent has
\* missed its entry session.
PlanExpiryLoad(i) ==
  /\ WorkerEnabled /\ Free(Worker) /\ intent[i] \in PendingIntent
  /\ Moves(Worker, [Idle EXCEPT !.pc = "expiring", !.i = i])

ExpireCommit(t) ==
  At(t, "expiring") /\ SetsIntent(t, "EXPIRED") /\ UNCHANGED approval

\* review: the gateway's official pre-trade review runs between the load and
\* the commit.
ReviewLoad(t, i) ==
  /\ Free(t) /\ intent[i] = "APPROVED_TRIAL_ONLY" /\ approval[i]
  /\ Moves(t, [Idle EXCEPT !.pc = IF age[i] = "overdue" THEN "expiring" ELSE "reviewing", !.i = i])

\* Mutant: the review replaces an existing record.
ReviewCommitReplaces(t) ==
  /\ At(t, "reviewing") /\ SetsBoth(t, "REVIEWED_TRIAL_ONLY", "REVIEWED_ONLY")
  /\ UNCHANGED <<ref, controls>>

\* The record is looked up only now and inserted when there is none; the
\* row's status is written either way.
ReviewCommit(t) ==
  LET old == record[req[t].i] IN
  /\ At(t, "reviewing")
  /\ SetsBoth(t, "REVIEWED_TRIAL_ONLY", IF old = "NONE" THEN "REVIEWED_ONLY" ELSE old)
  /\ UNCHANGED <<ref, controls>>

\* The review fails safely, or loses the insert to another request.
ReviewFails(t) == At(t, "reviewing") /\ Drops(t)

-----------------------------------------------------------------------------
(* execute()                                                               *)

\* The clock, the authorization and the controls are read before the lock.
ExecuteLoad(t, i) ==
  /\ Free(t) /\ intent[i] # "NONE"
  /\ authCap > 0 /\ ~kill /\ ~breaker
  /\ Moves(t, [Idle EXCEPT !.pc = "executing", !.i = i, !.age = age[i], !.cap = authCap])

\* Mutant: the record's status is not checked again under the lock.
ReviewedRowOnly(i) == intent[i] = "REVIEWED_TRIAL_ONLY" /\ record[i] # "NONE"

\* Under the lock: the exact reviewed intent, in the state review left it.
Reviewed(i) == intent[i] = "REVIEWED_TRIAL_ONLY" /\ record[i] = "REVIEWED_ONLY"

\* Evidence as old as the clock read says, ceiling as loaded, checksum as stored.
Submittable(t) ==
  LET q == req[t] IN
  Reviewed(q.i) /\ q.age = "fresh" /\ Notional[q.i] <= q.cap /\ approval[q.i]

\* A recorded outcome is returned as it stands; anything else is refused.
ExecuteReturns(t) ==
  /\ At(t, "executing") /\ ~Submittable(t)
  /\ ~(Reviewed(req[t].i) /\ req[t].age = "overdue")
  /\ Drops(t)

ExecuteExpires(t) ==
  /\ At(t, "executing") /\ Reviewed(req[t].i) /\ req[t].age = "overdue"
  /\ SetsIntent(t, "EXPIRED") /\ UNCHANGED approval

\* SUBMITTING is committed, then the placement request leaves.
ExecuteSubmits(t) ==
  LET i == req[t].i IN
  /\ At(t, "executing") /\ Submittable(t)
  /\ intent' = [intent EXCEPT ![i] = "SUBMITTING"]
  /\ record' = [record EXCEPT ![i] = "SUBMITTING"]
  /\ calls' = [calls EXCEPT ![i] = @ + 1]
  /\ order' = [order EXCEPT ![i].state = IF @ = "none" THEN "pending" ELSE @]
  /\ Enters(t, [Idle EXCEPT !.pc = "placing", !.i = i])
  /\ UNCHANGED <<approval, age, ref, seen, controls>>

\* Mutant: a gateway error counts as a refusal.
PlaceErrorRefused(t) ==
  At(t, "placing") /\ SetsBoth(t, "BROKER_REJECTED", "REJECTED") /\ UNCHANGED <<ref, controls>>

\* Mutant: the refusal reaches the intent but not the record.
PlaceRefusedRowOnly(t) ==
  /\ At(t, "placing") /\ order[req[t].i].state = "refused"
  /\ SetsIntent(t, "BROKER_REJECTED") /\ UNCHANGED approval

\* The gateway answers that the request was refused.
PlaceRefused(t) ==
  /\ At(t, "placing") /\ order[req[t].i].state = "refused"
  /\ SetsBoth(t, "BROKER_REJECTED", "REJECTED")
  /\ UNCHANGED <<ref, controls>>

\* Mutant: attention is recorded and trading goes on.
PlaceDoubtedQuietly(t, r) ==
  /\ SetsBoth(t, "EXECUTION_ATTENTION", "UNKNOWN")
  /\ ref' = [ref EXCEPT ![req[t].i] = r]
  /\ UNCHANGED controls

\* _attention from execute(): the controls row was loaded with the breaker
\* open, so the UPDATE engages it.
PlaceDoubted(t, r) ==
  /\ SetsBoth(t, "EXECUTION_ATTENTION", "UNKNOWN")
  /\ ref' = [ref EXCEPT ![req[t].i] = r]
  /\ breaker' = TRUE
  /\ UNCHANGED <<kill, authCap>>

\* A timeout, an error, or an answer without a verifiable order.
PlaceUnknown(t) == At(t, "placing") /\ PlaceDoubted(t, ref[req[t].i])

AtBroker(i) == order[i].state \in {"working", "dead"}

\* The answer shows an order whose fields are not the intent's.
PlaceMismatch(t) ==
  LET i == req[t].i IN
  /\ At(t, "placing") /\ AtBroker(i) /\ order[i].terms # Terms[i]
  /\ PlaceDoubted(t, i)

\* Mutant: the order is confirmed without keeping its reference.
PlaceConfirmedBare(t) ==
  /\ At(t, "placing") /\ AtBroker(req[t].i) /\ order[req[t].i].terms = Terms[req[t].i]
  /\ SetsBoth(t, "SUBMITTED", "SUBMITTED")
  /\ UNCHANGED <<ref, controls>>

PlaceConfirmed(t) ==
  LET i == req[t].i IN
  /\ At(t, "placing") /\ AtBroker(i) /\ order[i].terms = Terms[i]
  /\ SetsBoth(t, "SUBMITTED", "SUBMITTED")
  /\ ref' = [ref EXCEPT ![i] = i]
  /\ UNCHANGED controls

\* The answer has every field but one is not a number: reconcile() raises
\* out of execute() and nothing more is written.
PlaceRaises(t) ==
  "malformed" \in Faults /\ At(t, "placing") /\ AtBroker(req[t].i) /\ Drops(t)

-----------------------------------------------------------------------------
(* Cancellation                                                            *)

CancelLoad(t, i) ==
  /\ Free(t) /\ record[i] \in OpenRecord /\ ref[i] # None
  /\ Moves(t, [Idle EXCEPT !.pc = "cancelling", !.i = i])

\* The broker refuses the cancellation: nothing is written.
CancelRefused(t) == At(t, "cancelling") /\ Drops(t)

CancelAccepted(t) ==
  /\ At(t, "cancelling") /\ SetsBoth(t, "CANCEL_REQUESTED", "CANCEL_REQUESTED")
  /\ UNCHANGED <<ref, controls>>

\* Any other answer: the controls row is loaded and the breaker engaged.
CancelUnknown(t) ==
  /\ At(t, "cancelling")
  /\ Moves(t, [req[t] EXCEPT !.pc = "alarming", !.brk = breaker])

AlarmCommit(t) ==
  /\ At(t, "alarming")
  /\ record' = [record EXCEPT ![req[t].i] = "UNKNOWN"]
  /\ breaker' = Written(breaker, req[t].brk, TRUE)
  /\ Leaves(t)
  /\ UNCHANGED <<rows, ref, calls, broker, kill, authCap>>

-----------------------------------------------------------------------------
(* reconcile_from_snapshot(), on request, on recovery and in the worker    *)

\* A snapshot at most 300 seconds old lists order r.
Visible(r) == r # None /\ seen[r] # Absent

\* Mutants: the fill status is stored as reconcile() words it; the fields are
\* not compared.
JudgedRaw(i, r) ==
  IF order[r].terms # Terms[i] \/ seen[r] > Qty THEN "MISMATCH"
  ELSE IF seen[r] = 0 THEN "UNFILLED"
  ELSE IF seen[r] = Qty THEN "FILLED" ELSE "PARTIALLY_FILLED"

JudgedByQuantity(i, r) ==
  IF seen[r] > Qty THEN "MISMATCH"
  ELSE IF seen[r] = 0 THEN "SUBMITTED"
  ELSE IF seen[r] = Qty THEN "FILLED" ELSE "PARTIALLY_FILLED"

\* reconcile(): the fields and the filled quantity the snapshot shows of
\* order r, against what intent i froze.
Judged(i, r) ==
  IF order[r].terms # Terms[i] \/ seen[r] > Qty THEN "MISMATCH"
  ELSE IF seen[r] = 0 THEN "SUBMITTED"
  ELSE IF seen[r] = Qty THEN "FILLED"
  ELSE "PARTIALLY_FILLED"

Reconciling(i, row, rec, r, brk) ==
  [Idle EXCEPT !.pc = "reconciling", !.i = i, !.row = row, !.rec = rec,
               !.ref = r, !.brk = brk, !.ev = Judged(i, r)]

ReconcileLoad(t, i) ==
  /\ Free(t) /\ record[i] \in Reconcilable /\ Visible(ref[i])
  /\ Moves(t, Reconciling(i, intent[i], record[i], ref[i], breaker))

\* Row and record take the snapshot's word, or _attention's.  actual_order is
\* written back with the loaded reference when the order it embeds changed.
ReconcileCommit(t) ==
  LET q == req[t]
      matched == q.ev # "MISMATCH"
      rec == IF matched THEN q.ev ELSE "UNKNOWN"
      row == IF matched THEN q.ev ELSE "EXECUTION_ATTENTION"
      brk == IF matched THEN q.brk ELSE TRUE
  IN
  /\ At(t, "reconciling")
  /\ record' = [record EXCEPT ![q.i] = Written(@, q.rec, rec)]
  /\ intent' = [intent EXCEPT ![q.i] = Written(@, q.row, row)]
  /\ breaker' = Written(breaker, q.brk, brk)
  /\ \E r \in {ref[q.i], q.ref} : ref' = [ref EXCEPT ![q.i] = r]
  /\ Enters(t, Rest(t, brk))
  /\ UNCHANGED <<approval, age, calls, broker, kill, authCap>>

\* recover: the operator names the broker's order for an UNKNOWN record.
RecoverLoad(t, i) ==
  /\ Free(t) /\ record[i] = "UNKNOWN"
  /\ Moves(t, [Idle EXCEPT !.pc = "recovering", !.i = i, !.row = intent[i],
                            !.rec = record[i], !.ref = ref[i]])

RecoverBind(t, r) ==
  LET q == req[t] IN
  /\ At(t, "recovering")
  /\ ref' = [ref EXCEPT ![q.i] = Written(@, q.ref, r)]
  /\ Enters(t, [q EXCEPT !.pc = "bound", !.ref = r])
  /\ UNCHANGED <<rows, record, calls, broker, controls>>

\* It goes on to reconcile in the same session, with the row and the record
\* as first loaded, or stops for want of evidence.
RecoverReconciles(t) ==
  LET q == req[t] IN
  /\ At(t, "bound")
  /\ Moves(t, IF Visible(q.ref) THEN Reconciling(q.i, q.row, q.rec, q.ref, breaker) ELSE Idle)

\* Mutant: a synchronization finds the snapshot unchanged.
ObservedBefore == seen

\* A synchronization stores what the broker shows now.
Observed == [i \in Intents |-> IF AtBroker(i) THEN order[i].filled ELSE Absent]

\* The worker's broker interval: synchronize, which may fail, then load every
\* open record, and the controls, into one session.
SweepStart(synced) ==
  /\ WorkerEnabled /\ Free(Worker) /\ \E i \in Intents : record[i] \in OpenRecord
  /\ seen' = IF synced THEN Observed ELSE seen
  /\ batch' = [i \in Intents |->
                 IF record[i] \in OpenRecord THEN [rec |-> record[i], ref |-> ref[i]] ELSE Unlisted]
  /\ req' = [req EXCEPT ![Worker] = [Idle EXCEPT !.pc = "sweeping", !.brk = breaker]]
  /\ UNCHANGED <<rows, ledger, order, controls>>

\* The next record of the list, as it was when the list was loaded.
SweepReconciles(i) ==
  LET b == batch[i] IN
  /\ At(Worker, "sweeping") /\ b # Unlisted /\ Visible(b.ref)
  /\ batch' = [batch EXCEPT ![i] = Unlisted]
  /\ req' = [req EXCEPT ![Worker] = Reconciling(i, intent[i], b.rec, b.ref, req[Worker].brk)]
  /\ UNCHANGED <<rows, ledger, broker, controls>>

\* No reference, no fresh snapshot, or no such order in it: next record.
SweepSkips(i) ==
  /\ At(Worker, "sweeping") /\ batch[i] # Unlisted /\ ~Visible(batch[i].ref)
  /\ batch' = [batch EXCEPT ![i] = Unlisted]
  /\ req' = [req EXCEPT ![Worker] =
               IF \E j \in Intents \ {i} : batch[j] # Unlisted THEN @ ELSE Idle]
  /\ UNCHANGED <<rows, ledger, broker, controls>>

-----------------------------------------------------------------------------
(* The operator, the clock, the broker and the machine                     *)

OperatorAuthorizes(cap) ==
  /\ ~kill /\ ~breaker
  /\ authCap' = cap
  /\ UNCHANGED <<rows, ledger, broker, kill, breaker, threads>>

\* It is withdrawn, it lapses, or the gateway's execution flag goes off.
AuthorizationEnds ==
  /\ authCap > 0 /\ authCap' = 0
  /\ UNCHANGED <<rows, ledger, broker, kill, breaker, threads>>

\* PATCH risk controls writes both switches as the form shows them.
OperatorSetsControls(k, b) ==
  /\ <<k, b>> # <<kill, breaker>>
  /\ kill' = k /\ breaker' = b
  /\ UNCHANGED <<rows, ledger, broker, authCap, threads>>

\* Evidence goes stale; five minutes after creation the intent expires.
TimePasses(i) ==
  /\ \/ age[i] = "fresh" /\ age' = [age EXCEPT ![i] = "stale"]
     \/ age[i] # "overdue" /\ intent[i] # "NONE" /\ age' = [age EXCEPT ![i] = "overdue"]
  /\ UNCHANGED <<intent, approval, ledger, broker, controls, threads>>

\* A request in flight may arrive long after its thread gave up on it.
BrokerAccepts(i, terms) ==
  /\ order[i].state = "pending"
  /\ order' = [order EXCEPT ![i].state = "working", ![i].terms = terms]
  /\ UNCHANGED <<rows, ledger, seen, controls, threads>>

BrokerRefuses(i) ==
  /\ order[i].state = "pending"
  /\ order' = [order EXCEPT ![i].state = "refused"]
  /\ UNCHANGED <<rows, ledger, seen, controls, threads>>

BrokerFills(i) ==
  /\ order[i].state = "working" /\ order[i].filled < MaxFilled
  /\ order' = [order EXCEPT ![i].filled = @ + 1]
  /\ UNCHANGED <<rows, ledger, seen, controls, threads>>

\* A good-for-day order lapses, or a cancellation reaches it.
OrderDies(i) ==
  /\ order[i].state = "working"
  /\ order' = [order EXCEPT ![i].state = "dead"]
  /\ UNCHANGED <<rows, ledger, seen, controls, threads>>

\* POST broker sync, on any thread.
Synchronizes ==
  /\ seen # Observed /\ seen' = Observed
  /\ UNCHANGED <<rows, ledger, order, controls, threads>>

SnapshotAges ==
  /\ \E i \in Intents : seen[i] # Absent
  /\ seen' = [i \in Intents |-> Absent]
  /\ UNCHANGED <<rows, ledger, order, controls, threads>>

\* The process dies under a thread; what it had not committed is gone.
Dies(t) ==
  /\ "crash" \in Faults /\ ~Free(t)
  /\ req' = [req EXCEPT ![t] = Idle]
  /\ batch' = IF t = Worker THEN [i \in Intents |-> Unlisted] ELSE batch
  /\ UNCHANGED <<rows, ledger, broker, controls>>

-----------------------------------------------------------------------------
(* The system                                                              *)

Requests ==
  \E t \in Handlers, i \in Intents :
    \/ CreateIntent(t, i) \/ ApproveLoad(t, i) \/ RejectLoad(t, i) \/ ReviewLoad(t, i)
    \/ ExecuteLoad(t, i) \/ CancelLoad(t, i) \/ ReconcileLoad(t, i) \/ RecoverLoad(t, i)

\* The worker reaches only two of these: ExpireCommit and ReconcileCommit.
Continues(t) ==
  \/ ApproveCommit(t) \/ RejectCommit(t) \/ ExpireCommit(t)
  \/ ReviewCommit(t) \/ ReviewFails(t)
  \/ ExecuteReturns(t) \/ ExecuteExpires(t) \/ ExecuteSubmits(t)
  \/ PlaceRefused(t) \/ PlaceUnknown(t) \/ PlaceMismatch(t) \/ PlaceConfirmed(t) \/ PlaceRaises(t)
  \/ CancelRefused(t) \/ CancelAccepted(t) \/ CancelUnknown(t) \/ AlarmCommit(t)
  \/ ReconcileCommit(t)
  \/ \E r \in Intents : RecoverBind(t, r)
  \/ RecoverReconciles(t)

Sweeps ==
  \/ \E i \in Intents : PlanExpiryLoad(i) \/ SweepReconciles(i) \/ SweepSkips(i)
  \/ \E synced \in BOOLEAN : SweepStart(synced)

Operator ==
  \/ \E cap \in Caps : OperatorAuthorizes(cap)
  \/ AuthorizationEnds
  \/ \E k, b \in BOOLEAN : OperatorSetsControls(k, b)

Broker ==
  \E i \in Intents :
    \/ BrokerRefuses(i) \/ BrokerFills(i) \/ OrderDies(i)
    \/ \E terms \in TermValues : BrokerAccepts(i, terms)

Environment ==
  \/ Operator \/ Broker \/ Synchronizes \/ SnapshotAges
  \/ \E i \in Intents : TimePasses(i)
  \/ \E t \in Threads : Dies(t)

Next == Requests \/ (\E t \in Threads : Continues(t)) \/ Sweeps \/ Environment

Spec == Init /\ [][Next]_vars

-----------------------------------------------------------------------------
(* Safety                                                                  *)

\* The broker is asked at most once for each intent, and the ledger says so
\* exactly: a record past review stands for one request, any other for none.
\* (Two execute() requests race on the row lock; the loser must see the
\* winner's SUBMITTING, and no later handler may lead back to REVIEWED_ONLY.)
SubmittedOnce ==
  \A i \in Intents : calls[i] = IF record[i] \in Unsubmitted THEN 0 ELSE 1

\* An order the broker holds, or may yet accept, is never on the ledger as
\* unsubmitted or refused, whatever the answer that was lost or late.
BrokerOrderAccounted ==
  \A i \in Intents :
    order[i].state \in {"pending", "working", "dead"} => record[i] \notin Unsubmitted \cup {"REJECTED"}

\* No order is placed for an intent no human approved, although approval,
\* rejection, expiry and review overwrite one another's status.
PlacedOnlyApproved ==
  \A i \in Intents : order[i].state # "none" => approval[i]

\* A fill on the ledger happened: some order the broker holds with the
\* intent's own terms has filled as much as the record claims.
Filled(i, n) == \E r \in Intents : order[r].terms = Terms[i] /\ order[r].filled >= n

Backed(i, status) ==
  /\ status = "FILLED" => Filled(i, Qty)
  /\ status = "PARTIALLY_FILLED" => Filled(i, 1)

LedgerFillsHappened == \A i \in Intents : Backed(i, record[i])

\* An open record names the broker's order: cancellation and reconciliation
\* can find it.
OpenRecordHasReference ==
  \A i \in Intents : record[i] \in KnownRecord => ref[i] # None

\* A known broker rejection is terminal.
RejectionIsFinal ==
  [][\A i \in Intents : record[i] = "REJECTED" => record'[i] = "REJECTED"]_vars

\* A record put in doubt leaves the circuit breaker engaged, in the same
\* transaction.  The one exception is a later handler that had loaded the
\* breaker as engaged already: its UPDATE does not repeat the value, and an
\* operator may have cleared it meanwhile.  A submission is never excepted.
DoubtStopsTrading ==
  [][\A i \in Intents : record[i] # "UNKNOWN" /\ record'[i] = "UNKNOWN" =>
       \/ breaker'
       \/ record[i] # "SUBMITTING" /\ \E t \in Threads : req[t].i = i /\ req[t].brk]_vars

(* Implementation of the promise                                           *)

Belief(i) ==
  CASE record[i] \in Unsubmitted -> "unsent"
    [] record[i] \in {"SUBMITTING", "UNKNOWN"} -> "uncertain"
    [] record[i] \in KnownRecord -> "known"
    [] record[i] = "REJECTED" -> "refused"

Outcome(i) ==
  CASE order[i].state = "none" -> "none"
    [] order[i].state = "pending" -> "asked"
    [] order[i].state \in {"working", "dead"} -> "held"
    [] order[i].state = "refused" -> "refused"

Promise == INSTANCE AtMostOnceOrder
             WITH ledger <- [i \in Intents |-> Belief(i)],
                  broker <- [i \in Intents |-> Outcome(i)]

\* Every step submits, answers, records or doubts one intent as the promise
\* allows, or leaves belief and outcome alone.
KeepsPromise == Promise!Spec

-----------------------------------------------------------------------------
(* Why the ledger can be trusted: what every thread in flight relies on    *)

Posted == KnownRecord \cup {"UNKNOWN"}
AfterSubmission == {"cancelling", "alarming", "recovering", "bound", "reconciling"}

\* A thread that will write the record found it past submission, where it
\* stays, or submitted it itself.
ThreadInv(q) ==
  /\ q.pc \notin {"idle", "sweeping"} => q.i \in Intents
  /\ q.pc = "reviewing" => approval[q.i]
  /\ q.pc = "placing" => record[q.i] = "SUBMITTING"
  /\ q.pc \in AfterSubmission => record[q.i] \in Posted
  /\ q.pc \in AfterSubmission /\ q.ref # None => ref[q.i] # None
  /\ q.pc = "cancelling" => ref[q.i] # None /\ \E r \in Intents : AtBroker(r)
  /\ q.pc \in {"bound", "reconciling"} => q.ref # None
  /\ q.pc = "reconciling" => Backed(q.i, q.ev) /\ \E r \in Intents : AtBroker(r)

ThreadsInv == \A t \in Threads : ThreadInv(req[t])

\* At most one thread is placing the order of an intent.
OnePlaces ==
  \A t, u \in Threads : At(t, "placing") /\ At(u, "placing") /\ req[t].i = req[u].i => t = u

BatchInv ==
  \A i \in Intents :
    /\ batch[i] # Unlisted => record[i] \in Posted
    /\ batch[i].ref # None => batch[i] # Unlisted /\ ref[i] # None

\* Record, history and the broker's order tell the same story.
LedgerInv ==
  \A i \in Intents :
    /\ calls[i] = IF record[i] \in Unsubmitted THEN 0 ELSE 1
    /\ order[i].state = "none" <=> record[i] \in Unsubmitted
    /\ record[i] = "REJECTED" => order[i].state = "refused"
    /\ record[i] # "NONE" => approval[i]
    /\ record[i] \in KnownRecord => ref[i] # None /\ \E r \in Intents : AtBroker(r)
    /\ Backed(i, record[i])
    /\ order[i].filled > 0 => AtBroker(i)
    /\ seen[i] # Absent => AtBroker(i) /\ order[i].filled >= seen[i]

IInv == TypeOK /\ ThreadsInv /\ OnePlaces /\ BatchInv /\ LedgerInv

-----------------------------------------------------------------------------
(* What the documents say and the code does not do                         *)

\* ADR 0006: an uncertain submission "requires broker-snapshot or human
\* recovery".  Once no thread is placing it, some handler must accept it.
UncertainOrderRecoverable ==
  \A i \in Intents :
    record[i] = "SUBMITTING" => \E t \in Threads : At(t, "placing") /\ req[t].i = i

\* security-model.md: submission requires a "clear kill switch and circuit
\* breaker".
SwitchesClearAtSubmission ==
  [][kill \/ breaker => UNCHANGED calls]_vars

\* Rejecting an intent, and expiring the pending intents of a missed plan,
\* withdraws it: no request for it leaves afterwards.
WithdrawalIsFinal ==
  [][\A i \in Intents : intent[i] \in {"REJECTED", "EXPIRED"} =>
       intent'[i] = intent[i]]_vars

-----------------------------------------------------------------------------
(* Liveness                                                                *)

\* The gateway call ends within 35 seconds and a handler runs to its end; the
\* broker answers; the worker's loop comes back to its broker interval, its
\* synchronization succeeds again and again, and the visit that follows finds
\* the snapshot still fresh.
Fairness ==
  /\ \A t \in Threads : WF_vars(Continues(t))
  /\ \A i \in Intents : WF_vars(BrokerRefuses(i) \/ \E terms \in TermValues : BrokerAccepts(i, terms))
  /\ SF_vars(SweepStart(TRUE))
  /\ \A i \in Intents : SF_vars(SweepReconciles(i)) /\ WF_vars(SweepSkips(i))

FairSpec == Spec /\ Fairness

\* A submission does not stay SUBMITTING.
SubmissionDecided ==
  \A i \in Intents : record[i] = "SUBMITTING" ~> record[i] # "SUBMITTING"

FullyFilled(i) ==
  order[i].terms = Terms[i] /\ order[i].filled >= Qty

\* Without anyone at the screen the worker brings a filled order onto the
\* ledger as filled, or as a discrepancy, unless its cancellation is asked for.
FillReachesLedger ==
  \A i \in Intents :
    record[i] \in OpenRecord /\ FullyFilled(i) ~> record[i] \notin OpenRecord

\* ADR 0006: "Fresh snapshots reconcile unfilled, partially filled and filled
\* quantities", also of an order that filled before its cancellation arrived.
CancelledFillReachesLedger ==
  \A i \in Intents :
    record[i] = "CANCEL_REQUESTED" /\ FullyFilled(i) ~> record[i] # "CANCEL_REQUESTED"
=============================================================================
