# Aegis Alpha in TLA+

Aegis Alpha proposes, authorizes and (when an operator enables it) places small equity orders: *AI
proposes, a strategy decides, the risk engine authorizes, the operator approves, execution submits*.
The state lives in PostgreSQL and at the broker; an API process (FastAPI handlers on a thread pool),
a worker process and an isolated broker gateway move it. This directory holds the TLA+ modules, the
TLC configurations and the machine-checked proofs about it. `PROJECT.json` maps every definition to
the source lines it stands for; paths below are relative to `src/`.

Check a model with `tlc -workers 2 -config X.cfg M.tla`: `ExecutionSafety` with `MCExecutionSafety`, the
other execution configurations (`ExecutionProgress`, `StuckSubmission`, `CancelledFill`,
`RejectedRevived`, `LateSwitch`) with `MCControlledExecution`, `CapitalRaces`, `CapitalRelease` and
`PlannerCollision` with `MCCapitalPlanning`, `BackgroundServices` with `MCBackground`, `ResearchServices`
and `UnearnedEligibility` with `MCResearch`.
Check proofs with `tlapm M.tla` for `FiniteSums` and each of the seven modules named `...Proofs`.

## The system

| Component | State it keeps | Operations | Talks to | What is hard | Correct when |
|---|---|---|---|---|---|
| **Controlled-live execution** `backend/app/execution/`, the `/api/controlled-live` routes of `main.py` | `controlled_trade_intents`, `controlled_execution_records` | create, approve, reject, review, execute, cancel, recover, reconcile | gateway (HTTP, 35 s timeout), risk controls, snapshots | rows loaded before and written after a gateway call; only `execute()` locks; a lost answer; a crash after `SUBMITTING` | at most one order per intent; no order unapproved, none forgotten; doubt stops trading |
| **Ingestion worker** `data/worker.py` | the session's loaded rows | expire plans, ingest, monitor exits, synchronize and reconcile, scan candidates, in one loop | all of the below | one session serves a whole pass | progress without an operator |
| **Capital planning** `planning.py`, `main.py` 640-732 | `planned_trades` | create, cancel, revalidate, expire, reject unpayable, create qualified | snapshots, risk assessments, intents | capacity is read, then a row inserted, without a lock, by two processes | reservations stay bounded by the buying power; a ready plan is assessed; every plan is released |
| **Risk** `risk/`, `main.py` 521-560 | policies, assessments, the two switches, the live authorization | assess, set controls, new policy, authorize | planning, execution | evidence read at different times; default rows created on demand | nothing authorized against an engaged switch or a broken limit |
| **Broker synchronization** `broker_sync/` | runs and snapshots | synchronize with retries | gateway | partial and late datasets | a snapshot never shows what the broker did not |
| **Broker gateway** `broker-gateway/app/` | OAuth flow globals, encrypted tokens | connect, callback, disconnect, snapshot, review, place, cancel | broker (MCP), backend | globals shared across awaits; identifiers hashed on the way out | reads only, but for one enabled placement path; one connection state |
| **Ingestion queue** `data/queue.py` | `ingestion_jobs` | enqueue, select a batch, process, defer, recover stale | providers | crash while `RUNNING`, quota, retries, priorities | each job done or failed within its attempts, none starved |
| **Dividend exit lifecycle** `dividend_exit_monitor.py` | positions, exit plans | capture fills, monitor, authorize | records, plans, risk | several commits per pass | every filled entry becomes one position, every recovered one an exit |
| **Candidate scanner** `candidate_scanner.py` | scan states | scan a batch | strategy engine | rotation across restarts | every instrument is scanned again |
| **Paper simulator** `paper/` | paper orders | execute | risk | cash derived from orders, read then written | no negative cash or position |
| **Intelligence council** `intelligence.py` | artifacts, reviews | create, review, verify | AI verifier | consensus recomputed by concurrent reviews | status is the consensus of all reviews |
| **Sessions and login** `auth.py`, `infra/auth/` | Redis sessions, attempt windows | create, use, delete, rate-limit | PAM bridge | expiry set by separate commands | no use after lapse, no burst above the limit |
| **Plan notifications** `scripts/check_attention_alert.py` | `notification_status` | send, mark sent | planning, SMTP | crash between send and mark; an event replaced meanwhile | every event is sent at least once |
| **Calculations** `strategy_engine.py`, `lab/`, `data/dividends.py`, `data/calendar.py`, `data/quality.py` | none | rules, simulation, percentiles, estimates, sessions | | rounding and boundaries | equal to a reference definition |
| **Not behaviour** `models.py`, `schemas.py`, `config.py`, `seed.py`, providers, migrations, frontend, shell scripts, nginx | | | | | |

`PROJECT.json` lists the hazards of each, at the line where they bite, with the properties that cover
them, or why none does.

## Modules

| Modules | Checked by | Proved in |
|---|---|---|
| `ControlledExecution`, implementing `AtMostOnceOrder` | `MCExecutionSafety`, 1 run, and `MCControlledExecution`, 5 runs | `ControlledExecutionProofs` |
| `CapitalPlanning` | `MCCapitalPlanning`, 3 runs | `CapitalPlanningProofs` |
| `IngestionQueue`, implementing `RetriedJobs`, and `BrokerGateway` | `MCBackground`, 1 run | `BackgroundProofs` |
| `RiskAuthorization`, `MarketData` with `PaperSimulator`, `IntelligenceCouncil`, `CandidateScanner`, `BrokerSync` with `DividendExit`, `PlanNotifications`, `LoginThrottle`, `LoginSessions`, `TradingCalendar` | `MCResearch`, 2 runs | `AuthorizationProofs` (risk, exits), `ResearchProofs` (paper, council, scanner), `AccessProofs` (throttle, sessions, notifications), `ResearchServicesProofs` (calendar, and the composition) |

`PaperSimulator` extends `MarketData`, whose records it prices by, and `DividendExit` extends
`BrokerSync`, whose snapshots it reads. Modules declare no recursive operator, so all can be proved
about. `FiniteSums` holds the lemmas on sums over finite sets (`SumFunctionOnSet` of the library's
`Functions`) and on finite sets that the proofs share. Each is proved by taking a smallest set, or the
smallest number, for which it fails, so no induction theorem is needed: that a sum unfolds, is an
integer, grows by what is added, does not depend on values outside its set, is monotone and is bounded.

A theorem is about a component's own specification (`RiskSpec`, `QueueSpec`, ...), and a last one of each
composition about the specification its run checks: a composed behaviour runs one component and leaves
the others where they started, so it is a behaviour of each.

Not composed: all passes of the worker in one instance, where the planner reads what the scan recorded in
the same pass.

## ControlledExecution

### State

`intent` and `record` are the `status` columns of the two tables, `approval` says whether
`approval_checksum` is set, `ref` is the order reference inside `actual_order`. `kill`, `breaker` and
`authCap` are the control row and the live authorization in force. `order` and `seen` are the broker's
order for each intent and what the latest usable snapshot shows of it. `calls` counts placement
requests (a history variable: no code reads it). `req[t]` is what thread `t` is doing together with
every value it loaded and will use later; `batch` is the list of open records the worker's session
holds during one pass. Checksums, symbols, prices and accounts are abstracted to the `terms` the
broker's order carries, equal or not to the intent's.

### Steps

Sessions are opened with `autoflush=False, expire_on_commit=False` (`database.py:14`), so a handler
goes on with what it loaded. Each handler is therefore two or more steps: load the rows, call out,
commit. A commit writes a column only when the new value differs from the *loaded* one (`Written`):
that is how SQLAlchemy builds its UPDATE, and it matters where a loaded value may be stale.

| Route or function | Actions |
|---|---|
| `POST intents`, `approve`, `reject` | `CreateIntent`, `ApproveLoad`/`ApproveCommit`, `RejectLoad`/`RejectCommit`, `ExpireCommit` |
| `review` | `ReviewLoad`, `ReviewCommit`, `ReviewFails` |
| `execute()` | `ExecuteLoad` (unlocked checks), `ExecuteReturns`/`ExecuteExpires`/`ExecuteSubmits` (under the row lock), then `PlaceRefused`, `PlaceUnknown`, `PlaceMismatch`, `PlaceConfirmed` or `PlaceRaises` |
| `cancel` | `CancelLoad`, then `CancelRefused`, `CancelAccepted`, or `CancelUnknown`/`AlarmCommit` |
| `reconcile`, `recover` | `ReconcileLoad`/`ReconcileCommit`, `RecoverLoad`/`RecoverBind`/`RecoverReconciles` |
| worker | `PlanExpiryLoad`, `SweepStart` (synchronize, load the list), `SweepReconciles`, `SweepSkips` |
| operator, clock, broker, machine | `OperatorAuthorizes`, `AuthorizationEnds`, `OperatorSetsControls`, `TimePasses`, `BrokerAccepts`, `BrokerRefuses`, `BrokerFills`, `OrderDies`, `Synchronizes`, `SnapshotAges`, `Dies` |

A placement request may reach the broker long after its thread gave up (`PlaceUnknown` leaves the
order `pending`). The gateway answers *rejected* only for requests that placed nothing: a 409 or 422
before the tool is called, or an error result of the tool (`broker-gateway/app/main.py` 508-524,
`gateway.py` 12-21). The broker's side, the machine and the mail are outside the repository and are
modelled by how the code uses them.

Abstractions: the rows one handler reads before its first call out are read in one step (they are
consecutive SELECTs; the gaps that matter, around gateway calls and the lock, are separate steps).
Granting a live authorization is one step. The clock is three ages per intent: evidence usable, stale,
expired; `execute()` uses the age it read first. `RECONCILIATION_ATTENTION` is accepted by two guards
and written by nothing; it is not a status of the model. A cancellation is accepted or refused freely;
references are opaque, and how the gateway hashes them is not modelled.

### What the runs ask

| Run | Instance | Question |
|---|---|---|
| `ExecutionSafety` | two setups in one run, told apart by the amount the operator authorizes: under 1, two handlers that race, without the worker, on orders that fill in part; under 2, a handler at a time beside the worker, with orders that die, fill, overfill or have other terms. Crashes and malformed answers in both | Can any interleaving submit twice (`SubmittedOnce`), forget an order (`BrokerOrderAccounted`), place without approval (`PlacedOnlyApproved`), undo a refusal (`RejectionIsFinal`), or break the promise (`KeepsPromise`)? Can stale rows of a sweep invent a fill (`LedgerFillsHappened`), lose a reference (`OpenRecordHasReference`), or doubt quietly (`DoubtStopsTrading`)? Is the proofs' invariant (`IInv`) true? 457,090 states. |
| `ExecutionProgress` | 1 handler and the worker, no faults, fairness | Is every submission decided (`SubmissionDecided`) and does every fill arrive (`FillReachesLedger`)? |
| `StuckSubmission`, `CancelledFill`, `RejectedRevived`, `LateSwitch` | violations expected | Four sentences of the documentation that the code does not keep; see *Findings*. |

*Bounds.* One intent suffices for the races: handlers of different intents share only the switches,
which any thread may set at any time, and an operator naming another intent's order in `recover` is
what the proofs cover for every number of intents. Two handlers give every pair of stale loads. `Qty` of
2 distinguishes none, partial, full and over. A notional of 1 under authorizations of 1 or 2 leaves the
ceiling either clear or withdrawn. All counters are bounded by the model (`MaxFilled`, and `calls` by
`SubmittedOnce`). `MCExecutionSafety` restricts the states (`InSetup`) to its two setups, with the kill
switch clear: it is read only together with the breaker, and `LateSwitch` is about it. Once an order was
placed the amount stays (`StaysAuthorized`), for nothing reads it then but a request to place again; if
it ended between a thread's load and its placement the state that follows, the same but for the amount,
is left out (`ExecutionProgress` has it). The proofs
have no such bound. Handlers are symmetric in the safety runs.

*Fairness* (`FairSpec`). A handler runs to its end, as its gateway call is bounded by 35 s. The broker
answers a request it received. The worker loop comes back to its broker interval and is free there
infinitely often (strong fairness of `SweepStart(TRUE)`), synchronization succeeding again and again;
the visits that follow find the snapshot fresh infinitely often, because they run seconds after it and
it is usable for 300 s (strong fairness of `SweepReconciles`). No fairness is assumed of the operator or
of handlers being called, nor that fills happen.

*Deadlock* is checked in every run.

### What is proved

`ControlledExecutionProofs` proves, for all sets of intents and handlers, any quantity, terms, caps and
faults, from the assumptions `WorkerIsNoHandler`, `NoneIsNoIntent`, `QtyAssumption` and those TLC
evaluates in every run:

- `Inductive`: `Spec => []IInv`, and from it `TypeCorrect`, `AtMostOneSubmission`, `NoForgottenOrder`,
  `ApprovedBeforePlaced`, `NoInventedFill`, `OpenRecordsTraceable`;
- the action properties `RejectionStays` and `DoubtStops`;
- `ImplementsPromise`: `Spec => KeepsPromise`, that is, AtMostOnceOrder with the belief of each record
  and the outcome of each order.

The argument. None of the safety properties is inductive: whether a commit is harmless depends on what
its thread loaded steps ago. `IInv` adds what each thread in flight relies on (`ThreadInv`: a thread that
will write the record found it past submission, or submitted it itself and nobody else is placing),
the same for the worker's list (`BatchInv`), and that record, history and broker order tell one story
(`LedgerInv`). All of it is monotone: approvals, references, posted records, the broker's orders and
their fills are never taken back (`Forward`), so a thread's reliance survives the steps of all others
(`ThreadKept`) and each action needs only its own thread's and record's case (`CommitKeeps`,
`RecordCommitKeeps`). The latter also shows that the write is lawful (`MayRecord`), which gives the
refinement and the finality of a refusal without a second case analysis (`Effect`).

Model-checked only: the two liveness properties (fairness is beyond the prover).

## CapitalPlanning

A plan reserves capital inside Aegis for the entry session of a decision. `row` is the status, the
final assessment and the reservation of each plan; `latest` the plan `capture_filled_entries` finds for
a decision; `intent`, `bought` and `position` the controlled intents of assessments, their reconciled
fills and the registered positions; `phase` where the clock stands relative to each entry session;
`fresh` and `power` the evidence and the buying power the checks read. `req[h]` is the row an API
thread loaded with what it will write, `worker` the point of the worker's loop with the rows and the
running totals it holds.

A plan is named by the terms its checksum freezes (decision, quantity and price as one notional,
rationale; session and symbol follow from the decision), because `plan_checksum` is unique: two rows
with the same terms cannot exist, and a second insert raises. The planner's rationale is fixed, and its
checksum leaves it out.

| Route or function | Actions |
|---|---|
| `POST planned-trades` | `CreateLoad`, `InsertCommit` (raises, changing nothing, if the terms exist) |
| `cancel`, `revalidate` | `CancelLoad` / `RevalidateLoad`, `UpdateCommit` |
| `reject_unpayable_plans`, `expire_missed_plans` | `RejectLoad`/`RejectCommit`, `ExpireLoad`/`ExpireCommit` (with the plan's pending intents) |
| `capture_filled_entries` | `CaptureLoad`/`CaptureCommit` |
| `create_qualified_plans` | `PlannerLoad` (capacity, candidates), per candidate `PlannerPasses`, `PlannerReserves` or `PlannerCollides`, `PlannerCommits`; `PlannerSkips` outside the scan interval |
| machine, clock, broker, ControlledExecution | `HandlerDies`, `WorkerDies`, `TimePasses`, `EvidenceAges`, `SnapshotShows`, `IntentProposed`, `IntentFilled` |

Commits write only the columns that differ from the loaded ones, as above. Consecutive SELECTs of a
handler are one step. The strategy's allocation is an input (`share`), the target per position too; the
order of the candidates is left open. A fill carries its price and its ex-date. The notification
columns of the same commits are in `PlanNotifications`.

| Run | Instance | Question |
|---|---|---|
| `CapitalRaces` | 2 decisions of one symbol, 3 sets of terms, 1 handler and the worker, crashes, moving cash | Can the plans hold more than one buying power per thread (`OverbookingBounded`), be ready on another decision's assessment (`ReadyIsAssessed`), or leave a thread with rows it cannot rely on (`PlansInv`, the inductive invariant)? 1,246,552 states. |
| `CapitalRelease` | a legacy plan that cannot pay and one that can, fairness | Is every plan whose session is over released for good (`MissedPlanReleased`), every fill registered (`FillBecomesPosition`)? 76,024 states. |
| `PlannerCollision` | violation expected | "deduplicates plans"; see *Findings*. |

*Overbooking.* Capacity is read in one statement and the row inserted in another, without a lock, by
the API's threads and by the worker, and a revalidation that loaded a plan before it was released
revives it. So plans can reserve more than the buying power, also at rest. What the code does keep is a
multiple of it: each thread relies on at most one capacity at a time. `OverbookingBounded` states that
bound.

*Bounds.* Amounts of one and a buying power of one make cash either free or reserved; three sets of
terms are one more than the two threads can justify. With one handler, both threads that can race are
there; the theorem holds for any number.

*Fairness.* A handler runs to its end; the worker's loop goes on (weak fairness of `Works`); a worker
that dies is restarted by its container and does not die before the same commit for ever (strong
fairness of the three commits). Nothing is assumed of cash, fills, or of the planner's success.

*Proved* (`CapitalPlanningProofs`, any decisions, entries, assessments and handlers, from
`FinitenessAssumption`: plans and threads are finitely many): `PlansInductive` (`Spec => []PlansInv`),
and from it `PlansTypeCorrect`, `FinalApprovalIsAssessed` and `OverbookingIsBounded`.

The status and the assessment of a row are written each on its own, so a READY written by one thread can
meet an assessment written by another. `CInv` says what makes every mixture harmless: a row that has an
assessment never loses it (`Forward`), every assessment written is of the plan's own decision (`Sound`),
a thread that saw one may rely on there being one (`Relies`), and rows are inserted only where there is
none. `WrittenIsSound` is the heart: the overlay of a sound row by sound values loaded from it is sound.

The bound on overbooking needs to count what is not reserved yet. A plan claims capital while it is
active, while a thread that will commit it holds it, and while the planner is about to insert it;
`ClaimsInv` bounds the sum of all claims, with what the planner has left to spend, by one buying power
per thread. A creation adds a claim only for the thread that begins it, which held none before; the
planner's pass begins with one buying power at most and turns it into claims; a commit, a release, a
fill or a death only gives claims up. The two liveness properties stay model-checked.

## Background services

`MCBackground` (run `BackgroundServices`, 188,718 states) checks two services with liveness. They share
no state; a behaviour runs one of them, chosen at the start (`part`), so their state spaces add up.

**IngestionQueue** (`data/queue.py`, the queue and ingestion routes). `job` holds the rows: status,
attempts, when due. The worker's `run_batch` is `StartBatch` (seeding, return of interrupted jobs, selection
of the batch), then per job `Begin` (the quota, the commit of RUNNING), `Call` (the provider), `Store` and
`Finish` or `Fail`; the API seeds (`SeedRoute`) and ingests (`IngestRoute`) beside it, and `Crash` ends
the worker between any two. `lost` counts the deaths of the worker
under each job, `byApi` the calls of the day that were not the worker's: history variables, which no
code reads. `Elapse` is a time long enough for a delay, `Midnight` resets the quota.

- `QuotaHeld`: the worker keeps to the daily limit of Alpha Vantage. The count is taken once per batch;
  crashes and a midnight within a batch must not make it spend twice.
- `KeepsLifecycle`: the queue implements `RetriedJobs`, an abstract specification in which jobs are
  queued, started, completed, retried, given up and left by a dead worker, without batches, quotas, delays
  and time. One job is held at a time and started only with an attempt left; COMPLETE and FAILED are final.
  An interrupted job is returned on the evidence of its age alone and whatever attempts it used: the
  refinement shows that no worker holds it then, and the bound is `max_attempts` and one more per death.
- `ActivationComplete`: validation creates an instrument and its core jobs in several commits;
  interrupted validations must not leave an active instrument without them. The API's
  `service.instrument()` does create instruments that were never validated, which is excluded.
- `QueueDrains`: once nothing new is seeded no quota, failure, crash or better priority holds a job
  back for ever.

**BrokerGateway** (`broker-gateway/app/main.py`, `storage.py`). One event loop: a step is what runs
between two awaits. An attempt to authorize owns a task, two futures and a nonce; `pointed` says which
attempt the module's globals point to, as the three globals are assigned together. The routes are
`ConnectStart` with its waiting (`Handlers`), `CompleteCode`, `CompleteDenied`, `CallbackCode`,
`CallbackDenied`, `DisconnectBegin`/`DisconnectEnd`, and `ReadBegin`, `ReadRefresh`, `ReadEnd` for every
use of the token. The OAuth client of the SDK is external. `quiet` marks a disconnect that no read and no
new attempt overlapped.

- `QuietDisconnect`: after such a disconnect there is no task, no token and no connected status before
  the next attempt, whatever late codes, callbacks and restarts come.
- `RetryPossible`: whatever the user does, the task of an attempt ends, so `connect_start` works again.

*Bounds.* One symbol, three kinds of jobs (discovery, a quota-bound one, one of another provider) and
batches of two make jobs compete within and across batches; two attempts, two failures and a crash reach
both the failed state and the attempt beyond the limit; one call of the API and a limit of one reach the
quota. Two attempts to authorize are what one can overtake another with; one read and one restart fall
between any two of their steps. The theorems below hold for any of these.

*Fairness.* The worker's loop never ends and time passes; the event loop resumes every task that can go
on, and the 600 s timeout of a callback expires. Nothing is assumed of the operator, of the API or of
the broker's user. Deadlock is not checked: when the bounds are used up nothing happens.

*Proved* (`BackgroundProofs`), for any constants that `QueueAssumption` and `GatewayAssumption` admit:
limits and bounds that are natural numbers. `QueueInductive`, `AttemptsAreBounded` and `QuotaIsHeld`: the
invariant says what each status tells of the attempts used, that a RUNNING job has a living worker or was interrupted,
that the jobs of a batch are QUEUED until their turn, and that the batch's own count covers the day's.
`QueueKeepsLifecycle`: that invariant makes every step one of `RetriedJobs`: rows the surroundings touch
are at most enqueued (`RowsEnter`), a batch returns only orphans because it begins when no job is held
(`StartReturns`), and a job whose turn it is has an attempt left (`BeginStarts`).
`ActivationIsComplete`: a job of quotes is completed in the commit that activates its instrument and
enqueues the core jobs, and rows only go on (`JobsGoOn`): no step makes one ABSENT again or takes
COMPLETE back. `DisconnectStaysQuiet`: after a quiet disconnect nothing is under way that could undo it.
`BackgroundTypeCorrect` and `BackgroundIsSafe` carry the types, the lifecycle and the safety properties
to `BackgroundSpec`. `AttemptsBounded`, which the lifecycle's guards imply, is proved and in no run. The
two liveness properties are only model-checked.

## Services around execution

`MCResearch` (run `ResearchServices`, 440,688 states) checks the safety of the rest; the services share
no row that these models keep, and a behaviour runs one of them, chosen at the start. A second run on the
same instance, `UnearnedEligibility`, is expected to find the council breaking its documents' promise
(`EligibleIsUndisputed`); see *Findings*.

| Module | State and steps | Property | The question |
|---|---|---|---|
| `RiskAuthorization` (`risk/`, risk routes) | policies, switches, assessments; `AssessLoad`/`AssessCommit`, `UpdateLoad`/`UpdateCommit`, `PolicyLoad`/`PolicyCommit`, `Restart` (defaults rewritten) | `TripHeld` | Does a breaker an assessment tripped hold until cleared, when commits cross? |
| | | `OneAuthorization` | Is a proposal authorized once, if no two of its assessments cross? |
| | | `OneActivePolicy` | Is one policy active, whatever creations race? |
| | | `NeverLoosened` | Can a strategy's limits or the micro-account trial weaken the global policy, other than the position limit? |
| `MarketData`, `PaperSimulator` (`data/service.py`, `quality.py`, `paper/`) | records and runs; `RunBegin`, `RunComplete`, `RunError`, `RunLost`, `QuoteAges`; `PaperLoad`/`PaperCommit` | `SerialLedger` | Is the account its opening cash with every fill booked once, and overdrawn by no purchase, unless executions overlap? |
| `IntelligenceCouncil` (`intelligence.py`) | status and reviews; `CreateArtifact`, `ReviewRoute`, `AskCodex`/`CodexAnswers`/`CodexUnavailable`, `CommitReview` | `StatusIsConsensus` | Does the status follow the reviews, unless two were in flight at once? |
| `CandidateScanner` (`candidate_scanner.py`, `strategy_engine.py`, strategy routes) | histories, versions, scan rows; `ScanBatch`, `Wait`, `HistoryChanges`, `VersionLoad`/`VersionCommit`, `UpdateScenario` | `DecisionCurrent` | Does the decision the planner reads have the outcome and the evidence of the last scan? |
| `BrokerSync`, `DividendExit` (`broker_sync/`, `dividend_exit_monitor.py`) | tries, runs, snapshots, exit plans; `SyncBegin`, `SyncError`, `SyncRefused`, `SyncStores`; `Monitor`, `Assess`, `Mark`, `WorkerDies` | `ExitEvidence` | Is an exit authorized only on a signalled position, from a snapshot that really read the positions and a quote young enough, and that of a fraction only in session? |
| | | `OneExitAuthorization` | Is it authorized at most once, however the worker dies between the two commits? |
| `PlanNotifications` (`scripts/check_attention_alert.py`) | event and status of plans, state file; `Query`, `SendNotice`, `MarkSent`, `CheckHealth`, `SendAlert`, `SaveHealth` and their failures, `PlanLoaded`/`PlanChanged` beside them | `OperatorTold` | Was every event marked SENT emailed, and does the state file keep to what was sent? |
| `LoginThrottle` (`auth.py`, `aegis_pam_bridge.py`) | attempts in memory, connections and threads of the bridge; `LoginStart`, `Allow`, `AsksPam`, `ReadFails`, `BackendRestarts` | `AttemptsSpaced` | Does the bridge admit at most its limit in any window, though the backend forgets, and does no thread ask PAM that was not admitted? |
| `LoginSessions` (`auth.py`, login routes) | the Redis hash, command by command; `WriteSession`, `ExpireSession`, `GetSession`, `RenewSession`, `DeleteSession`, `RequestDies` | `SessionBounded` | Is a request served only by a session within its lifetime and idle time and not logged out? |
| `TradingCalendar` (`data/calendar.py`, the calendar's query) | the date; `SessionCloses`, `Midnight` | `EntryOfferedDaily` | Do holidays and entry sessions agree with the exchange's rule, stated on its own? |

Exceptions named in a property (`crossed`, `overlapped`, `beside`, `overtaken`, `unsaved`, a death) are
history variables set where two steps really cross. Each marks a race the code leaves open; the
properties say that nothing else breaks the promise. The races are listed under *Observations*.

*Bounds* (`ResearchServices.cfg`). Two threads wherever the safety at stake is of threads that race: any stale load needs one other
commit, and the proved ones hold for any number. Risk: two requests of one proposal that differ in
drawdown and in the limit they ask for, two policies, one update. Paper: a fresh quote, an old one and an
inconsistent bar; orders the cash pays for once but not together, and a sale half a cent below its
commission. Council: artifacts of low impact with
stale and with fresh evidence, one of high impact; three reviewers, one of them the verifier. Scanner: two instruments
whose histories are stale, qualifying or not, two versions by one author, so that a number is never taken
meanwhile, and three rows per batch of four. Exits: a whole share
and a fraction, three datasets of which one may be missing, two synchronizations, one quote, below or at the
target, a clock from before the ex-date to after the close, one death. Notifications: two plans and one per email, so that a
rest remains; two events and two failures, which reach every step of the script. Throttle: two sources of
one attempt each and a bridge's limit of two, a restart of the backend to pass the first limit. Sessions:
an idle time shorter than the lifetime and time beyond both. Calendar: every day from December 2021, with
a New Year's Day on a Saturday, to January 2023, whose New Year's Day is observed on a Monday.

Deadlock is not checked, as above. No fairness is assumed: the run is about safety.

*Proved*, for any constants that the assumptions of the modules admit: bounds that are natural numbers,
sides, whole quantities and prices of orders (`OrderAssumption`), positive times to live
(`LoginAssumption`), policies and limits as schemas.py has them (`RiskAssumption`, below), and rules of a
strategy that are rules (`SpecAssumption`), and dates in years of the table of full moons (`CalendarAssumption`):

- `RiskInductive`, `TripsHold`, `AuthorizedOnce`, `ActiveOnce`. A creation whose version is free knows
  the active policies, because a version number once taken is never free again; an assessment nothing
  crossed knows the breaker and that its proposal has no other assessment.
- `PolicyNeverLoosened`. An authorization computed from a strategy's tightened policy would have passed
  every check of the global policy row it names, the position limit of a trial apart.
  `RiskAssumption` is what `schemas.py` admits: policy terms that are no negative numbers, amounts that are
  integers, and strategy limits for the four terms `effective_policy` can tighten.
- `CouncilInductive`, `StatusesAreConsensus`. A commit stores what its thread derived, and only if it
  differs from the status loaded earlier; of an artifact nobody else reviews both are still true.
- `NoticesInductive`, `NoticesAreTold`. Where the script is about to mark, what it read was emailed;
  where it is about to save, the operator was told what it saw.
- `LoginInductive`, `SessionsBounded`. A hash the operator was given expires later than now and at most
  the idle time after its last renewal; what a request read bounds it two commands later.
- `LedgerInductive`, `LedgerIsBooked`. An execution alone still sees, when it writes, the account it loaded
  and no order of its assessment, so it books what it checked; the sums grow by exactly that (`BookingAdds`).
- `EligibilityInductive`, `EligibilityIsApproved`: what the code keeps of the promise that
  `UnearnedEligibility` refutes. An eligible artifact is of low impact and the verifier or two people
  approved it, even where reviews run beside each other: what a thread derived its status from are
  reviews the artifact keeps, its own included, and no reviewer counts twice.
- `ScanInductive`, `DecisionsAreCurrent`. A scan leaves each row it touches with the decision of its
  outcome and evidence, new or unchanged, and a row without evidence says so until a new decision.
- `ExitInductive`, `ExitsAreEvidenced`, `ExitsAuthorizedOnce` (from `ExDateAssumption`). The mark of an
  exit tells what was true when it was assessed, though time passed and the worker may have died between
  the two commits; the invariant carries that evidence from the one to the other.
- `ThrottleInductive`, `AttemptsAreSpaced` (from `ThrottleAssumption`). The bridge keeps the last
  attempts in order and forgets one only when a window has passed, so that an attempt past its limit
  comes later than a window after the one it replaces. A thread that may still ask PAM has an admission
  of its own, so that asks never outnumber admissions; when they come is up to the lines the threads read.
- The types: `RiskTypeCorrect`, `PaperTypeCorrect`, `CouncilTypeCorrect`, `ScannerTypeCorrect`,
  `ExitTypeCorrect`, `NoticeTypeCorrect`, `ThrottleTypeCorrect`, `LoginTypeCorrect`. They relate rows: a
  verified snapshot has every required dataset and no date to come, an assessment names a policy that
  exists, an order a quote that is stored, a logged-out session one that was given. So most need what a
  thread carries between its load and its commit, and that the ingestions left RUNNING are no more than
  those begun needs the count of the runners (`DataTypesInv`).
- `OpenAsRuled`: the code opens the exchange exactly on the days on which the rule of `ExchangeOpen`, which
  looks only at month, weekday and day of the month, does. Both are brought to the first days of the year of
  a day and of the next, from which every month begins a fixed number of days (`MonthStarts`); that the
  code's Easter is the Sunday after the paschal full moon (`EasterIs`) goes by the nineteen golden numbers
  and a sum of days modulo seven. It covers every day of 1900 to 2199: another table holds outside.
- `NextSessionsCounted`, `PreviousSessionCounted`: the loops of the code return as many sessions as they
  were asked for, none left out, within the days the model looks at. Two holidays on weekdays are at least a
  week apart (`OneHolidayAWeek`), so of any seven days four are open (`WeekOpen`), and any `2n + 5` days
  hold `n` sessions (`EnoughOpen`).
- `EntriesOffered`, `OfferedDaily`: from these, on every day, which entry session an ex-date has, when its
  plan lapses and when it is shown.
- `ResearchTypeCorrect` and `ResearchIsSafe`: all of it for `ResearchSpec`, the specification of the run
  (`ServicesRun`).

So every type invariant, safety invariant and action property that a passing run checks is proved for all
constants, and so is each refinement. Only model-checked are the six liveness properties
(`SubmissionDecided`, `FillReachesLedger`, `MissedPlanReleased`, `FillBecomesPosition`, `QueueDrains`,
`RetryPossible`): they rest on fairness, and the prover has no rule for ENABLED.

## Findings

1. A crash, or a broker field that is not a number, after `SUBMITTING` was committed leaves a record
   that execute, reconcile, recover and cancel all refuse, with the breaker open (`StuckSubmission`).
2. An order that fills before its accepted cancellation arrives stays `CANCEL_REQUESTED`
   (`CancelledFill`).
3. A rejected or expired intent is revived by an approval or review that loaded it before
   (`RejectedRevived`). It still needs an approval to be placed (`PlacedOnlyApproved`).
4. `execute()` does not look at the switches again after waiting for its lock (`LateSwitch`).
5. The planner proposes again the terms of a plan that was cancelled; the unique checksum raises, the
   whole pass is rolled back, and with the same evidence the next passes fail alike
   (`PlannerCollision`).
6. An artifact becomes eligible for risk review on the verifier's approval alone, whatever people said
   before, and with stale or uncited evidence (`UnearnedEligibility`). The documents ask for unanimity and
   for a human where evidence is stale or reviewers disagree (`docs/phase-7-intelligence.md:7`,
   `docs/development-status.md:118` and `133`, ADR 0008).

## Observations

Met while modelling and left without a run of their own; a reader of the code should know of them. Where
a property exempts a race, this is the race. Some disagree with a sentence of the repository, quoted here:

- *Risk.* Two assessments of one proposal that overlap can both be authorized (`OneAuthorization` exempts
  them), although "Proposal identifiers and policy-plus-request checksums provide duplicate prevention"
  (`docs/phase-6-risk.md:11`).
- *Paper.* Overlapping orders overwrite each other's cash and can together overdraw it (`SerialLedger`
  exempts them), although "insufficient cash/positions ... fail closed" (`docs/development-status.md:141`).
- *Gateway.* A read in flight over a disconnect writes its token or its status afterwards, and a new attempt
  can start while the disconnect awaits the old one's end, and is then orphaned (`QuietDisconnect` exempts
  both), although "Disconnect now atomically cancels and awaits an active OAuth task ... and resets all
  in-memory flow references" (`docs/development-status.md:23`).
- *Notifications.* An event set between the script's SELECT and its UPDATE, or by a handler that loaded the
  plan before, is SENT without an email (`OperatorTold` exempts it), although the monitor "emails pending ...
  events, then marks delivery durably. Failed delivery remains pending for retry" (`docs/development-status.md:273`).
- *Exits.* Whole shares are authorized to be sold at any hour: `regular_session` enters only the check of
  fractional quantities (`backend/app/risk/engine.py:30`, and `tests/test_risk.py:91` wants it so),
  although for exits "fractional eligibility, regular-session ... controls remain enforced"
  (`docs/development-status.md:414`).
- *Login.* The bridge spaces what it admits, not what it asks PAM: a thread waits for its line without a
  timeout, so admissions of several windows can ask in one. `docs/decisions/authentication.md:7` says only
  that it "rate-limits".

Others contradict no sentence we know of:

- *Risk.* An operator's update that overlaps an assessment can undo the trip. `ensure_defaults` rewrites
  the active default policy at start.
- *Queue.* A run whose thread dies stays RUNNING. An instrument created by the API is active without
  validation.
- *Scanner.* A row that became NOT_READY keeps its last decision. Versions beyond the batch size are never
  scanned, and entries, ranked first, can keep the rest of the universe waiting.
- *Council.* The verifier's route commits a status derived from what it loaded before it waited for the
  model, so that of two reviews in flight at once the status may reflect one (`StatusIsConsensus` exempts
  them). One operator can give "independent" reviews under two names.
- *Paper.* The age of a quote is judged by when it was observed. A sale is not asked whether the account
  can pay its commission: one that brings less than a dollar overdraws it.
- *Exits.* A worker that dies between the assessment and the marking of its plan finds a duplicate proposal
  next time: the exit is blocked for good although it was authorized. The exit of a fraction assessed
  outside the regular session is blocked for good as well. A plan whose review is required and whose
  evidence aged is never taken up again. Two positions of one symbol are each compared with the same holding.
- *Gateway.* After a denial the task goes on waiting, which blocks a retry for up to 600 s.
- *Notifications.* A failure of the notices ends the run before the health check. A death between the alert
  and the state file, followed by a recovery, leaves the operator untold of it; the first look at the
  services is silent.
- *Sessions.* A hash whose EXPIRE failed at login stays, but nobody was given its identifier.
- *Planning.* `reject_unpayable_plans` leaves the pending intents of a plan, which `expire_missed_plans`
  expires.
- *Calendar.* The query for the dividend calendar ends two days after the last session shown, so the Monday
  ex-dates that belong to a Friday at its end are missing. Sessions that close at 1 p.m. are unknown.

## Not modelled

- The research lab: a sequential back-test over floating-point series; no interleaving, and its arithmetic
  is outside what TLC computes. For the same reason the dividend recovery estimates and the safety score.
- The provider formats: parsing of HTTP answers without state. What an ingestion stores is any set of items.
- The gateway's argument schemas, its allowlist of tools, its redaction and the hashing of order
  references; PAM, the bridge's socket protocol and the CSRF token.
- Reading routes, request schemas, tables and migrations, settings, seed data, roadmap and preferences: no
  concurrent state of their own. Constraints and session options a handler relies on are in its module.
- The browser console, shell scripts, proxy configuration.

Four hazards have no property. That overlapping paper orders lose one of the two is above, under
*Observations*. That a ledger's FILLED can regress is what the code does and nothing
forbids; `LedgerFillsHappened` shows it never overstates, `CancelledFill` that no snapshot repairs it.
Rounding at the dollar boundaries of planning is below the whole dollars the model counts. Whether the
broker knows the hashed reference a cancellation names is its own business. `PROJECT.json` says so at
each.
