--------------------------- MODULE IngestionQueue ---------------------------
(***************************************************************************)
(* The persistent ingestion queue (backend/app/data/queue.py): one worker  *)
(* seeds the control jobs of the day, returns interrupted jobs to the      *)
(* queue, selects a batch and processes it job by job, while API threads   *)
(* call providers and seed jobs on their own.  A job is RUNNING from one   *)
(* commit to a later one; the worker may die in between.                   *)
(*                                                                         *)
(* Time passes in steps long enough for a retry delay (Elapse) and over    *)
(* midnight UTC (Midnight).  Job ids, detail texts and the rows a provider *)
(* returns are left out; jobs of equal priority are taken in any order.    *)
(***************************************************************************)
EXTENDS Integers, FiniteSets, FiniteSetsExt

CONSTANTS
  Symbols,      \* listed securities
  Kinds,        \* the kinds of jobs there are
  Global,       \* the symbol of a control job
  BatchSize,    \* ingestion_worker_batch_size
  AlphaLimit,   \* alpha_vantage_daily_limit
  MaxAttempts,  \* max_attempts of a job
  LastDay,      \* bound: later days seed no control jobs
  MaxFailures,  \* bound: jobs that fail
  MaxCrashes,   \* bound: times the worker dies
  MaxApiRuns    \* bound: provider calls of the API

ASSUME QueueAssumption ==
  /\ Global \notin Symbols
  /\ BatchSize \in Nat \ {0} /\ AlphaLimit \in Nat \ {0} /\ MaxAttempts \in Nat \ {0}
  /\ {LastDay, MaxFailures, MaxCrashes, MaxApiRuns} \subseteq Nat

VARIABLES
  job,        \* ingestion_jobs, by dedupe key
  known,      \* instruments
  active,     \* of them, the active ones
  listed,     \* robinhood_validation_status in an instrument's metadata
  used,       \* Alpha Vantage runs since the start of the running batch's day
  today,      \* the same since the last midnight
  byApi,      \* of those, the runs the API made
  day,        \* the day, which buckets the dedupe keys
  batchDay,   \* the day the running batch began: its frozen now
  rolled,     \* whether midnight has passed since
  batch,      \* jobs the running batch has still to process
  current,    \* the job being processed and how far it is
  lost,       \* how often a job's worker died while it was RUNNING
  failures, crashes, apiRuns,   \* bound counters
  viaApi      \* instruments that an API ingestion created

instruments == <<known, active, listed>>
quota == <<used, today, byApi>>
clock == <<day, batchDay, rolled>>
surroundings == <<lost, failures, crashes, apiRuns, viaApi>>
queueVars == <<job, instruments, quota, clock, batch, current, surroundings>>

-----------------------------------------------------------------------------
(* Jobs                                                                    *)

(* The bucket of a key: a day, the month or week, or none for a first fetch. *)
Once == -1
Period == -2
Job(kind, s, bucket) == [kind |-> kind, sym |-> s, bucket |-> bucket]
Offered(S) == {j \in S : j.kind \in Kinds}
ControlJobs(d) == Offered(
  {Job(k, Global, d) : k \in {"directory", "listing", "freshness"}} \cup {Job("calendar", Global, 0)})
Validation(s) == Job("quotes", s, Once)
CoreJobs(s) == Offered({Job(k, s, Once) : k \in {"core", "independent"}})
FreshnessJobs(s, d) == Offered(
  {Job("quotes", s, d)} \cup {Job(k, s, Period) : k \in {"core", "independent"}})
Jobs == (UNION {ControlJobs(d) : d \in 0..LastDay})
  \cup UNION {{Validation(s)} \cup CoreJobs(s) \cup UNION {FreshnessJobs(s, d) : d \in 0..LastDay}
              : s \in Symbols}

Alpha(j) == j.kind \in {"listing", "independent"}
Priority == [directory |-> 0, listing |-> 1, calendar |-> 1, freshness |-> 2,
             quotes |-> 5, core |-> 10, independent |-> 60]

JobRow == [status: {"ABSENT", "QUEUED", "RUNNING", "COMPLETE", "FAILED"},
           due: 0..2,      \* available_at: now, later today, tomorrow
           attempts: Nat, interrupted: BOOLEAN]   \* RUNNING for over 15 minutes
NoJob == [status |-> "ABSENT", due |-> 0, attempts |-> 0, interrupted |-> FALSE]

(* enqueue: the unique dedupe key drops a job that exists, in any status.  *)
Enqueue(rows, new) ==
  [j \in Jobs |-> IF j \in new /\ rows[j].status = "ABSENT"
                  THEN [rows[j] EXCEPT !.status = "QUEUED"] ELSE rows[j]]

NoBatch == <<{}, {}, {}, {}>>
NoneRuns == [stage |-> "idle"]
Processing(j, stage) == [stage |-> stage, job |-> j]

QueueInit ==
  /\ job = [j \in Jobs |-> NoJob]
  /\ known = {} /\ active = {} /\ viaApi = {}
  /\ listed = [s \in Symbols |-> "NONE"]
  /\ used = 0 /\ today = 0 /\ byApi = 0
  /\ day = 0 /\ batchDay = 0 /\ rolled = FALSE /\ batch = NoBatch
  /\ current = NoneRuns
  /\ lost = [j \in Jobs |-> 0]
  /\ failures = 0 /\ crashes = 0 /\ apiRuns = 0

-----------------------------------------------------------------------------
(* Selecting a batch                                                       *)

Ready(rows) == {j \in Jobs : rows[j].status = "QUEUED" /\ rows[j].due = 0}

(* The first n of S: the lead symbol of the cohort first, then by priority. *)
Rank(j, lead) == (IF j.sym = lead THEN 0 ELSE 100) + Priority[j.kind]
Firsts(S, n, lead) ==
  {T \in SUBSET S : /\ Cardinality(T) = Min({n, Cardinality(S)})
                    /\ \A a \in T, b \in S \ T : Rank(a, lead) <= Rank(b, lead)}

(* _select_batch_jobs: control jobs, a validation, the cohort of the active *)
(* symbols, and whatever else is ready; the parts are processed in order.   *)
Batches(ready) ==
  UNION {UNION {LET head == control \cup validation IN
    UNION {{<<control, validation, cohort, fallback>> :
         fallback \in Firsts(ready \ (head \cup cohort),
                            BatchSize - Cardinality(head \cup cohort), Global)}
       : cohort \in UNION {Firsts({j \in ready : j.sym \in active},
                                 BatchSize - Cardinality(head), lead) : lead \in Symbols}}
    : validation \in Firsts({j \in ready : j.kind = "quotes" /\ j.sym \notin active},
                            Min({1, BatchSize - Cardinality(control)}), Global)}
    : control \in Firsts({j \in ready : j.sym = Global}, Min({2, BatchSize}), Global)}

FirstOf(parts) ==
  LET first == parts[Min({i \in 1..4 : parts[i] # {}})]
  IN {j \in first : \A i \in first : i.sym = j.sym => Priority[j.kind] <= Priority[i.kind]}
Without(parts, j) == [i \in 1..4 |-> parts[i] \ {j}]

\* Mutant: an interrupted job is not returned to the queue.
NotRecovered(row) == row
Recovered(row) ==
  IF row.status = "RUNNING" /\ row.interrupted
  THEN [row EXCEPT !.status = "QUEUED", !.due = 0, !.interrupted = FALSE] ELSE row

(* run_batch: seed the control jobs, recover interrupted jobs, select.     *)
StartBatch ==
  /\ current = NoneRuns /\ batch = NoBatch
  /\ LET seeded == Enqueue(job, ControlJobs(day))
     IN job' = [j \in Jobs |-> Recovered(seeded[j])]
  /\ batch' \in Batches(Ready(job'))
  /\ batchDay' = day /\ rolled' = FALSE /\ used' = today
  /\ UNCHANGED <<instruments, today, byApi, day, current, surroundings>>

-----------------------------------------------------------------------------
(* process_one                                                             *)

\* Mutant: the limit itself is let through.
QuotaPassed == used > AlphaLimit
QuotaSpent == used >= AlphaLimit

(* Over quota, a job waits for the day after the batch's, unattempted.     *)
Defer(j) ==
  /\ Alpha(j) /\ QuotaSpent
  /\ job' = [job EXCEPT ![j].due = IF rolled THEN 0 ELSE 2]
  /\ UNCHANGED current

Run(j) ==
  /\ ~(Alpha(j) /\ QuotaSpent)
  /\ job' = [job EXCEPT ![j].status = "RUNNING", ![j].attempts = @ + 1]
  /\ current' = Processing(j, "running")

Begin ==
  /\ current = NoneRuns /\ batch # NoBatch
  /\ \E j \in FirstOf(batch) : batch' = Without(batch, j) /\ (Defer(j) \/ Run(j))
  /\ UNCHANGED <<instruments, quota, clock, surroundings>>

(* The provider is called once the row of its run is committed.            *)
Call ==
  /\ current.stage = "running"
  /\ current' = Processing(current.job, "calling")
  /\ LET n == IF Alpha(current.job) THEN 1 ELSE 0 IN used' = used + n /\ today' = today + n
  /\ UNCHANGED <<job, instruments, byApi, clock, batch, surroundings>>

(* What the call brings is committed before the job is COMPLETE: the       *)
(* catalogue, and the jobs for the symbols found in it.                    *)
Discovers(j) == j.kind \in {"directory", "listing", "calendar"}
Listed(s) == IF s \in active THEN "VALIDATED" ELSE "QUEUED"

Store ==
  /\ current.stage = "calling"
  /\ current' = Processing(current.job, "stored")
  /\ LET j == current.job
         found == IF Discovers(j) THEN Symbols ELSE {}
         fresh == IF j.kind = "freshness" THEN active ELSE {}
     IN /\ known' = known \cup found
        /\ listed' = IF j.kind = "directory" THEN [s \in Symbols |-> Listed(s)] ELSE listed
        /\ job' = Enqueue(job, {Validation(s) : s \in found}
                               \cup UNION {FreshnessJobs(s, batchDay) : s \in fresh})
  /\ UNCHANGED <<active, quota, clock, batch, surroundings>>

(* A quote of a symbol validates it: the instrument, the jobs of its core  *)
(* datasets and the job's own status are one commit.                       *)
\* Mutant: an instrument is activated once it is discovered.
ExpandedEarly(j) == IF Discovers(j) THEN Symbols ELSE {}
Expanded(j) == IF j.kind = "quotes" THEN {j.sym} ELSE {}
CompletedRow(row) == [row EXCEPT !.status = "COMPLETE", !.interrupted = FALSE]

Finish ==
  /\ current.stage = "stored"
  /\ LET j == current.job IN
     /\ active' = active \cup (Expanded(j) \cap known)
     /\ job' = [Enqueue(job, UNION {CoreJobs(s) : s \in Expanded(j)})
                EXCEPT ![j] = CompletedRow(@)]
  /\ current' = NoneRuns
  /\ UNCHANGED <<known, listed, quota, clock, batch, surroundings>>

(* A call, its storage or the last commit fails; what was committed stays. *)
\* Mutant: the attempts never run out.
RetriedRow(row) == [row EXCEPT !.status = "QUEUED", !.due = 1, !.interrupted = FALSE]
FailedRow(row) ==
  [row EXCEPT !.status = IF row.attempts >= MaxAttempts THEN "FAILED" ELSE "QUEUED",
              !.due = 1, !.interrupted = FALSE]

Fail ==
  /\ current # NoneRuns
  /\ failures < MaxFailures /\ failures' = failures + 1
  /\ job' = [job EXCEPT ![current.job] = FailedRow(@)]
  /\ current' = NoneRuns
  /\ UNCHANGED <<instruments, quota, clock, batch, lost, crashes, apiRuns, viaApi>>

WorkerStep == StartBatch \/ Begin \/ Call \/ Store \/ Finish \/ Fail

-----------------------------------------------------------------------------
(* The API, crashes and time                                               *)

(* POST /api/data/queue/seed.                                              *)
SeedRoute ==
  /\ job' = Enqueue(job, ControlJobs(day))
  /\ UNCHANGED <<instruments, quota, clock, batch, current, surroundings>>

(* POST /api/data/ingest calls Alpha Vantage whatever the quota says, and  *)
(* creates an instrument it does not know: active, and never validated.    *)
(* A call that fails (got = {}) is counted all the same.                   *)
IngestRoute(got) ==
  /\ apiRuns < MaxApiRuns /\ apiRuns' = apiRuns + 1
  /\ used' = used + 1 /\ today' = today + 1 /\ byApi' = byApi + 1
  /\ known' = known \cup got
  /\ active' = active \cup (got \ known) /\ viaApi' = viaApi \cup (got \ known)
  /\ UNCHANGED <<job, listed, clock, batch, current, lost, failures, crashes>>

Crash ==
  /\ current # NoneRuns \/ batch # NoBatch
  /\ crashes < MaxCrashes /\ crashes' = crashes + 1
  /\ lost' = IF current = NoneRuns THEN lost ELSE [lost EXCEPT ![current.job] = @ + 1]
  /\ current' = NoneRuns /\ batch' = NoBatch
  /\ UNCHANGED <<job, instruments, quota, clock, failures, apiRuns, viaApi>>

\* Mutant: a delay is counted down past zero.
Overdue(row) == [row EXCEPT !.due = @ - 1, !.interrupted = row.status = "RUNNING"]
Waited(row) == [row EXCEPT !.due = IF @ = 0 THEN 0 ELSE @ - 1,
                           !.interrupted = row.status = "RUNNING"]
Elapse ==
  /\ job' = [j \in Jobs |-> IF job[j].due = 2 THEN job[j] ELSE Waited(job[j])]
  /\ job' # job
  /\ UNCHANGED <<instruments, quota, clock, batch, current, surroundings>>

(* Bound: no batch outlasts a second midnight.                             *)
Midnight ==
  /\ ~rolled /\ rolled' = (batch # NoBatch \/ current # NoneRuns)
  /\ day' = Min({day + 1, LastDay})
  /\ job' = [j \in Jobs |-> Waited(job[j])]
  /\ today' = 0 /\ byApi' = 0
  /\ UNCHANGED <<instruments, used, batchDay, batch, current, surroundings>>

QueueNext ==
  \/ WorkerStep \/ SeedRoute \/ Crash \/ Elapse \/ Midnight
  \/ \E s \in Symbols : IngestRoute({s}) \/ IngestRoute({})

QueueSpec == QueueInit /\ [][QueueNext]_queueVars

-----------------------------------------------------------------------------
(* Properties                                                              *)

QueueTypeOK ==
  /\ job \in [Jobs -> JobRow]
  /\ known \subseteq Symbols /\ active \subseteq known /\ viaApi \subseteq known
  /\ listed \in [Symbols -> {"NONE", "QUEUED", "VALIDATED"}]
  /\ {used, today, byApi, failures, crashes, apiRuns} \subseteq Nat
  /\ {day, batchDay} \subseteq 0..LastDay /\ rolled \in BOOLEAN
  /\ batch \in [1..4 -> SUBSET Jobs]
  /\ current = NoneRuns \/ current \in [stage: {"running", "calling", "stored"}, job: Jobs]
  /\ lost \in [Jobs -> Nat]

(* The worker never spends more than the daily limit of Alpha Vantage on a *)
(* day, across crashes, midnight in a batch and interrupted jobs; only the *)
(* API's own calls come on top.                                            *)
QuotaHeld == today - byApi <= AlphaLimit

(* A job is started at most max_attempts times, and once more for each     *)
(* time the worker died under it; a FAILED job has used its attempts up.   *)
AttemptsBounded ==
  \A j \in Jobs : /\ job[j].attempts <= MaxAttempts + lost[j]
                  /\ job[j].status = "FAILED" => job[j].attempts >= MaxAttempts

(* One job is worked on at a time, started only with an attempt left; what *)
(* is COMPLETE or FAILED stays so, a FAILED job has used its attempts up,  *)
(* and a RUNNING one is returned only when no worker holds it, whatever    *)
(* crashes, midnights, quotas and the API's routes do in between.          *)
Lifecycle == INSTANCE RetriedJobs
               WITH stage <- [j \in Jobs |-> job[j].status],
                    tries <- [j \in Jobs |-> job[j].attempts],
                    deaths <- lost,
                    held <- IF current = NoneRuns THEN {} ELSE {current.job}
KeepsLifecycle == Lifecycle!Spec

(* An active instrument has the jobs of its core datasets and was seen     *)
(* quoted, however often its validation was interrupted, unless the API    *)
(* created it: such an instrument is even listed as VALIDATED.             *)
ActivationComplete ==
  \A s \in active \ viaApi :
    /\ \A j \in CoreJobs(s) : job[j].status # "ABSENT"
    /\ \E d \in {Once} \cup 0..LastDay : job[Job("quotes", s, d)].status = "COMPLETE"

(* Once nothing new is seeded the queue drains: every job is completed or  *)
(* given up, and no crash, quota, failure or job of a better priority      *)
(* holds one back for ever.                                                *)
Drained == \A j \in Jobs : job[j].status \in {"ABSENT", "COMPLETE", "FAILED"}
QueueDrains == []<>Drained
=============================================================================
