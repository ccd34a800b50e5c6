-------------------------- MODULE BackgroundProofs --------------------------
(***************************************************************************)
(* The worker's ingestion queue: that no job is started more often than    *)
(* its attempts and the deaths of its worker allow and the queue keeps to  *)
(* the lifecycle of RetriedJobs, that the worker keeps to its daily quota, *)
(* and that an active instrument was seen quoted and has the jobs of its   *)
(* core datasets, for any symbols, kinds, batch sizes, limits and days.    *)
(* The broker gateway: that a disconnect nothing overlapped stays one, for *)
(* any number of attempts, reads and restarts.  Then that both hold of the *)
(* composition that is model-checked.                                      *)
(*                                                                         *)
(* AttemptsBounded is not inductive: whether a job may be started again    *)
(* depends on its status, a RUNNING job on whether its worker still lives, *)
(* and the jobs of a batch on being QUEUED until their turn.  QuotaHeld    *)
(* needs that the count of the batch covers the day's, and that a job past *)
(* its check still has its call to spend.  ActivationComplete needs that   *)
(* rows only go on: no step makes one ABSENT again or takes COMPLETE back. *)
(* Nor is QuietDisconnect: a token or a status could come back through a   *)
(* read in flight or an attempt the globals still point to.                *)
(***************************************************************************)
EXTENDS MCBackground, TLAPS

(* The columns the steps below write and read are there.                   *)
Shaped(row) ==
  /\ row.attempts \in Nat /\ {"status", "due", "attempts", "interrupted"} \subseteq DOMAIN row
  /\ row.status \in {"ABSENT", "QUEUED", "RUNNING", "COMPLETE", "FAILED"}
AllShaped(rows) == rows = [j \in Jobs |-> rows[j]] /\ \A j \in Jobs : Shaped(rows[j])

(* What each status says of the attempts used.                             *)
Used(row, deaths, runs) ==
  /\ row.status = "ABSENT" => row.attempts = 0
  /\ row.status = "QUEUED" => row.attempts < MaxAttempts + deaths
  /\ row.status = "RUNNING" => row.attempts < MaxAttempts + deaths + (IF runs THEN 1 ELSE 0)
  /\ row.status = "COMPLETE" => row.attempts <= MaxAttempts + deaths
  /\ row.status = "FAILED" => row.attempts \in MaxAttempts..(MaxAttempts + deaths)

Runs(j) == current # NoneRuns /\ current.job = j

RowsInv == AllShaped(job) /\ lost \in [Jobs -> Nat]
CurrentInv ==
  \/ current = NoneRuns
  \/ /\ current \in [stage: {"running", "calling", "stored"}, job: Jobs]
     /\ job[current.job].status = "RUNNING"
BatchInv ==
  /\ batch \in [1..4 -> SUBSET Jobs]
  /\ \A i \in 1..4 : \A j \in batch[i] : job[j].status = "QUEUED"
UsedInv == \A j \in Jobs : Used(job[j], lost[j], Runs(j))

QInv == RowsInv /\ CurrentInv /\ BatchInv /\ UsedInv

-----------------------------------------------------------------------------
QueuedRow(row) == [row EXCEPT !.status = "QUEUED"]

(* The operators on rows: none of them changes the attempts, and each has  *)
(* its way with the status.                                                *)
LEMMA RowShapes ==
  ASSUME NEW row, Shaped(row)
  PROVE  /\ Shaped(Recovered(row)) /\ Recovered(row).attempts = row.attempts
         /\ \/ Recovered(row).status = row.status
            \/ row.status = "RUNNING" /\ Recovered(row).status = "QUEUED"
         /\ Shaped(CompletedRow(row)) /\ CompletedRow(row).attempts = row.attempts
         /\ CompletedRow(row).status = "COMPLETE"
         /\ Shaped(FailedRow(row)) /\ FailedRow(row).attempts = row.attempts
         /\ FailedRow(row).status = IF row.attempts >= MaxAttempts THEN "FAILED" ELSE "QUEUED"
         /\ Shaped(Waited(row)) /\ Waited(row).attempts = row.attempts
         /\ Waited(row).status = row.status
         /\ Shaped(QueuedRow(row)) /\ QueuedRow(row).attempts = row.attempts
         /\ QueuedRow(row).status = "QUEUED"
<1>1. Shaped(Recovered(row)) BY DEF Recovered, Shaped
<1>2. Recovered(row).attempts = row.attempts BY DEF Recovered, Shaped
<1>3. \/ Recovered(row).status = row.status
      \/ row.status = "RUNNING" /\ Recovered(row).status = "QUEUED"
  BY DEF Recovered, Shaped
<1>4. Shaped(CompletedRow(row)) /\ CompletedRow(row).attempts = row.attempts
      /\ CompletedRow(row).status = "COMPLETE"
  BY DEF CompletedRow, Shaped
<1>5. Shaped(FailedRow(row)) BY DEF FailedRow, Shaped
<1>6. FailedRow(row).attempts = row.attempts BY DEF FailedRow, Shaped
<1>7. FailedRow(row).status = IF row.attempts >= MaxAttempts THEN "FAILED" ELSE "QUEUED"
  BY DEF FailedRow, Shaped
<1>8. Shaped(Waited(row)) BY DEF Waited, Shaped
<1>9. Waited(row).attempts = row.attempts BY DEF Waited, Shaped
<1>10. Waited(row).status = row.status BY DEF Waited, Shaped
<1>11. QueuedRow(row).attempts = row.attempts /\ QueuedRow(row).status = "QUEUED"
  BY DEF QueuedRow, Shaped
<1>12. Shaped(QueuedRow(row)) BY DEF QueuedRow, Shaped
<1>13. QED BY <1>11, <1>12, <1>1, <1>2, <1>3, <1>4, <1>5, <1>6, <1>7, <1>8, <1>9, <1>10

LEMMA EnqueueRows ==
  ASSUME NEW rows, AllShaped(rows), NEW new
  PROVE  /\ AllShaped(Enqueue(rows, new))
         /\ \A j \in Jobs :
              LET row == Enqueue(rows, new)[j] IN
              \/ row = rows[j]
              \/ rows[j].status = "ABSENT" /\ row.status = "QUEUED" /\ row.attempts = rows[j].attempts
<1>1. \A row : Shaped(row) =>
        /\ Shaped(QueuedRow(row)) /\ QueuedRow(row).status = "QUEUED"
        /\ QueuedRow(row).attempts = row.attempts
  BY RowShapes
<1>2. DOMAIN Enqueue(rows, new) = Jobs BY DEF Enqueue
<1>3. ASSUME NEW j \in Jobs
      PROVE  \/ Enqueue(rows, new)[j] = rows[j]
             \/ rows[j].status = "ABSENT" /\ Enqueue(rows, new)[j] = QueuedRow(rows[j])
  BY DEF Enqueue, QueuedRow
<1>4. Enqueue(rows, new) = [j \in Jobs |-> Enqueue(rows, new)[j]] BY DEF Enqueue
<1> HIDE DEF Enqueue
<1>5. ASSUME NEW j \in Jobs
      PROVE  /\ Shaped(Enqueue(rows, new)[j])
             /\ \/ Enqueue(rows, new)[j] = rows[j]
                \/ /\ rows[j].status = "ABSENT" /\ Enqueue(rows, new)[j].status = "QUEUED"
                   /\ Enqueue(rows, new)[j].attempts = rows[j].attempts
  <2>1. Shaped(rows[j]) BY DEF AllShaped
  <2>2. QED BY <2>1, <1>1, <1>3
<1>6. QED BY <1>4, <1>5 DEF AllShaped

(* A batch is made of jobs that are ready.                                 *)
LEMMA BatchesAreReady ==
  ASSUME NEW ready \in SUBSET Jobs, NEW parts \in Batches(ready)
  PROVE  parts \in [1..4 -> SUBSET ready]
<1>1. \A S, n, lead : \A T \in Firsts(S, n, lead) : T \subseteq S BY DEF Firsts
<1>2. PICK control, validation, cohort, fallback :
        /\ control \in Firsts({j \in ready : j.sym = Global}, Min({2, BatchSize}), Global)
        /\ validation \in Firsts({j \in ready : j.kind = "quotes" /\ j.sym \notin active},
                                 Min({1, BatchSize - Cardinality(control)}), Global)
        /\ \E lead \in Symbols :
             cohort \in Firsts({j \in ready : j.sym \in active},
                               BatchSize - Cardinality(control \cup validation), lead)
        /\ fallback \in Firsts(ready \ ((control \cup validation) \cup cohort),
                               BatchSize - Cardinality((control \cup validation) \cup cohort), Global)
        /\ parts = <<control, validation, cohort, fallback>>
  <2> DEFINE Controls == Firsts({j \in ready : j.sym = Global}, Min({2, BatchSize}), Global)
             Validations(control) ==
               Firsts({j \in ready : j.kind = "quotes" /\ j.sym \notin active},
                      Min({1, BatchSize - Cardinality(control)}), Global)
             Cohorts(head) ==
               UNION {Firsts({j \in ready : j.sym \in active}, BatchSize - Cardinality(head), lead)
                        : lead \in Symbols}
             Fallbacks(taken) == Firsts(ready \ taken, BatchSize - Cardinality(taken), Global)
  <2>1. parts \in
          UNION {UNION {UNION {{<<control, validation, cohort, fallback>> :
                     fallback \in Fallbacks((control \cup validation) \cup cohort)}
                   : cohort \in Cohorts(control \cup validation)}
                 : validation \in Validations(control)}
                : control \in Controls}
    BY Zenon DEF Batches
  <2> HIDE DEF Controls, Validations, Cohorts, Fallbacks
  <2>2. \E control \in Controls : \E validation \in Validations(control) :
          \E cohort \in Cohorts(control \cup validation) :
            \E fallback \in Fallbacks((control \cup validation) \cup cohort) :
              parts = <<control, validation, cohort, fallback>>
    <3>1. PICK control \in Controls :
            parts \in UNION {UNION {{<<control, validation, cohort, fallback>> :
                       fallback \in Fallbacks((control \cup validation) \cup cohort)}
                     : cohort \in Cohorts(control \cup validation)}
                   : validation \in Validations(control)}
      BY <2>1
    <3>2. PICK validation \in Validations(control) :
            parts \in UNION {{<<control, validation, cohort, fallback>> :
                       fallback \in Fallbacks((control \cup validation) \cup cohort)}
                     : cohort \in Cohorts(control \cup validation)}
      BY <3>1
    <3>3. QED BY <3>2
  <2>3. QED BY <2>2 DEF Controls, Validations, Cohorts, Fallbacks
<1>3. control \subseteq ready /\ validation \subseteq ready /\ cohort \subseteq ready
      /\ fallback \subseteq ready
  BY <1>1, <1>2
<1>4. QED BY <1>2, <1>3

(* The next job of a batch is one of its parts'.                           *)
LEMMA FirstIsBatched ==
  ASSUME batch \in [1..4 -> SUBSET Jobs], batch # NoBatch, NEW j \in FirstOf(batch)
  PROVE  \E i \in 1..4 : j \in batch[i]
<1> DEFINE S == {i \in 1..4 : batch[i] # {}}
<1>1. S # {} BY DEF NoBatch
<1>2. \E x \in S : \A y \in S : x <= y
  <2>1. CASE 1 \in S BY <2>1
  <2>2. CASE 1 \notin S /\ 2 \in S BY <2>2
  <2>3. CASE 1 \notin S /\ 2 \notin S /\ 3 \in S BY <2>3
  <2>4. CASE 1 \notin S /\ 2 \notin S /\ 3 \notin S BY <2>4, <1>1
  <2>5. QED BY <2>1, <2>2, <2>3, <2>4
<1>3. Min(S) \in 1..4 BY <1>2 DEF Min
<1>4. QED BY <1>3 DEF FirstOf

-----------------------------------------------------------------------------
(* Jobs may be enqueued, wait, or be kept; nothing else happens to rows    *)
(* outside the worker's own steps.                                         *)
Kept(old, new) ==
  \/ new.status = old.status /\ new.attempts = old.attempts
  \/ old.status = "ABSENT" /\ new.status = "QUEUED" /\ new.attempts = old.attempts

LEMMA KeptIsUsed ==
  ASSUME QInv, NEW j \in Jobs, NEW row, Kept(job[j], row)
  PROVE  Used(row, lost[j], Runs(j))
BY QueueAssumption DEF QInv, RowsInv, AllShaped, UsedInv, Used, Kept, Shaped

LEMMA OthersKeep ==
  ASSUME QInv, AllShaped(job'), \A j \in Jobs : Kept(job[j], job'[j]),
         UNCHANGED <<batch, current, lost>>
  PROVE  QInv'
<1>1. RowsInv' BY DEF QInv, RowsInv, AllShaped
<1>2. CurrentInv' BY DEF QInv, CurrentInv, Kept
<1>3. BatchInv' BY DEF QInv, BatchInv, Kept
<1>4. UsedInv' BY KeptIsUsed DEF UsedInv, Runs
<1>5. QED BY <1>1, <1>2, <1>3, <1>4 DEF QInv

(* A new batch finds no job running but those whose worker died.           *)
LEMMA StartKeeps ==
  ASSUME QInv, StartBatch PROVE QInv'
<1> DEFINE seeded == Enqueue(job, ControlJobs(day))
<1>1. /\ current = NoneRuns /\ UNCHANGED <<current, lost>>
      /\ job' = [j \in Jobs |-> Recovered(seeded[j])] /\ batch' \in Batches(Ready(job'))
  BY DEF StartBatch, surroundings
<1>2. /\ AllShaped(seeded)
      /\ \A j \in Jobs : Kept(job[j], seeded[j])
  BY EnqueueRows DEF QInv, RowsInv, AllShaped, Kept
<1> HIDE DEF seeded
<1>3. RowsInv' BY <1>1, <1>2, RowShapes DEF QInv, RowsInv, AllShaped
<1>4. ASSUME NEW j \in Jobs PROVE Used(job'[j], lost'[j], Runs(j)')
  <2>1. Used(seeded[j], lost[j], FALSE) BY <1>1, <1>2, KeptIsUsed DEF Runs
  <2>2. job'[j] = Recovered(seeded[j]) /\ Shaped(seeded[j]) BY <1>1, <1>2 DEF AllShaped
  <2>3. Used(job'[j], lost[j], FALSE)
    <3> DEFINE old == seeded[j]  new == job'[j]
    <3>1. /\ new.attempts = old.attempts
          /\ new.status = old.status \/ (old.status = "RUNNING" /\ new.status = "QUEUED")
      BY <2>2, RowShapes
    <3>2. Used(old, lost[j], FALSE) BY <2>1
    <3>3. old.attempts \in Nat /\ lost[j] \in Nat /\ MaxAttempts \in Nat
      BY <2>2, QueueAssumption DEF Shaped, QInv, RowsInv, AllShaped
    <3> HIDE DEF old, new
    <3>4. Used(new, lost[j], FALSE) BY <3>1, <3>2, <3>3 DEF Used
    <3>5. QED BY <3>4 DEF new
  <2>4. Runs(j)' = FALSE BY <1>1 DEF Runs
  <2>5. QED BY <1>1, <2>3, <2>4
<1>5. batch' \in [1..4 -> SUBSET Ready(job')]
  BY <1>1, BatchesAreReady DEF Ready
<1>6. BatchInv' BY <1>5 DEF BatchInv, Ready
<1>7. CurrentInv' BY <1>1 DEF CurrentInv
<1>8. QED BY <1>3, <1>4, <1>6, <1>7 DEF QInv, UsedInv

(* The job whose turn it is was QUEUED, so it has an attempt left.         *)
LEMMA BeginKeeps ==
  ASSUME QInv, Begin PROVE QInv'
<1>1. PICK j \in FirstOf(batch) : batch' = Without(batch, j) /\ (Defer(j) \/ Run(j))
  BY DEF Begin
<1>2. current = NoneRuns /\ UNCHANGED lost BY DEF Begin, surroundings
<1>3. j \in Jobs /\ job[j].status = "QUEUED"
  BY FirstIsBatched DEF Begin, QInv, BatchInv
<1>4. /\ batch' \in [1..4 -> SUBSET Jobs]
      /\ \A i \in 1..4 : batch'[i] = batch[i] \ {j}
  BY <1>1 DEF Without, QInv, BatchInv
<1>5. CASE Defer(j)
  <2>1. /\ UNCHANGED current /\ AllShaped(job')
        /\ \A k \in Jobs : job'[k].status = job[k].status /\ job'[k].attempts = job[k].attempts
    BY <1>3, <1>5 DEF Defer, QInv, RowsInv, AllShaped, Shaped
  <2>2. UsedInv' BY <1>2, <2>1, KeptIsUsed DEF UsedInv, Runs, Kept
  <2>3. BatchInv' BY <1>4, <2>1 DEF QInv, BatchInv
  <2>4. CurrentInv' BY <1>2, <2>1 DEF CurrentInv
  <2>5. QED BY <1>2, <2>1, <2>2, <2>3, <2>4 DEF QInv, RowsInv
<1>6. CASE Run(j)
  <2>1. /\ current' = Processing(j, "running") /\ AllShaped(job')
        /\ job'[j].status = "RUNNING" /\ job'[j].attempts = job[j].attempts + 1
        /\ \A k \in Jobs \ {j} : job'[k] = job[k]
    <3> DEFINE row == [job[j] EXCEPT !.status = "RUNNING", !.attempts = @ + 1]
    <3>1. Shaped(job[j]) BY <1>3 DEF QInv, RowsInv, AllShaped
    <3>2. Shaped(row) /\ row.status = "RUNNING" /\ row.attempts = job[j].attempts + 1
      BY <3>1 DEF Shaped
    <3>3. current' = Processing(j, "running") /\ job' = [job EXCEPT ![j] = row]
      BY <1>6 DEF Run
    <3> HIDE DEF row
    <3>4. QED BY <1>3, <3>2, <3>3 DEF QInv, RowsInv, AllShaped
  <2>2. current' \in [stage: {"running", "calling", "stored"}, job: Jobs] /\ current'.job = j
        /\ current' # NoneRuns
    BY <1>3, <2>1 DEF Processing, NoneRuns
  <2>3. ASSUME NEW k \in Jobs PROVE Used(job'[k], lost'[k], Runs(k)')
    <3>1. CASE k = j
      <4>1. job[j].attempts < MaxAttempts + lost[j] /\ job[j].attempts \in Nat /\ lost[j] \in Nat
        BY <1>3 DEF QInv, RowsInv, AllShaped, UsedInv, Used, Shaped
      <4>2. QED BY <1>2, <2>1, <2>2, <3>1, <4>1, QueueAssumption DEF Used, Runs
    <3>2. CASE k # j
      <4>1. Runs(k) = FALSE /\ Runs(k)' = FALSE BY <1>2, <2>2, <3>2 DEF Runs
      <4>2. QED BY <1>2, <2>1, <3>2, <4>1 DEF QInv, UsedInv
    <3>3. QED BY <3>1, <3>2
  <2>4. BatchInv' BY <1>4, <2>1 DEF QInv, BatchInv
  <2>5. QED BY <1>2, <2>1, <2>2, <2>3, <2>4 DEF QInv, RowsInv, AllShaped, CurrentInv, UsedInv
<1>7. QED BY <1>1, <1>5, <1>6

LEMMA CallKeeps ==
  ASSUME QInv, Call PROVE QInv'
<1>1. UNCHANGED <<job, batch, lost>> /\ current' = Processing(current.job, "calling")
      /\ current # NoneRuns
  BY DEF Call, surroundings, NoneRuns
<1>2. current' \in [stage: {"running", "calling", "stored"}, job: Jobs]
      /\ current'.job = current.job /\ current' # NoneRuns
  BY <1>1 DEF Processing, NoneRuns, QInv, CurrentInv
<1>3. UsedInv' BY <1>1, <1>2 DEF QInv, UsedInv, Runs
<1>4. QED BY <1>1, <1>2, <1>3 DEF QInv, RowsInv, AllShaped, CurrentInv, BatchInv

LEMMA StoreKeeps ==
  ASSUME QInv, Store PROVE QInv'
<1>1. PICK new : job' = Enqueue(job, new)
  BY DEF Store
<1>2. UNCHANGED <<batch, lost>> /\ current' = Processing(current.job, "stored")
      /\ current # NoneRuns
  BY DEF Store, surroundings, NoneRuns
<1>3. AllShaped(job') /\ \A j \in Jobs : Kept(job[j], job'[j])
  BY <1>1, EnqueueRows DEF QInv, RowsInv, AllShaped, Kept
<1>4. current' \in [stage: {"running", "calling", "stored"}, job: Jobs]
      /\ current'.job = current.job /\ current' # NoneRuns
  BY <1>2 DEF Processing, NoneRuns, QInv, CurrentInv
<1>5. UsedInv' BY <1>2, <1>3, <1>4, KeptIsUsed DEF UsedInv, Runs
<1>6. CurrentInv' BY <1>2, <1>3, <1>4 DEF QInv, CurrentInv, Kept
<1>7. BatchInv' BY <1>2, <1>3 DEF QInv, BatchInv, Kept
<1>8. QED BY <1>2, <1>3, <1>5, <1>6, <1>7 DEF QInv, RowsInv, AllShaped

(* A job that ends is COMPLETE, or FAILED with its attempts used up, or    *)
(* queued with one left.                                                   *)
LEMMA EndKeeps ==
  ASSUME QInv, Finish \/ Fail PROVE QInv'
<1> DEFINE j == current.job
<1>1. current # NoneRuns /\ current' = NoneRuns /\ UNCHANGED <<batch, lost>>
  BY DEF Finish, Fail, surroundings, NoneRuns
<1>2. j \in Jobs /\ job[j].status = "RUNNING" BY <1>1 DEF QInv, CurrentInv
<1>3. PICK new, row :
        /\ job' = [Enqueue(job, new) EXCEPT ![j] = row]
        /\ row = CompletedRow(Enqueue(job, new)[j]) \/ row = FailedRow(Enqueue(job, new)[j])
  <2>1. CASE Finish BY <2>1 DEF Finish
  <2>2. CASE Fail
    <3>1. Enqueue(job, {}) = job BY DEF Enqueue, QInv, RowsInv, AllShaped
    <3>2. job' = [job EXCEPT ![j] = FailedRow(job[j])] BY <2>2 DEF Fail
    <3>3. QED BY <3>1, <3>2
  <2>3. QED BY <2>1, <2>2
<1>4. /\ AllShaped(Enqueue(job, new)) /\ Enqueue(job, new)[j] = job[j]
      /\ \A k \in Jobs : Kept(job[k], Enqueue(job, new)[k])
  BY <1>2, EnqueueRows DEF QInv, RowsInv, AllShaped, Kept
<1>5. /\ AllShaped(job') /\ job'[j] = row
      /\ \A k \in Jobs \ {j} : Kept(job[k], job'[k])
  BY <1>2, <1>3, <1>4, RowShapes DEF AllShaped
<1>6. ASSUME NEW k \in Jobs PROVE Used(job'[k], lost'[k], Runs(k)')
  <2>1. Runs(k)' = FALSE BY <1>1 DEF Runs
  <2>2. CASE k = j
    <3>1. job[j].attempts <= MaxAttempts + lost[j] /\ job[j].attempts \in Nat /\ lost[j] \in Nat
          /\ Shaped(job[j])
      BY <1>1, <1>2, QueueAssumption DEF QInv, RowsInv, AllShaped, UsedInv, Used, Runs, Shaped
    <3>2. row = CompletedRow(job[j]) \/ row = FailedRow(job[j]) BY <1>3, <1>4
    <3>3. Used(row, lost[j], FALSE)
      BY <3>1, <3>2, RowShapes, QueueAssumption DEF Used
    <3>4. QED BY <1>1, <1>5, <2>1, <2>2, <3>3
  <2>3. CASE k # j
    <3>1. Runs(k) = FALSE BY <2>3 DEF Runs
    <3>2. QED BY <1>1, <1>5, <2>1, <2>3, <3>1, KeptIsUsed
  <2>4. QED BY <2>2, <2>3
<1>7. BatchInv' BY <1>1, <1>2, <1>5 DEF QInv, BatchInv, Kept
<1>8. QED BY <1>1, <1>5, <1>6, <1>7 DEF QInv, RowsInv, AllShaped, UsedInv, CurrentInv

(* A worker that dies under a job pays for the attempt it leaves behind.   *)
LEMMA CrashKeeps ==
  ASSUME QInv, Crash PROVE QInv'
<1>1. current' = NoneRuns /\ batch' = NoBatch /\ UNCHANGED job
      /\ lost' = IF current = NoneRuns THEN lost ELSE [lost EXCEPT ![current.job] = @ + 1]
  BY DEF Crash
<1>2. lost' \in [Jobs -> Nat] BY <1>1 DEF QInv, RowsInv, AllShaped, CurrentInv
<1>3. ASSUME NEW j \in Jobs PROVE Used(job'[j], lost'[j], Runs(j)')
  <2>1. Runs(j)' = FALSE BY <1>1 DEF Runs
  <2>2. Used(job[j], lost[j], Runs(j)) BY DEF QInv, UsedInv
  <2>3. CASE Runs(j)
    <3>1. lost'[j] = lost[j] + 1 BY <1>1, <2>3 DEF Runs, QInv, RowsInv, AllShaped
    <3>2. job[j].status = "RUNNING" /\ job[j].attempts \in Nat /\ lost[j] \in Nat
      BY <2>3 DEF Runs, QInv, RowsInv, AllShaped, CurrentInv, Shaped
    <3>3. QED BY <1>1, <2>1, <2>2, <2>3, <3>1, <3>2, QueueAssumption DEF Used
  <2>4. CASE ~Runs(j)
    <3>1. lost'[j] = lost[j] BY <1>1, <2>4 DEF Runs, QInv, RowsInv, AllShaped, CurrentInv
    <3>2. QED BY <1>1, <2>1, <2>2, <2>4, <3>1 DEF Used
  <2>5. QED BY <2>3, <2>4
<1>4. BatchInv' BY <1>1 DEF BatchInv, NoBatch
<1>5. QED BY <1>1, <1>2, <1>3, <1>4 DEF QInv, RowsInv, AllShaped, CurrentInv, UsedInv

(* Seeding, the API's own runs and time keep what the rows say.            *)
LEMMA SurroundingsKeep ==
  ASSUME QInv, SeedRoute \/ Elapse \/ Midnight
           \/ \E s \in Symbols : IngestRoute({s}) \/ IngestRoute({})
  PROVE  QInv'
<1>1. UNCHANGED <<batch, current, lost>>
  BY DEF SeedRoute, Elapse, Midnight, IngestRoute, surroundings
<1>2. AllShaped(job') /\ \A j \in Jobs : Kept(job[j], job'[j])
  <2>1. CASE SeedRoute BY <2>1, EnqueueRows DEF SeedRoute, QInv, RowsInv, AllShaped, Kept
  <2>2. CASE Elapse BY <2>2, RowShapes DEF Elapse, QInv, RowsInv, AllShaped, Kept
  <2>3. CASE Midnight BY <2>3, RowShapes DEF Midnight, QInv, RowsInv, AllShaped, Kept
  <2>4. CASE \E s \in Symbols : IngestRoute({s}) \/ IngestRoute({})
    BY <2>4 DEF IngestRoute, QInv, RowsInv, AllShaped, Kept
  <2>5. QED BY <2>1, <2>2, <2>3, <2>4
<1>3. QED BY <1>1, <1>2, OthersKeep

-----------------------------------------------------------------------------
(* Every step of the worker, the API and time keeps the invariant.         *)
THEOREM QueueInductive == QueueSpec => []QInv
<1>1. QueueInit => QInv
  <2> SUFFICES ASSUME QueueInit PROVE QInv OBVIOUS
  <2>1. AllShaped(job) /\ \A j \in Jobs : job[j].status = "ABSENT" /\ job[j].attempts = 0
    <3>1. Shaped(NoJob) /\ NoJob.status = "ABSENT" /\ NoJob.attempts = 0 BY DEF NoJob, Shaped
    <3>2. job = [j \in Jobs |-> NoJob] BY DEF QueueInit
    <3>3. QED BY <3>1, <3>2 DEF AllShaped
  <2>2. batch = <<{}, {}, {}, {}>> /\ current = NoneRuns /\ lost = [j \in Jobs |-> 0]
    BY DEF QueueInit, NoBatch
  <2>3. BatchInv BY <2>2 DEF BatchInv
  <2>4. QED BY <2>1, <2>2, <2>3 DEF QInv, RowsInv, AllShaped, CurrentInv, UsedInv, Used
<1>2. QInv /\ [QueueNext]_queueVars => QInv'
  <2>1. ASSUME QInv, QueueNext PROVE QInv'
    BY <2>1, StartKeeps, BeginKeeps, CallKeeps, StoreKeeps, EndKeeps, CrashKeeps, SurroundingsKeep
    DEF QueueNext, WorkerStep
  <2>2. ASSUME QInv, UNCHANGED queueVars PROVE QInv'
    BY <2>2 DEF queueVars, surroundings, QInv, RowsInv, AllShaped, CurrentInv, BatchInv, UsedInv, Runs
  <2>3. QED BY <2>1, <2>2
<1>3. QED BY <1>1, <1>2, PTL DEF QueueSpec

(* A job is started at most max_attempts times and once more per death of  *)
(* its worker, and FAILED only when its attempts are used up (process_one  *)
(* and run_batch).                                                         *)
THEOREM AttemptsAreBounded == QueueSpec => []AttemptsBounded
<1>1. QInv => AttemptsBounded
  <2> SUFFICES ASSUME QInv, NEW j \in Jobs
               PROVE  /\ job[j].attempts <= MaxAttempts + lost[j]
                      /\ job[j].status = "FAILED" => job[j].attempts >= MaxAttempts
    BY DEF AttemptsBounded
  <2>1. Used(job[j], lost[j], Runs(j)) BY DEF QInv, UsedInv
  <2>2. /\ job[j].attempts \in Nat /\ lost[j] \in Nat /\ MaxAttempts \in Nat
        /\ job[j].status \in {"ABSENT", "QUEUED", "RUNNING", "COMPLETE", "FAILED"}
    BY QueueAssumption DEF QInv, RowsInv, AllShaped, Shaped
  <2>3. QED BY <2>1, <2>2 DEF Used
<1>2. QED BY QueueInductive, <1>1, PTL

-----------------------------------------------------------------------------
(* The promise: IngestionQueue implements RetriedJobs                      *)

Stages(rows) == [j \in Jobs |-> rows[j].status]
Starts(rows) == [j \in Jobs |-> rows[j].attempts]
HeldJob(now) == IF now = NoneRuns THEN {} ELSE {now.job}

(* Rows that are enqueued, returned or kept are an entry of the promise,   *)
(* of no job where none changed.                                           *)
LEMMA RowsEnter ==
  ASSUME HeldJob(current') = HeldJob(current), UNCHANGED lost,
         \A j \in Jobs : \/ Kept(job[j], job'[j])
                         \/ /\ HeldJob(current) = {} /\ job[j].status = "RUNNING"
                            /\ job'[j].status = "QUEUED" /\ job'[j].attempts = job[j].attempts
  PROVE  Lifecycle!Enter
<1> DEFINE S == {j \in Jobs : job'[j].status # job[j].status}
<1>1. \A j \in S : /\ job'[j].status = "QUEUED"
                   /\ \/ job[j].status = "ABSENT"
                      \/ HeldJob(current) = {} /\ job[j].status = "RUNNING"
  BY DEF Kept
<1>2. S \in SUBSET (Lifecycle!New \cup Lifecycle!Orphans)
  BY <1>1 DEF Lifecycle!New, Lifecycle!Orphans, HeldJob
<1>3. Stages(job') = Lifecycle!Queued(S) BY <1>1 DEF Lifecycle!Queued, Stages
<1>4. Starts(job') = Starts(job) BY DEF Starts, Kept
<1> HIDE DEF S
<1>5. QED BY <1>2, <1>3, <1>4 DEF Lifecycle!Enter, Stages, Starts, HeldJob

(* A batch begins while no job is held: what it returns are orphans.       *)
LEMMA StartReturns ==
  ASSUME QInv, StartBatch PROVE Lifecycle!Enter
<1> DEFINE seeded == Enqueue(job, ControlJobs(day))
<1>1. current = NoneRuns /\ UNCHANGED <<current, lost>>
      /\ job' = [j \in Jobs |-> Recovered(seeded[j])]
  BY DEF StartBatch, surroundings
<1>2. AllShaped(seeded) /\ \A j \in Jobs : Kept(job[j], seeded[j])
  BY EnqueueRows DEF QInv, RowsInv, AllShaped, Kept
<1> HIDE DEF seeded
<1>3. ASSUME NEW j \in Jobs
      PROVE  \/ Kept(job[j], job'[j])
             \/ /\ HeldJob(current) = {} /\ job[j].status = "RUNNING"
                /\ job'[j].status = "QUEUED" /\ job'[j].attempts = job[j].attempts
  <2>1. job'[j] = Recovered(seeded[j]) /\ Shaped(seeded[j]) /\ Kept(job[j], seeded[j])
    BY <1>1, <1>2 DEF AllShaped
  <2>2. /\ job'[j].attempts = seeded[j].attempts
        /\ \/ job'[j].status = seeded[j].status
           \/ seeded[j].status = "RUNNING" /\ job'[j].status = "QUEUED"
    BY <2>1, RowShapes
  <2>3. QED BY <1>1, <2>1, <2>2 DEF Kept, HeldJob
<1>4. QED BY <1>1, <1>3, RowsEnter

LEMMA BeginStarts ==
  ASSUME QInv, Begin PROVE Lifecycle!Enter \/ \E j \in Jobs : Lifecycle!Start(j)
<1>1. PICK j \in FirstOf(batch) : Defer(j) \/ Run(j) BY DEF Begin
<1>2. current = NoneRuns /\ UNCHANGED lost BY DEF Begin, surroundings
<1>3. j \in Jobs /\ job[j].status = "QUEUED" /\ Shaped(job[j])
  BY FirstIsBatched DEF Begin, QInv, BatchInv, RowsInv, AllShaped
<1>4. CASE Defer(j)
  <2>1. UNCHANGED current /\ \A k \in Jobs : Kept(job[k], job'[k])
    BY <1>3, <1>4 DEF Defer, QInv, RowsInv, AllShaped, Shaped, Kept
  <2>2. QED BY <1>2, <2>1, RowsEnter
<1>5. CASE Run(j)
  <2> DEFINE row == [job[j] EXCEPT !.status = "RUNNING", !.attempts = @ + 1]
  <2>1. row.status = "RUNNING" /\ row.attempts = job[j].attempts + 1 BY <1>3 DEF Shaped
  <2>2. job' = [job EXCEPT ![j] = row] /\ current' = Processing(j, "running")
    BY <1>5 DEF Run
  <2> HIDE DEF row
  <2>3. job'[j] = row /\ \A k \in Jobs \ {j} : job'[k] = job[k]
    BY <1>3, <2>2 DEF QInv, RowsInv, AllShaped
  <2>4. Stages(job') = [Stages(job) EXCEPT ![j] = "RUNNING"]
    BY <2>1, <2>3 DEF Stages
  <2>5. Starts(job') = [Starts(job) EXCEPT ![j] = @ + 1] BY <1>3, <2>1, <2>3 DEF Starts
  <2>6. HeldJob(current) = {} /\ HeldJob(current') = {j}
    BY <1>2, <2>2 DEF HeldJob, Processing, NoneRuns
  <2>7. job[j].attempts < MaxAttempts + lost[j] BY <1>3 DEF QInv, UsedInv, Used
  <2>8. Lifecycle!Start(j)
    BY <1>2, <1>3, <2>4, <2>5, <2>6, <2>7 DEF Lifecycle!Start, Stages, Starts, HeldJob
  <2>9. QED BY <1>3, <2>8
<1>6. QED BY <1>1, <1>4, <1>5

LEMMA FinishCompletes ==
  ASSUME QInv, Finish PROVE \E j \in Jobs : Lifecycle!Complete(j)
<1>0. PICK done : done = current.job OBVIOUS
<1>1. current # NoneRuns /\ current' = NoneRuns /\ UNCHANGED lost
  BY DEF Finish, surroundings, NoneRuns
<1>2. done \in Jobs /\ job[done].status = "RUNNING" BY <1>0, <1>1 DEF QInv, CurrentInv
<1>3. PICK new : job' = [Enqueue(job, new) EXCEPT ![done] = CompletedRow(Enqueue(job, new)[done])]
  BY <1>0 DEF Finish
<1> DEFINE rows == Enqueue(job, new)
           S == {k \in Jobs : rows[k].status # job[k].status}
<1>4. AllShaped(rows) /\ \A k \in Jobs : Kept(job[k], rows[k])
  BY EnqueueRows DEF QInv, RowsInv, AllShaped, Kept
<1>5. job' = [rows EXCEPT ![done] = CompletedRow(rows[done])] BY <1>3
<1> HIDE DEF rows
<1>6. job'[done] = CompletedRow(rows[done]) /\ \A k \in Jobs \ {done} : job'[k] = rows[k]
  BY <1>2, <1>4, <1>5 DEF AllShaped
<1>7. job'[done].status = "COMPLETE" /\ job'[done].attempts = rows[done].attempts
  BY <1>2, <1>4, <1>6, RowShapes DEF AllShaped
<1>8. \A k \in Jobs : rows[k].attempts = job[k].attempts BY <1>4 DEF Kept
<1>9. Starts(job') = Starts(job) BY <1>6, <1>7, <1>8 DEF Starts
<1>10. \A k \in S : job[k].status = "ABSENT" /\ rows[k].status = "QUEUED" BY <1>4 DEF Kept
<1>11. S \in SUBSET Lifecycle!New BY <1>10 DEF Lifecycle!New
<1>12. Lifecycle!Queued(S) = Stages(rows) BY <1>10 DEF Lifecycle!Queued, Stages
<1> HIDE DEF S
<1>13. Stages(job') = [Stages(rows) EXCEPT ![done] = "COMPLETE"]
  BY <1>2, <1>6, <1>7 DEF Stages
<1>14. HeldJob(current) = {done} /\ HeldJob(current') = {} BY <1>0, <1>1 DEF HeldJob
<1>15. Lifecycle!Complete(done)
  BY <1>1, <1>9, <1>11, <1>12, <1>13, <1>14 DEF Lifecycle!Complete, Stages, Starts, HeldJob
<1>16. QED BY <1>2, <1>15

LEMMA FailFails ==
  ASSUME QInv, Fail PROVE \E j \in Jobs : Lifecycle!Fail(j)
<1>0. PICK failed : failed = current.job OBVIOUS
<1>1. current # NoneRuns /\ current' = NoneRuns /\ UNCHANGED lost
      /\ job' = [job EXCEPT ![failed] = FailedRow(job[failed])]
  BY <1>0 DEF Fail
<1>2. failed \in Jobs BY <1>0, <1>1 DEF QInv, CurrentInv
<1>3. Shaped(job[failed]) /\ job[failed].attempts \in Nat /\ MaxAttempts \in Nat
  BY <1>2, QueueAssumption DEF QInv, RowsInv, AllShaped, Shaped
<1>4. /\ job'[failed].attempts = job[failed].attempts
      /\ job'[failed].status = IF job[failed].attempts < MaxAttempts THEN "QUEUED" ELSE "FAILED"
  <2>1. job'[failed] = FailedRow(job[failed]) BY <1>1, <1>2 DEF QInv, RowsInv, AllShaped
  <2>2. QED BY <1>3, <2>1, RowShapes
<1>5. \A k \in Jobs \ {failed} : job'[k] = job[k] BY <1>1 DEF QInv, RowsInv, AllShaped
<1>6. Starts(job') = Starts(job) BY <1>4, <1>5 DEF Starts
<1>7. Stages(job') =
        [Stages(job) EXCEPT ![failed] = IF Starts(job)[failed] < MaxAttempts THEN "QUEUED" ELSE "FAILED"]
  BY <1>2, <1>4, <1>5 DEF Stages, Starts
<1>8. HeldJob(current) = {failed} /\ HeldJob(current') = {} BY <1>0, <1>1 DEF HeldJob
<1>9. Lifecycle!Fail(failed)
  BY <1>1, <1>6, <1>7, <1>8 DEF Lifecycle!Fail, Stages, Starts, HeldJob
<1>10. QED BY <1>2, <1>9

LEMMA CrashDies ==
  ASSUME QInv, Crash PROVE Lifecycle!Enter \/ \E j \in Jobs : Lifecycle!Die(j)
<1>1. current' = NoneRuns /\ UNCHANGED job
      /\ lost' = IF current = NoneRuns THEN lost ELSE [lost EXCEPT ![current.job] = @ + 1]
  BY DEF Crash
<1>2. CASE current = NoneRuns
  <2>1. HeldJob(current') = HeldJob(current) /\ UNCHANGED lost BY <1>1, <1>2
  <2>2. \A j \in Jobs : Kept(job[j], job'[j]) BY <1>1 DEF Kept
  <2>3. QED BY <2>1, <2>2, RowsEnter
<1>3. CASE current # NoneRuns
  <2>1. current.job \in Jobs BY <1>3 DEF QInv, CurrentInv
  <2>2. HeldJob(current) = {current.job} /\ HeldJob(current') = {} BY <1>1, <1>3 DEF HeldJob
  <2>3. Lifecycle!Die(current.job)
    BY <1>1, <1>3, <2>2 DEF Lifecycle!Die, HeldJob
  <2>4. QED BY <2>1, <2>3
<1>4. QED BY <1>2, <1>3

(* Calls, storage, seeding, the API's runs and time at most enqueue.       *)
LEMMA OthersEnter ==
  ASSUME QInv, Call \/ Store \/ SeedRoute \/ Elapse \/ Midnight
                 \/ \E s \in Symbols : IngestRoute({s}) \/ IngestRoute({})
  PROVE  Lifecycle!Enter
<1>1. UNCHANGED lost
  BY DEF Call, Store, SeedRoute, Elapse, Midnight, IngestRoute, surroundings
<1>2. HeldJob(current') = HeldJob(current)
  <2>1. CASE Call \/ Store
    <3>1. current # NoneRuns /\ \E stage : current' = Processing(current.job, stage)
      BY <2>1 DEF Call, Store, NoneRuns
    <3>2. current' # NoneRuns /\ current'.job = current.job BY <3>1 DEF Processing, NoneRuns
    <3>3. QED BY <3>1, <3>2 DEF HeldJob
  <2>2. CASE ~(Call \/ Store)
    BY <2>2 DEF SeedRoute, Elapse, Midnight, IngestRoute, surroundings
  <2>3. QED BY <2>1, <2>2
<1>3. \A j \in Jobs : Kept(job[j], job'[j])
  <2>1. CASE SeedRoute \/ Store
    <3>1. PICK new : job' = Enqueue(job, new) BY <2>1 DEF SeedRoute, Store
    <3>2. QED BY <3>1, EnqueueRows DEF QInv, RowsInv, AllShaped, Kept
  <2>2. CASE Elapse BY <2>2, RowShapes DEF Elapse, QInv, RowsInv, AllShaped, Kept
  <2>3. CASE Midnight BY <2>3, RowShapes DEF Midnight, QInv, RowsInv, AllShaped, Kept
  <2>4. CASE Call \/ \E s \in Symbols : IngestRoute({s}) \/ IngestRoute({})
    BY <2>4 DEF Call, IngestRoute, Kept
  <2>5. QED BY <2>1, <2>2, <2>3, <2>4
<1>4. QED BY <1>1, <1>2, <1>3, RowsEnter

(* With all its batches, quotas, crashes and routes the queue does what    *)
(* RetriedJobs says of a job and no more (queue.py).                       *)
THEOREM QueueKeepsLifecycle == QueueSpec => KeepsLifecycle
<1>1. QueueInit => Lifecycle!Init
  <2> SUFFICES ASSUME QueueInit PROVE Lifecycle!Init OBVIOUS
  <2>1. job = [j \in Jobs |-> NoJob] /\ current = NoneRuns /\ lost = [j \in Jobs |-> 0]
    BY DEF QueueInit
  <2>2. NoJob.status = "ABSENT" /\ NoJob.attempts = 0 BY DEF NoJob
  <2>3. QED BY <2>1, <2>2 DEF Lifecycle!Init
<1>2. QInv /\ [QueueNext]_queueVars => [Lifecycle!Next]_(Lifecycle!vars)
  <2> SUFFICES ASSUME QInv, [QueueNext]_queueVars PROVE [Lifecycle!Next]_(Lifecycle!vars)
    OBVIOUS
  <2>1. CASE QueueNext
    <3>1. Lifecycle!Next
      BY <2>1, StartReturns, BeginStarts, FinishCompletes, FailFails, CrashDies, OthersEnter
      DEF QueueNext, WorkerStep, Lifecycle!Next
    <3>2. QED BY <3>1
  <2>2. CASE UNCHANGED queueVars BY <2>2 DEF queueVars, surroundings, Lifecycle!vars
  <2>3. QED BY <2>1, <2>2
<1>3. QED BY <1>1, <1>2, QueueInductive, PTL DEF QueueSpec, KeepsLifecycle, Lifecycle!Spec

-----------------------------------------------------------------------------
(* The running batch counts at least the calls of the day, and a job past  *)
(* the check has its call left.                                            *)
QuotaInv ==
  /\ {used, today, byApi} \subseteq Nat /\ byApi <= today /\ today <= used
  /\ QuotaHeld
  /\ current.stage = "running" /\ Alpha(current.job) => today - byApi < AlphaLimit

(* The daily limit of Alpha Vantage is kept but for what the API's routes  *)
(* call on their own (_alpha_quota_exhausted and process_one).             *)
THEOREM QuotaIsHeld == QueueSpec => []QuotaHeld
<1>1. QueueInit => QuotaInv
  BY QueueAssumption DEF QueueInit, QuotaInv, QuotaHeld, NoneRuns
<1>2. QuotaInv /\ [QueueNext]_queueVars => QuotaInv'
  <2> SUFFICES ASSUME QuotaInv, [QueueNext]_queueVars PROVE QuotaInv' OBVIOUS
  <2>1. CASE StartBatch
    BY <2>1 DEF StartBatch, QuotaInv, QuotaHeld, NoneRuns
  <2>2. CASE Begin
    <3>1. PICK j \in FirstOf(batch) : Defer(j) \/ Run(j) BY <2>2 DEF Begin
    <3>2. UNCHANGED <<used, today, byApi>> BY <2>2 DEF Begin, quota
    <3>3. CASE Defer(j) BY <3>2, <3>3 DEF Defer, QuotaInv, QuotaHeld
    <3>4. CASE Run(j)
      <4>1. current' = [stage |-> "running", job |-> j] /\ (Alpha(j) => ~(used >= AlphaLimit))
        BY <3>4 DEF Run, Processing, QuotaSpent
      <4>2. QED BY <3>2, <4>1, QueueAssumption DEF QuotaInv, QuotaHeld
    <3>5. QED BY <3>1, <3>3, <3>4
  <2>3. CASE Call
    <3>1. current'.stage = "calling" BY <2>3 DEF Call, Processing
    <3>2. QED BY <2>3, <3>1, QueueAssumption DEF Call, QuotaInv, QuotaHeld
  <2>4. CASE Store \/ Finish \/ Fail \/ Crash
    <3>1. UNCHANGED <<used, today, byApi>> BY <2>4 DEF Store, Finish, Fail, Crash, quota
    <3>2. current'.stage # "running"
      BY <2>4 DEF Store, Finish, Fail, Crash, Processing, NoneRuns
    <3>3. QED BY <3>1, <3>2 DEF QuotaInv, QuotaHeld
  <2>5. CASE SeedRoute \/ Elapse \/ UNCHANGED queueVars
    BY <2>5 DEF SeedRoute, Elapse, queueVars, quota, QuotaInv, QuotaHeld
  <2>6. CASE Midnight
    BY <2>6, QueueAssumption DEF Midnight, QuotaInv, QuotaHeld
  <2>7. CASE \E s \in Symbols : IngestRoute({s}) \/ IngestRoute({})
    BY <2>7 DEF IngestRoute, QuotaInv, QuotaHeld
  <2>8. QED BY <2>1, <2>2, <2>3, <2>4, <2>5, <2>6, <2>7 DEF QueueNext, WorkerStep
<1>3. QuotaInv => QuotaHeld BY DEF QuotaInv
<1>4. QED BY <1>1, <1>2, <1>3, PTL DEF QueueSpec

-----------------------------------------------------------------------------
(* Rows go on: a job that exists is never ABSENT again, nor a COMPLETE one *)
(* taken up again.                                                         *)
Onward(old, new) ==
  /\ old.status # "ABSENT" => new.status # "ABSENT"
  /\ old.status = "COMPLETE" => new.status = "COMPLETE"

LEMMA EnqueueGoesOn ==
  ASSUME NEW rows, AllShaped(rows), NEW new
  PROVE  /\ \A j \in Jobs : Onward(rows[j], Enqueue(rows, new)[j])
         /\ \A j \in Jobs \cap new : Enqueue(rows, new)[j].status # "ABSENT"
<1>1. \A j \in Jobs : Onward(rows[j], Enqueue(rows, new)[j])
  BY EnqueueRows DEF Onward
<1>2. ASSUME NEW j \in Jobs \cap new PROVE Enqueue(rows, new)[j].status # "ABSENT"
  <2>1. CASE rows[j].status = "ABSENT"
    <3>1. Enqueue(rows, new)[j] = QueuedRow(rows[j]) BY <2>1 DEF Enqueue, QueuedRow
    <3>2. QED BY <3>1, RowShapes DEF AllShaped
  <2>2. CASE rows[j].status # "ABSENT" BY <1>1, <2>2 DEF Onward
  <2>3. QED BY <2>1, <2>2
<1>3. QED BY <1>1, <1>2

LEMMA JobsGoOn ==
  ASSUME QInv, QueueNext PROVE \A j \in Jobs : Onward(job[j], job'[j])
<1> SUFFICES ASSUME NEW j \in Jobs PROVE Onward(job[j], job'[j]) OBVIOUS
<1>1. AllShaped(job) BY DEF QInv, RowsInv
<1>2. \A row : Shaped(row) =>
        /\ Onward(row, Recovered(row)) /\ Onward(row, Waited(row))
        /\ Onward(row, CompletedRow(row))
        /\ row.status = "RUNNING" => Onward(row, FailedRow(row))
  BY RowShapes DEF Onward
<1>3. CASE StartBatch
  <2> DEFINE seeded == Enqueue(job, ControlJobs(day))
  <2>1. job'[j] = Recovered(seeded[j]) BY <1>3 DEF StartBatch
  <2>2. Shaped(seeded[j]) /\ Onward(job[j], seeded[j])
    BY <1>1, EnqueueRows, EnqueueGoesOn DEF AllShaped
  <2> HIDE DEF seeded
  <2>3. QED BY <1>2, <2>1, <2>2 DEF Onward
<1>4. CASE Begin
  <2>1. PICK k \in FirstOf(batch) : Defer(k) \/ Run(k) BY <1>4 DEF Begin
  <2>2. k \in Jobs /\ job[k].status = "QUEUED"
    BY <1>4, FirstIsBatched DEF Begin, QInv, BatchInv
  <2>3. CASE Defer(k)
    <3>1. job'[j].status = job[j].status BY <1>1, <2>2, <2>3 DEF Defer, AllShaped, Shaped
    <3>2. QED BY <3>1 DEF Onward
  <2>4. CASE Run(k)
    <3> DEFINE row == [job[k] EXCEPT !.status = "RUNNING", !.attempts = @ + 1]
    <3>1. Shaped(job[k]) BY <1>1, <2>2 DEF AllShaped
    <3>2. row.status = "RUNNING" BY <3>1 DEF Shaped
    <3>3. job' = [job EXCEPT ![k] = row] BY <2>4 DEF Run
    <3> HIDE DEF row
    <3>4. job'[j] = job[j] \/ (j = k /\ job'[j] = row) BY <1>1, <3>3 DEF AllShaped
    <3>5. QED BY <2>2, <3>2, <3>4 DEF Onward
  <2>5. QED BY <2>1, <2>3, <2>4
<1>5. CASE Store \/ SeedRoute
  <2>1. PICK new : job' = Enqueue(job, new) BY <1>5 DEF Store, SeedRoute
  <2>2. QED BY <1>1, <2>1, EnqueueGoesOn
<1>6. CASE Finish
  <2> DEFINE k == current.job
             grown == Enqueue(job, UNION {CoreJobs(s) : s \in Expanded(k)})
  <2>1. job' = [grown EXCEPT ![k] = CompletedRow(grown[k])] BY <1>6 DEF Finish
  <2>2. AllShaped(grown) /\ Onward(job[j], grown[j]) BY <1>1, EnqueueRows, EnqueueGoesOn
  <2> HIDE DEF grown, k
  <2>3. job'[j] = grown[j] \/ job'[j] = CompletedRow(grown[j]) BY <2>1, <2>2 DEF AllShaped
  <2>4. QED BY <1>2, <2>2, <2>3 DEF Onward, AllShaped
<1>7. CASE Fail
  <2>1. job' = [job EXCEPT ![current.job] = FailedRow(job[current.job])] /\ current # NoneRuns
    BY <1>7 DEF Fail
  <2>2. job[current.job].status = "RUNNING" BY <2>1 DEF QInv, CurrentInv
  <2>3. job'[j] = job[j] \/ (j = current.job /\ job'[j] = FailedRow(job[j]))
    <3> DEFINE k == current.job
               row == FailedRow(job[k])
    <3>1. job' = [job EXCEPT ![k] = row] BY <2>1
    <3> HIDE DEF row
    <3>2. job'[j] = job[j] \/ (j = k /\ job'[j] = row) BY <1>1, <3>1 DEF AllShaped
    <3>3. QED BY <3>2 DEF row
  <2>4. QED BY <1>1, <1>2, <2>2, <2>3 DEF Onward, AllShaped
<1>8. CASE Elapse \/ Midnight
  <2>1. job'[j] = job[j] \/ job'[j] = Waited(job[j]) BY <1>8 DEF Elapse, Midnight
  <2>2. QED BY <1>1, <1>2, <2>1 DEF Onward, AllShaped
<1>9. CASE UNCHANGED job BY <1>9 DEF Onward
<1>10. QED BY <1>3, <1>4, <1>5, <1>6, <1>7, <1>8, <1>9
  DEF QueueNext, WorkerStep, Call, Crash, IngestRoute

LEMMA JobsAre ==
  ASSUME NEW j
  PROVE  j \in Jobs <=>
           \/ \E d \in 0..LastDay : j \in ControlJobs(d)
           \/ \E s \in Symbols :
                j \in ({Validation(s)} \cup CoreJobs(s)) \cup UNION {FreshnessJobs(s, d) : d \in 0..LastDay}
<1> DEFINE Controls == {ControlJobs(d) : d \in 0..LastDay}
           Of(s) == ({Validation(s)} \cup CoreJobs(s)) \cup UNION {FreshnessJobs(s, d) : d \in 0..LastDay}
<1>1. Jobs = (UNION Controls) \cup UNION {Of(s) : s \in Symbols} BY DEF Jobs
<1>2. j \in UNION Controls <=> \E d \in 0..LastDay : j \in ControlJobs(d) OBVIOUS
<1> HIDE DEF Controls, Of
<1>3. j \in UNION {Of(s) : s \in Symbols} <=> \E s \in Symbols : j \in Of(s) OBVIOUS
<1>4. j \in Jobs <=>
        (\E d \in 0..LastDay : j \in ControlJobs(d)) \/ \E s \in Symbols : j \in Of(s)
  BY <1>1, <1>2, <1>3
<1>5. QED BY <1>4 DEF Of

LEMMA QuotesJobs ==
  ASSUME NEW j \in Jobs, j.kind = "quotes"
  PROVE  j.sym \in Symbols /\ \E d \in {Once} \cup 0..LastDay : j = Job("quotes", j.sym, d)
<1>1. \A d : j \notin ControlJobs(d) BY DEF ControlJobs, Offered, Job
<1>2. PICK s \in Symbols :
        j \in ({Validation(s)} \cup CoreJobs(s)) \cup UNION {FreshnessJobs(s, d) : d \in 0..LastDay}
  BY <1>1, JobsAre
<1>3. j \notin CoreJobs(s) BY DEF CoreJobs, Offered, Job
<1>4. CASE j = Validation(s) BY <1>4 DEF Validation, Job
<1>5. CASE j # Validation(s)
  <2>1. PICK d \in 0..LastDay : j \in FreshnessJobs(s, d) BY <1>2, <1>3, <1>5
  <2>2. j = Job("quotes", s, d) BY <2>1 DEF FreshnessJobs, Offered, Job
  <2>3. QED BY <2>2 DEF Job
<1>6. QED BY <1>4, <1>5

LEMMA CoreJobsExist == \A s \in Symbols : CoreJobs(s) \subseteq Jobs
BY JobsAre

(* A job of quotes completed for each instrument that validation activated.*)
ActivatedInv ==
  \A s \in active \ viaApi :
    /\ s \in Symbols
    /\ \A j \in CoreJobs(s) : job[j].status # "ABSENT"
    /\ \E j \in Jobs : j.kind = "quotes" /\ j.sym = s /\ job[j].status = "COMPLETE"

LEMMA ActivatedStays ==
  ASSUME QInv, QueueNext, ActivatedInv, NEW s \in active \ viaApi
  PROVE  /\ s \in Symbols
         /\ \A j \in CoreJobs(s) : job'[j].status # "ABSENT"
         /\ \E j \in Jobs : j.kind = "quotes" /\ j.sym = s /\ job'[j].status = "COMPLETE"
<1>1. s \in Symbols /\ CoreJobs(s) \subseteq Jobs BY CoreJobsExist DEF ActivatedInv
<1>2. \A j \in CoreJobs(s) : job'[j].status # "ABSENT"
  BY <1>1, JobsGoOn DEF ActivatedInv, Onward
<1>3. PICK j \in Jobs : j.kind = "quotes" /\ j.sym = s /\ job[j].status = "COMPLETE"
  BY DEF ActivatedInv
<1>4. job'[j].status = "COMPLETE" BY <1>3, JobsGoOn DEF Onward
<1>5. QED BY <1>1, <1>2, <1>3, <1>4

(* What a quote activates is there with its jobs in the same commit.       *)
LEMMA FinishActivates ==
  ASSUME QInv, Finish, NEW s, s \in active' \ active
  PROVE  /\ s \in Symbols
         /\ \A j \in CoreJobs(s) : job'[j].status # "ABSENT"
         /\ \E j \in Jobs : j.kind = "quotes" /\ j.sym = s /\ job'[j].status = "COMPLETE"
<1> DEFINE k == current.job
           new == UNION {CoreJobs(q) : q \in Expanded(k)}
           grown == Enqueue(job, new)
<1>1. /\ current # NoneRuns /\ active' = active \cup (Expanded(k) \cap known)
      /\ job' = [grown EXCEPT ![k] = CompletedRow(grown[k])]
  BY DEF Finish, NoneRuns
<1>2. k \in Jobs BY <1>1 DEF QInv, CurrentInv
<1>3. s \in Expanded(k) /\ k.kind = "quotes" /\ k.sym = s BY <1>1 DEF Expanded
<1>4. s \in Symbols BY <1>2, <1>3, QuotesJobs
<1>5. CoreJobs(s) \subseteq Jobs \cap new BY <1>3, <1>4, CoreJobsExist
<1>6. AllShaped(job) BY DEF QInv, RowsInv
<1>7. AllShaped(grown) /\ \A j \in Jobs \cap new : grown[j].status # "ABSENT"
  BY <1>6, EnqueueRows, EnqueueGoesOn
<1> HIDE DEF grown, new, k
<1>8. job'[k].status = "COMPLETE" BY <1>1, <1>2, <1>7, RowShapes DEF AllShaped
<1>9. ASSUME NEW j \in CoreJobs(s) PROVE job'[j].status # "ABSENT"
  <2>1. j = k \/ job'[j] = grown[j] BY <1>1, <1>5, <1>7 DEF AllShaped
  <2>2. QED BY <1>5, <1>7, <1>8, <2>1
<1>10. QED BY <1>2, <1>3, <1>4, <1>8, <1>9

(* An active instrument the API did not create was seen quoted, and has    *)
(* the jobs of its core datasets, whatever interrupted its validation      *)
(* (process_one and _expand_validated).                                     *)
THEOREM ActivationIsComplete == QueueSpec => []ActivationComplete
<1>1. QueueInit => ActivatedInv BY DEF QueueInit, ActivatedInv
<1>2. QInv /\ ActivatedInv /\ [QueueNext]_queueVars => ActivatedInv'
  <2>1. ASSUME QInv, ActivatedInv, QueueNext PROVE ActivatedInv'
    <3>1. ASSUME NEW s, s \in (active \ viaApi)'
          PROVE  /\ s \in Symbols
                 /\ \A j \in CoreJobs(s) : job'[j].status # "ABSENT"
                 /\ \E j \in Jobs : j.kind = "quotes" /\ j.sym = s /\ job'[j].status = "COMPLETE"
      <4>1. CASE s \in active \ viaApi BY <2>1, <4>1, ActivatedStays
      <4>2. CASE s \notin active \ viaApi
        <5>1. Finish /\ s \in active' \ active
          BY <2>1, <3>1, <4>2
          DEF QueueNext, WorkerStep, StartBatch, Begin, Call, Store, Finish, Fail, SeedRoute, Crash,
              Elapse, Midnight, IngestRoute, instruments, surroundings
        <5>2. QED BY <2>1, <5>1, FinishActivates
      <4>3. QED BY <4>1, <4>2
    <3>2. QED BY <3>1 DEF ActivatedInv
  <2>2. ASSUME ActivatedInv, UNCHANGED queueVars PROVE ActivatedInv'
    BY <2>2 DEF queueVars, instruments, surroundings, ActivatedInv
  <2>3. QED BY <2>1, <2>2
<1>3. ActivatedInv => ActivationComplete
  <2> SUFFICES ASSUME ActivatedInv, NEW s \in active \ viaApi
      PROVE  /\ \A j \in CoreJobs(s) : job[j].status # "ABSENT"
             /\ \E d \in {Once} \cup 0..LastDay : job[Job("quotes", s, d)].status = "COMPLETE"
    BY DEF ActivationComplete
  <2>1. PICK j \in Jobs : j.kind = "quotes" /\ j.sym = s /\ job[j].status = "COMPLETE"
    BY DEF ActivatedInv
  <2>2. PICK d \in {Once} \cup 0..LastDay : j = Job("quotes", s, d) BY <2>1, QuotesJobs
  <2>3. QED BY <2>1, <2>2 DEF ActivatedInv
<1>4. QED BY <1>1, <1>2, <1>3, QueueInductive, PTL DEF QueueSpec
-----------------------------------------------------------------------------
(* The types of the queue                                                  *)

LEMMA RowTypes ==
  ASSUME NEW row \in JobRow
  PROVE  /\ {Recovered(row), CompletedRow(row), FailedRow(row), Waited(row), QueuedRow(row)}
              \subseteq JobRow
         /\ [row EXCEPT !.status = "RUNNING", !.attempts = @ + 1] \in JobRow
         /\ \A d \in 0..2 : [row EXCEPT !.due = d] \in JobRow
<1> DEFINE Statuses == {"ABSENT", "QUEUED", "RUNNING", "COMPLETE", "FAILED"}
<1>1. \A r \in JobRow : /\ \A s \in Statuses : [r EXCEPT !.status = s] \in JobRow
                       /\ \A d \in 0..2 : [r EXCEPT !.due = d] \in JobRow
                       /\ \A n \in Nat : [r EXCEPT !.attempts = n] \in JobRow
                       /\ \A b \in BOOLEAN : [r EXCEPT !.interrupted = b] \in JobRow
  BY DEF JobRow
<1>2. row.status \in Statuses /\ row.due \in 0..2 /\ row.attempts \in Nat
  BY DEF JobRow
<1>3. Recovered(row) \in JobRow
  <2> DEFINE one == [row EXCEPT !.status = "QUEUED"]
             two == [one EXCEPT !.due = 0]
  <2>1. one \in JobRow BY <1>1
  <2> HIDE DEF one
  <2>2. two \in JobRow BY <2>1 DEF JobRow
  <2> HIDE DEF two
  <2>3. [two EXCEPT !.interrupted = FALSE] \in JobRow BY <2>2 DEF JobRow
  <2>4. QED BY <2>3 DEF Recovered, one, two
<1>4. CompletedRow(row) \in JobRow
  <2> DEFINE one == [row EXCEPT !.status = "COMPLETE"]
  <2>1. one \in JobRow BY <1>1
  <2> HIDE DEF one
  <2>2. [one EXCEPT !.interrupted = FALSE] \in JobRow BY <2>1 DEF JobRow
  <2>3. QED BY <2>2 DEF CompletedRow, one
<1>5. FailedRow(row) \in JobRow
  <2> DEFINE one == [row EXCEPT !.status = IF row.attempts >= MaxAttempts THEN "FAILED" ELSE "QUEUED"]
             two == [one EXCEPT !.due = 1]
  <2>1. one \in JobRow BY <1>1
  <2> HIDE DEF one
  <2>2. two \in JobRow BY <2>1 DEF JobRow
  <2> HIDE DEF two
  <2>3. [two EXCEPT !.interrupted = FALSE] \in JobRow BY <2>2 DEF JobRow
  <2>4. QED BY <2>3 DEF FailedRow, one, two
<1>6. Waited(row) \in JobRow
  <2> DEFINE left == IF row.due = 0 THEN 0 ELSE row.due - 1
             one == [row EXCEPT !.due = left]
  <2>1. left \in 0..2 BY <1>2
  <2> HIDE DEF left
  <2>2. one \in JobRow BY <2>1 DEF JobRow
  <2> HIDE DEF one
  <2>3. [one EXCEPT !.interrupted = row.status = "RUNNING"] \in JobRow BY <2>2 DEF JobRow
  <2>4. QED BY <2>3 DEF Waited, one, left
<1>7. QueuedRow(row) \in JobRow BY <1>1 DEF QueuedRow
<1>8. [row EXCEPT !.status = "RUNNING", !.attempts = @ + 1] \in JobRow
  <2> DEFINE one == [row EXCEPT !.status = "RUNNING"]
  <2>1. one \in JobRow /\ row.attempts + 1 \in Nat BY <1>2 DEF JobRow
  <2> HIDE DEF one
  <2>2. [one EXCEPT !.attempts = row.attempts + 1] \in JobRow BY <2>1 DEF JobRow
  <2>3. QED BY <2>2 DEF one
<1>9. QED BY <1>1, <1>3, <1>4, <1>5, <1>6, <1>7, <1>8

LEMMA EnqueueTypes ==
  ASSUME NEW rows \in [Jobs -> JobRow], NEW new
  PROVE  Enqueue(rows, new) \in [Jobs -> JobRow]
<1>1. ASSUME NEW j \in Jobs
      PROVE  (IF j \in new /\ rows[j].status = "ABSENT"
              THEN [rows[j] EXCEPT !.status = "QUEUED"] ELSE rows[j]) \in JobRow
  BY RowTypes DEF QueuedRow
<1>2. QED BY <1>1 DEF Enqueue

(* The steps that change rows, each by its operator on rows.               *)
LEMMA JobTypes ==
  ASSUME QInv, job \in [Jobs -> JobRow], QueueNext
  PROVE  job' \in [Jobs -> JobRow]
<1>1. CASE StartBatch
  <2>1. Enqueue(job, ControlJobs(day)) \in [Jobs -> JobRow] BY EnqueueTypes
  <2>2. job' = [j \in Jobs |-> Recovered(Enqueue(job, ControlJobs(day))[j])]
    BY <1>1 DEF StartBatch
  <2>3. QED BY <2>1, <2>2, RowTypes
<1>2. CASE Begin
  <2>1. PICK j \in FirstOf(batch) : Defer(j) \/ Run(j) BY <1>2 DEF Begin
  <2>2. j \in Jobs BY <1>2, FirstIsBatched DEF Begin, QInv, BatchInv
  <2>3. CASE Defer(j)
    <3> DEFINE d == IF rolled THEN 0 ELSE 2
               row == [job[j] EXCEPT !.due = d]
    <3>1. job' = [job EXCEPT ![j] = row] BY <2>3 DEF Defer
    <3>2. d \in 0..2 OBVIOUS
    <3> HIDE DEF d
    <3>3. row \in JobRow BY <2>2, <3>2, RowTypes
    <3> HIDE DEF row
    <3>4. QED BY <3>1, <3>3
  <2>4. CASE Run(j)
    <3> DEFINE row == [job[j] EXCEPT !.status = "RUNNING", !.attempts = @ + 1]
    <3>1. job' = [job EXCEPT ![j] = row] BY <2>4 DEF Run
    <3>2. row \in JobRow BY <2>2, RowTypes
    <3> HIDE DEF row
    <3>3. QED BY <3>1, <3>2
  <2>5. QED BY <2>1, <2>3, <2>4
<1>3. CASE Store \/ SeedRoute
  <2>1. PICK new : job' = Enqueue(job, new) BY <1>3 DEF Store, SeedRoute
  <2>2. QED BY <2>1, EnqueueTypes
<1>4. CASE Finish
  <2> DEFINE j == current.job
             grown == Enqueue(job, UNION {CoreJobs(s) : s \in Expanded(j)})
             row == CompletedRow(grown[j])
  <2>1. job' = [grown EXCEPT ![j] = row] BY <1>4 DEF Finish
  <2>2. j \in Jobs BY <1>4 DEF Finish, QInv, CurrentInv, NoneRuns
  <2>3. grown \in [Jobs -> JobRow] BY EnqueueTypes
  <2> HIDE DEF grown
  <2>4. row \in JobRow BY <2>2, <2>3, RowTypes
  <2> HIDE DEF row
  <2>5. QED BY <2>1, <2>3, <2>4
<1>5. CASE Fail
  <2> DEFINE row == FailedRow(job[current.job])
  <2>1. job' = [job EXCEPT ![current.job] = row] BY <1>5 DEF Fail
  <2>2. current.job \in Jobs BY <1>5 DEF Fail, QInv, CurrentInv
  <2>3. row \in JobRow BY <2>2, RowTypes
  <2> HIDE DEF row
  <2>4. QED BY <2>1, <2>3
<1>6. CASE Elapse BY <1>6, RowTypes DEF Elapse
<1>7. CASE Midnight BY <1>7, RowTypes DEF Midnight
<1>8. CASE UNCHANGED job BY <1>8
<1>9. QED BY <1>1, <1>2, <1>3, <1>4, <1>5, <1>6, <1>7, <1>8
  DEF QueueNext, WorkerStep, Call, Crash, IngestRoute

LEMMA DayStays == \A d \in 0..LastDay : Min({d + 1, LastDay}) \in 0..LastDay
<1> SUFFICES ASSUME NEW d \in 0..LastDay PROVE Min({d + 1, LastDay}) \in 0..LastDay OBVIOUS
<1>1. \E x \in {d + 1, LastDay} : \A y \in {d + 1, LastDay} : x <= y BY QueueAssumption
<1>2. Min({d + 1, LastDay}) \in {d + 1, LastDay}
      /\ \A y \in {d + 1, LastDay} : Min({d + 1, LastDay}) <= y
  BY <1>1 DEF Min
<1>3. QED BY <1>2, QueueAssumption

(* Instruments, counters and the clock.                                    *)
CatalogInv ==
  /\ known \subseteq Symbols /\ active \subseteq known /\ viaApi \subseteq known
  /\ listed \in [Symbols -> {"NONE", "QUEUED", "VALIDATED"}]
CountersInv ==
  /\ {used, today, byApi, failures, crashes, apiRuns} \subseteq Nat
  /\ {day, batchDay} \subseteq 0..LastDay /\ rolled \in BOOLEAN

LEMMA CatalogKeeps ==
  ASSUME CatalogInv, QueueNext PROVE CatalogInv'
<1>1. CASE Store
  <2>1. PICK found \in SUBSET Symbols :
          known' = known \cup found /\ UNCHANGED <<active, viaApi>>
    BY <1>1 DEF Store, surroundings
  <2>2. listed' = [s \in Symbols |-> Listed(s)] \/ UNCHANGED listed BY <1>1 DEF Store
  <2>3. \A s : Listed(s) \in {"NONE", "QUEUED", "VALIDATED"} BY DEF Listed
  <2>4. QED BY <2>1, <2>2, <2>3 DEF CatalogInv
<1>2. CASE Finish BY <1>2 DEF Finish, surroundings, CatalogInv
<1>3. CASE \E s \in Symbols : IngestRoute({s}) \/ IngestRoute({})
  <2>1. PICK got \in SUBSET Symbols : IngestRoute(got) BY <1>3
  <2>2. QED BY <2>1 DEF IngestRoute, CatalogInv
<1>4. CASE UNCHANGED <<instruments, viaApi>> BY <1>4 DEF instruments, CatalogInv
<1>5. QED BY <1>1, <1>2, <1>3, <1>4
  DEF QueueNext, WorkerStep, StartBatch, Begin, Call, Fail, SeedRoute, Crash, Elapse, Midnight,
      surroundings

LEMMA CountersKeep ==
  ASSUME CountersInv, QueueNext PROVE CountersInv'
<1>1. CASE StartBatch BY <1>1 DEF StartBatch, surroundings, CountersInv
<1>2. CASE Begin BY <1>2 DEF Begin, quota, clock, surroundings, CountersInv
<1>3. CASE Call BY <1>3 DEF Call, clock, surroundings, CountersInv
<1>4. CASE Store BY <1>4 DEF Store, quota, clock, surroundings, CountersInv
<1>5. CASE Finish BY <1>5 DEF Finish, quota, clock, surroundings, CountersInv
<1>6. CASE Fail BY <1>6 DEF Fail, quota, clock, CountersInv
<1>7. CASE SeedRoute BY <1>7 DEF SeedRoute, quota, clock, surroundings, CountersInv
<1>8. CASE Crash BY <1>8 DEF Crash, quota, clock, CountersInv
<1>9. CASE Elapse BY <1>9 DEF Elapse, quota, clock, surroundings, CountersInv
<1>10. CASE Midnight
  <2>1. day' \in 0..LastDay BY <1>10, DayStays DEF Midnight, CountersInv
  <2>2. rolled' \in BOOLEAN /\ today' = 0 /\ byApi' = 0
        /\ UNCHANGED <<used, batchDay, failures, crashes, apiRuns>>
    BY <1>10 DEF Midnight, surroundings
  <2>3. QED BY <2>1, <2>2 DEF CountersInv
<1>11. CASE \E s \in Symbols : IngestRoute({s}) \/ IngestRoute({})
  BY <1>11 DEF IngestRoute, clock, CountersInv
<1>12. QED BY <1>1, <1>2, <1>3, <1>4, <1>5, <1>6, <1>7, <1>8, <1>9, <1>10, <1>11
  DEF QueueNext, WorkerStep

(* Every row and counter of the queue has its type.                        *)
THEOREM QueueTypeCorrect == QueueSpec => []QueueTypeOK
<1> DEFINE TypesInv == job \in [Jobs -> JobRow] /\ CatalogInv /\ CountersInv
<1>1. QueueInit => TypesInv
  <2> SUFFICES ASSUME QueueInit PROVE TypesInv OBVIOUS
  <2>1. NoJob \in JobRow BY DEF NoJob, JobRow
  <2>2. job \in [Jobs -> JobRow] BY <2>1 DEF QueueInit
  <2>3. CatalogInv BY DEF QueueInit, CatalogInv
  <2>4. CountersInv
    <3>1. LastDay \in Nat BY QueueAssumption
    <3>2. /\ used = 0 /\ today = 0 /\ byApi = 0 /\ failures = 0 /\ crashes = 0 /\ apiRuns = 0
          /\ day = 0 /\ batchDay = 0 /\ rolled = FALSE
      BY DEF QueueInit
    <3>3. {used, today, byApi, failures, crashes, apiRuns} \subseteq Nat BY <3>2
    <3>4. {day, batchDay} \subseteq 0..LastDay BY <3>1, <3>2
    <3>5. rolled \in BOOLEAN BY <3>2
    <3>6. QED BY <3>3, <3>4, <3>5 DEF CountersInv
  <2>5. QED BY <2>2, <2>3, <2>4
<1>2. QInv /\ TypesInv /\ [QueueNext]_queueVars => TypesInv'
  <2>1. ASSUME QInv, TypesInv, QueueNext PROVE TypesInv'
    BY <2>1, JobTypes, CatalogKeeps, CountersKeep
  <2>2. ASSUME TypesInv, UNCHANGED queueVars PROVE TypesInv'
    BY <2>2 DEF queueVars, instruments, quota, clock, surroundings, CatalogInv, CountersInv
  <2>3. QED BY <2>1, <2>2
<1>3. QInv /\ TypesInv => QueueTypeOK
  BY DEF QInv, RowsInv, CurrentInv, BatchInv, CatalogInv, CountersInv, QueueTypeOK
<1> HIDE DEF TypesInv
<1>4. QED BY <1>1, <1>2, <1>3, QueueInductive, PTL DEF QueueSpec

-----------------------------------------------------------------------------
(* The gateway: a disconnect stays one                                     *)

(* After a quiet disconnect nothing is under way that could undo it.       *)
Disconnected ==
  /\ ~ token /\ reading = "NONE" /\ pointed = 0
  /\ \A n \in Attempts : ~ Live(n)
  /\ stateStatus \in {"NOT_CONFIGURED", "ERROR"}

DInv == quiet => Disconnected

-----------------------------------------------------------------------------
(* The tasks of attempts need one that is alive.                           *)
LEMMA FlowKeeps ==
  ASSUME DInv, NEW n \in Attempts, FlowStep(n) \/ CallbackTimeout(n) PROVE DInv'
<1>1. Live(n) /\ UNCHANGED quiet
  <2>1. n # 0 BY DEF Attempts
  <2>2. QED
    BY <2>1 DEF FlowStep, FlowUsesToken, FlowAsks, FlowGetsCode, FlowConnects, FlowFails,
                FlowCancelled, CallbackTimeout, FlowUnchanged, Live
<1>2. QED BY <1>1 DEF DInv, Disconnected

(* A new attempt ends the quiet; the handler of an old one touches nothing.*)
LEMMA AttemptsKeep ==
  ASSUME DInv, ConnectStart \/ Handlers PROVE DInv'
<1>1. CASE ConnectStart BY <1>1 DEF ConnectStart, DInv
<1>2. CASE Handlers
  <2>1. PICK n \in Attempts : StartAnswered(n) \/ StartGivesUp(n) BY <1>2 DEF Handlers
  <2>2. CASE StartAnswered(n)
    BY <2>2 DEF StartAnswered, Answers, DInv, Disconnected, Live
  <2>3. CASE StartGivesUp(n)
    BY <2>3 DEF StartGivesUp, DInv, Disconnected, Live
  <2>4. QED BY <2>1, <2>2, <2>3
<1>3. QED BY <1>1, <1>2

(* A user who comes back late finds no future to set: at most a denial is  *)
(* noted.                                                                  *)
LEMMA UserKeeps ==
  ASSUME DInv, CompleteDenied \/ CompleteCode \/ CallbackDenied \/ CallbackCode PROVE DInv'
<1>1. UNCHANGED <<flow, pointed, token, reading, quiet>>
  BY DEF CompleteDenied, CompleteCode, CallbackDenied, CallbackCode, UserUnchanged
<1>2. stateStatus' \in {stateStatus, "ERROR"}
  BY DEF CompleteDenied, CompleteCode, CallbackDenied, CallbackCode
<1>3. QED BY <1>1, <1>2 DEF DInv, Disconnected, Live

(* The disconnect itself: it waited for the task of the attempt it clears. *)
LEMMA DisconnectKeeps ==
  ASSUME DInv, DisconnectBegin \/ DisconnectEnd PROVE DInv'
<1>1. CASE DisconnectBegin
  <2>1. Live(pointed) /\ UNCHANGED quiet BY <1>1 DEF DisconnectBegin
  <2>2. QED BY <2>1 DEF DInv, Disconnected, Live
<1>2. CASE DisconnectEnd
  <2>1. SUFFICES ASSUME quiet' PROVE Disconnected' BY DEF DInv
  <2>2. reading = "NONE" /\ \A n \in Attempts \ {pointed} : ~ Live(n)
    BY <1>2, <2>1 DEF DisconnectEnd
  <2>3. ~ Live(pointed)
    BY <1>2, <2>1 DEF DisconnectEnd, Awaited
  <2>4. pointed' = 0 /\ token' = FALSE /\ stateStatus' = "NOT_CONFIGURED"
        /\ UNCHANGED <<flow, reading>>
    BY <1>2 DEF DisconnectEnd, Clear
  <2>5. QED BY <2>2, <2>3, <2>4 DEF Disconnected, Live
<1>3. QED BY <1>1, <1>2

(* No read begins without a token.                                         *)
LEMMA ReadKeeps ==
  ASSUME DInv, ReadRefresh \/ ReadEnd \/ \E kind \in {"MARKET", "ACCOUNT"} : ReadBegin(kind)
  PROVE  DInv'
BY DEF ReadBegin, ReadRefresh, ReadEnd, DInv, Disconnected

LEMMA RestartKeeps ==
  ASSUME DInv, GatewayRestart PROVE DInv'
<1>1. UNCHANGED <<token, quiet>> /\ reading' = "NONE" /\ pointed' = 0
      /\ stateStatus' = "NOT_CONFIGURED"
  BY DEF GatewayRestart
<1>2. \A n \in Attempts : ~ Live(n)' BY DEF GatewayRestart, Live
<1>3. QED BY <1>1, <1>2 DEF DInv, Disconnected

-----------------------------------------------------------------------------
(* A disconnect with nothing else in flight leaves no token and no task,   *)
(* and no late code, callback or restart brings them back (disconnect,     *)
(* oauth_complete, oauth_callback and the tasks of connect_start).         *)
THEOREM DisconnectStaysQuiet == GatewaySpec => []QuietDisconnect
<1>1. GatewayInit => DInv BY DEF GatewayInit, DInv
<1>2. DInv /\ [GatewayNext]_gatewayVars => DInv'
  <2>1. ASSUME DInv, GatewayNext PROVE DInv'
    BY <2>1, FlowKeeps, AttemptsKeep, UserKeeps, DisconnectKeeps, ReadKeeps, RestartKeeps
    DEF GatewayNext
  <2>2. ASSUME DInv, UNCHANGED gatewayVars PROVE DInv'
    BY <2>2 DEF gatewayVars, DInv, Disconnected, Live
  <2>3. QED BY <2>1, <2>2
<1>3. DInv => QuietDisconnect BY DEF DInv, Disconnected, QuietDisconnect, PublicStatus
<1>4. QED BY <1>1, <1>2, <1>3, PTL DEF GatewaySpec

-----------------------------------------------------------------------------
(* The types of the gateway                                                *)

GatewayTypes == GatewayTypeOK /\ started \in Nat

LEMMA FlowTypes ==
  ASSUME GatewayTypes, NEW n \in Attempts, FlowStep(n) \/ CallbackTimeout(n)
  PROVE  GatewayTypes'
<1> USE DEF GatewayTypes, GatewayTypeOK
<1>1. CASE FlowUsesToken(n) BY <1>1 DEF FlowUsesToken, FlowUnchanged, futures, bounds
<1>2. CASE FlowAsks(n) BY <1>2 DEF FlowAsks, FlowUnchanged, bounds
<1>3. CASE FlowGetsCode(n) BY <1>3 DEF FlowGetsCode, Write, FlowUnchanged, futures, bounds
<1>4. CASE FlowConnects(n) BY <1>4 DEF FlowConnects, FlowUnchanged, futures, bounds
<1>5. CASE FlowFails(n) BY <1>5 DEF FlowFails, FlowUnchanged, futures, bounds
<1>6. CASE CallbackTimeout(n) BY <1>6 DEF CallbackTimeout, FlowUnchanged, bounds
<1>7. CASE FlowCancelled(n)
  BY <1>7 DEF FlowCancelled, Abandoned, FlowUnchanged, bounds
<1>8. QED BY <1>1, <1>2, <1>3, <1>4, <1>5, <1>6, <1>7 DEF FlowStep

LEMMA AttemptTypes ==
  ASSUME GatewayTypes, ConnectStart \/ Handlers PROVE GatewayTypes'
<1> USE DEF GatewayTypes, GatewayTypeOK
<1>1. CASE ConnectStart
  <2>1. started + 1 \in Attempts BY <1>1, GatewayAssumption DEF ConnectStart, Attempts
  <2> DEFINE n == started + 1
  <2>2. /\ flow' = [flow EXCEPT ![n] = "connecting"]
        /\ authUrl' = [authUrl EXCEPT ![n] = "pending"]
        /\ callback' = [callback EXCEPT ![n] = "pending"]
        /\ starter' = starter \cup {n} /\ pointed' = n /\ nonce' = n /\ started' = n
        /\ stateStatus' = "AUTHORIZING" /\ quiet' = FALSE
        /\ UNCHANGED <<awaits, closing, token, reading>>
    BY <1>1 DEF ConnectStart
  <2>3. n \in 0..MaxConnects /\ n \in Nat BY <2>1, GatewayAssumption DEF Attempts
  <2> HIDE DEF n
  <2>4. n \in Attempts BY <2>1 DEF n
  <2>5. QED BY <2>2, <2>3, <2>4
<1>2. CASE Handlers
  <2>1. PICK n \in Attempts : StartAnswered(n) \/ StartGivesUp(n) BY <1>2 DEF Handlers
  <2>2. CASE StartAnswered(n) BY <2>2 DEF StartAnswered, Answers, futures, bounds
  <2>3. CASE StartGivesUp(n) BY <2>3 DEF StartGivesUp, futures, bounds
  <2>4. QED BY <2>1, <2>2, <2>3
<1>3. QED BY <1>1, <1>2

LEMMA OtherTypes ==
  ASSUME GatewayTypes,
         \/ CompleteDenied \/ CompleteCode \/ CallbackDenied \/ CallbackCode
         \/ DisconnectBegin \/ DisconnectEnd
         \/ \E kind \in {"MARKET", "ACCOUNT"} : ReadBegin(kind)
         \/ ReadRefresh \/ ReadEnd \/ GatewayRestart
  PROVE  GatewayTypes'
<1> USE DEF GatewayTypes, GatewayTypeOK
<1>0. 0 \in 0..MaxConnects BY GatewayAssumption
<1>1. CASE CompleteDenied BY <1>0, <1>1 DEF CompleteDenied, UserUnchanged, bounds
<1>2. CASE CompleteCode BY <1>0, <1>2 DEF CompleteCode, UserUnchanged, bounds
<1>3. CASE CallbackDenied BY <1>3 DEF CallbackDenied, UserUnchanged, bounds
<1>4. CASE CallbackCode BY <1>4 DEF CallbackCode, UserUnchanged, bounds
<1>5. CASE DisconnectBegin BY <1>5 DEF DisconnectBegin, futures, bounds
<1>6. CASE DisconnectEnd
  <2>1. authUrl' \in [Attempts -> {"none", "pending", "set", "cancelled"}]
    BY <1>6 DEF DisconnectEnd, Abandoned
  <2>2. callback' \in [Attempts -> {"none", "pending", "set", "cancelled"}]
    BY <1>6 DEF DisconnectEnd, Abandoned
  <2>3. quiet' \in BOOLEAN BY <1>6 DEF DisconnectEnd
  <2>4. QED BY <1>0, <1>6, <2>1, <2>2, <2>3 DEF DisconnectEnd, Clear, bounds
<1>7. CASE \E kind \in {"MARKET", "ACCOUNT"} : ReadBegin(kind)
  BY <1>7 DEF ReadBegin, ReadUnchanged, futures
<1>8. CASE ReadRefresh BY <1>8 DEF ReadRefresh, Write, ReadUnchanged, futures
<1>9. CASE ReadEnd BY <1>9 DEF ReadEnd, ReadUnchanged, futures
<1>10. CASE GatewayRestart BY <1>0, <1>10 DEF GatewayRestart
<1>11. QED BY <1>1, <1>2, <1>3, <1>4, <1>5, <1>6, <1>7, <1>8, <1>9, <1>10

(* Every task, future and global of the gateway has its type.              *)
THEOREM GatewayTypeCorrect == GatewaySpec => []GatewayTypeOK
<1>1. GatewayInit => GatewayTypes
  <2>1. 0 \in 0..MaxConnects BY GatewayAssumption
  <2> SUFFICES ASSUME GatewayInit PROVE GatewayTypes OBVIOUS
  <2>2. /\ flow = [n \in Attempts |-> "none"] /\ authUrl = [n \in Attempts |-> "none"]
        /\ callback = [n \in Attempts |-> "none"] /\ awaits = [n \in Attempts |-> 0]
    BY DEF GatewayInit
  <2>3. /\ starter = {} /\ pointed = 0 /\ nonce = 0 /\ closing = 0 /\ started = 0
        /\ stateStatus = "NOT_CONFIGURED" /\ token \in BOOLEAN /\ reading = "NONE"
        /\ quiet = FALSE
    BY DEF GatewayInit
  <2>4. started \in Nat BY <2>3
  <2>5. {token, quiet} \subseteq BOOLEAN BY <2>3
  <2>6. QED BY <2>1, <2>2, <2>3, <2>4, <2>5 DEF GatewayTypes, GatewayTypeOK
<1>2. GatewayTypes /\ [GatewayNext]_gatewayVars => GatewayTypes'
  <2>1. ASSUME GatewayTypes, GatewayNext PROVE GatewayTypes'
    BY <2>1, FlowTypes, AttemptTypes, OtherTypes DEF GatewayNext
  <2>2. ASSUME GatewayTypes, UNCHANGED gatewayVars PROVE GatewayTypes'
    BY <2>2 DEF gatewayVars, GatewayTypes, GatewayTypeOK
  <2>3. QED BY <2>1, <2>2
<1>3. GatewayTypes => GatewayTypeOK BY DEF GatewayTypes
<1>4. QED BY <1>1, <1>2, <1>3, PTL DEF GatewaySpec

-----------------------------------------------------------------------------
(* The composition                                                         *)

(* A behaviour of the composition is one of each component: the steps of   *)
(* the other leave it as it is.                                            *)
LEMMA ComponentsRun == BackgroundSpec => QueueSpec /\ GatewaySpec
<1>1. Init => QueueInit /\ GatewayInit BY DEF Init
<1>2. [Next]_vars => [QueueNext]_queueVars
  BY DEF Next, vars, QueueStep, GatewayStep
<1>3. [Next]_vars => [GatewayNext]_gatewayVars
  BY DEF Next, vars, QueueStep, GatewayStep
<1>4. QED BY <1>1, <1>2, <1>3, PTL DEF BackgroundSpec, QueueSpec, GatewaySpec

(* Every row, counter, task and future of both has its type.               *)
THEOREM BackgroundTypeCorrect == BackgroundSpec => []TypeOK
BY ComponentsRun, QueueTypeCorrect, GatewayTypeCorrect, PTL DEF TypeOK

(* What the components promise is promised by their composition, which the *)
(* background_services run checks (queue.py and broker-gateway/app/main.py). *)
THEOREM BackgroundIsSafe ==
  BackgroundSpec =>
    /\ KeepsLifecycle
    /\ [](QuotaHeld /\ AttemptsBounded /\ ActivationComplete /\ QuietDisconnect)
BY ComponentsRun, QueueKeepsLifecycle, QuotaIsHeld, AttemptsAreBounded, ActivationIsComplete,
   DisconnectStaysQuiet, PTL
=============================================================================
