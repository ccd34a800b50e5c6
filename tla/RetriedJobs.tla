---------------------------- MODULE RetriedJobs ----------------------------
(***************************************************************************)
(* What the ingestion queue promises of its jobs, without batches, quotas, *)
(* priorities, delays, catalogues and time.                                *)
(*                                                                         *)
(* One job is held at a time.  A job is started only from the queue and    *)
(* only while it has an attempt left, an attempt a worker died in counting *)
(* for nothing; completed and failed are the last word; a job fails only   *)
(* with its attempts used up; and a job left RUNNING by a dead worker goes *)
(* back to the queue only when no job is held.  IngestionQueue shows that  *)
(* its steps implement this.                                               *)
(***************************************************************************)
EXTENDS Naturals

CONSTANTS
  Jobs,          \* what can be enqueued
  MaxAttempts    \* attempts of a job

VARIABLES
  stage,         \* where each job stands
  tries,         \* how often it was started
  deaths,        \* how often a worker died while it held the job
  held           \* the job a living worker holds, if any

vars == <<stage, tries, deaths, held>>

Init ==
  /\ stage = [j \in Jobs |-> "ABSENT"]
  /\ tries = [j \in Jobs |-> 0] /\ deaths = [j \in Jobs |-> 0]
  /\ held = {}

-----------------------------------------------------------------------------
New == {j \in Jobs : stage[j] = "ABSENT"}
Orphans == {j \in Jobs : held = {} /\ stage[j] = "RUNNING"}
Queued(S) == [j \in Jobs |-> IF j \in S THEN "QUEUED" ELSE stage[j]]

\* Jobs are enqueued, and orphans return to the queue.
Enter ==
  /\ \E S \in SUBSET (New \cup Orphans) : stage' = Queued(S)
  /\ UNCHANGED <<tries, deaths, held>>

Start(j) ==
  /\ held = {} /\ stage[j] = "QUEUED" /\ tries[j] < MaxAttempts + deaths[j]
  /\ stage' = [stage EXCEPT ![j] = "RUNNING"]
  /\ tries' = [tries EXCEPT ![j] = @ + 1]
  /\ held' = {j} /\ UNCHANGED deaths

\* What a job found is enqueued in the commit that completes it.
Complete(j) ==
  /\ j \in held /\ held' = {}
  /\ \E S \in SUBSET New : stage' = [Queued(S) EXCEPT ![j] = "COMPLETE"]
  /\ UNCHANGED <<tries, deaths>>

Fail(j) ==
  /\ j \in held /\ held' = {}
  /\ stage' = [stage EXCEPT ![j] = IF tries[j] < MaxAttempts THEN "QUEUED" ELSE "FAILED"]
  /\ UNCHANGED <<tries, deaths>>

Die(j) ==
  /\ j \in held /\ held' = {}
  /\ deaths' = [deaths EXCEPT ![j] = @ + 1]
  /\ UNCHANGED <<stage, tries>>

Next == Enter \/ \E j \in Jobs : Start(j) \/ Complete(j) \/ Fail(j) \/ Die(j)

Spec == Init /\ [][Next]_vars
=============================================================================
