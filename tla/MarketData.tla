----------------------------- MODULE MarketData -----------------------------
(***************************************************************************)
(* Ingestion runs (backend/app/data/service.py) and the quality gate on    *)
(* what they bring (quality.py).  A run is committed as RUNNING, calls its *)
(* provider, and commits its records with its outcome.  API threads and    *)
(* the worker run at once; a record is stored once, whoever brings it.     *)
(*                                                                         *)
(* An item is what a provider's parser makes of a response (the provider's *)
(* formats are not modelled); its time is in minutes from now.             *)
(***************************************************************************)
EXTENDS Integers, FiniteSets, FiniteSetsExt

CONSTANTS
  Providers,   \* data_providers
  Items,       \* normalized items the providers may deliver
  Runners,     \* threads that run an ingestion
  MaxRuns      \* bound: ingestions

ASSUME DataAssumption == MaxRuns \in Nat

VARIABLES
  records,     \* data_records: provider, item and quality
  running,     \* the ingestion of each runner
  provider,    \* status columns of data_providers
  orphaned,    \* runs left RUNNING by a thread that died
  runs         \* bound counter

dataVars == <<records, running, provider, orphaned, runs>>

-----------------------------------------------------------------------------
(* The quality gate                                                        *)

Bars == {"open", "high", "low", "close", "volume"}
BarProblems(bar) ==
  (IF ~(Bars \subseteq DOMAIN bar) THEN {"INVALID_OHLCV"}
   ELSE IF \/ bar.high < Max({bar.open, bar.low, bar.close})
           \/ bar.low > Min({bar.open, bar.high, bar.close}) THEN {"OHLC_RANGE"} ELSE {})
  \cup (IF "volume" \in DOMAIN bar THEN {c \in {"NEGATIVE_VOLUME"} : bar.volume < 0} ELSE {})

Problems(item) ==
  (IF ~item.zoned THEN {"NAIVE_TIMESTAMP"}
   ELSE IF item.type # "CORPORATE_ACTION" /\ item.at > 5 THEN {"FUTURE_TIMESTAMP"} ELSE {})
  \cup (IF item.type = "OHLCV" THEN BarProblems(item.payload) ELSE {})
  \cup {c \in {"STALE_QUOTE"} : item.type = "QUOTE" /\ item.zoned /\ item.at < -15}
  \cup {c \in {"EMPTY_PAYLOAD"} : DOMAIN item.payload = {}}

Quality(item) ==
  IF Problems(item) \ {"STALE_QUOTE"} # {} THEN "REJECTED"
  ELSE IF Problems(item) # {} THEN "WARNING" ELSE "VALID"

DataRow(p, item) == [provider |-> p, item |-> item, quality |-> Quality(item)]
Usable(row) == row.quality # "REJECTED"

-----------------------------------------------------------------------------
(* Runs                                                                    *)

NoRun == [stage |-> "none"]

DataInit ==
  /\ records = {}
  /\ running = [r \in Runners |-> NoRun]
  /\ provider = [p \in Providers |-> [succeeded |-> FALSE, error |-> FALSE]]
  /\ orphaned = 0 /\ runs = 0

RunBegin(r, p) ==
  /\ running[r] = NoRun /\ runs < MaxRuns /\ runs' = runs + 1
  /\ running' = [running EXCEPT ![r] = [stage |-> "RUNNING", provider |-> p]]
  /\ UNCHANGED <<records, provider, orphaned>>

(* store: the unique key drops a record that is there, its issues with it. *)
RunComplete(r, items) ==
  /\ running[r].stage = "RUNNING"
  /\ LET p == running[r].provider IN
     /\ records' = records \cup {DataRow(p, i) : i \in items}
     /\ provider' = [provider EXCEPT ![p] = [succeeded |-> TRUE, error |-> FALSE]]
  /\ running' = [running EXCEPT ![r] = NoRun]
  /\ UNCHANGED <<orphaned, runs>>

RunError(r) ==
  /\ running[r].stage = "RUNNING"
  /\ provider' = [provider EXCEPT ![running[r].provider].error = TRUE]
  /\ running' = [running EXCEPT ![r] = NoRun]
  /\ UNCHANGED <<records, orphaned, runs>>

(* Nothing ever completes the run of a thread that died.                   *)
RunLost(r) ==
  /\ running[r].stage = "RUNNING"
  /\ orphaned' = orphaned + 1
  /\ running' = [running EXCEPT ![r] = NoRun]
  /\ UNCHANGED <<records, provider, runs>>

DataNext ==
  \E r \in Runners :
    \/ \E p \in Providers : RunBegin(r, p)
    \/ \E items \in SUBSET Items : RunComplete(r, items)
    \/ RunError(r) \/ RunLost(r)

DataTypeOK ==
  /\ \A row \in records : row \in {DataRow(p, i) : p \in Providers, i \in Items}
  /\ \A r \in Runners : running[r] = NoRun \/ running[r].provider \in Providers
  /\ provider \in [Providers -> [succeeded: BOOLEAN, error: BOOLEAN]]
  /\ orphaned \in 0..MaxRuns /\ runs \in 0..MaxRuns
=============================================================================
