----------------------------- MODULE BrokerSync -----------------------------
(***************************************************************************)
(* Read-only account snapshots: the gateway reads the datasets one by one  *)
(* (broker-gateway/app/main.py), the backend's client turns what went      *)
(* wrong into a status (gateway.py), and synchronize retries, normalizes   *)
(* and stores (broker_sync/service.py).  The operator's route and the      *)
(* worker may synchronize at the same time.                                *)
(*                                                                         *)
(* Of the account a snapshot keeps the shares held of one symbol.  Whether *)
(* its orders and fills add up is only shown to the operator; it is left   *)
(* out.  Time is counted in five minutes.                                  *)
(***************************************************************************)
EXTENDS Integers, FiniteSets

CONSTANTS
  Tools,        \* ACCOUNT_SNAPSHOT_TOOLS
  Fragile,      \* bound: datasets that may fail or not be advertised
  Syncers,      \* the worker and the API
  MaxSyncs,     \* bound: synchronizations
  LastTick,     \* bound: five-minute periods
  Bought        \* shares the account holds at first

ASSUME SyncAssumption == {LastTick, Bought} \subseteq Nat

VARIABLES
  clock,        \* the time
  held,         \* shares the broker's account holds
  sync,         \* the synchronization of each caller: tries made
  snapshots,    \* broker_snapshots
  latestRun,    \* status of the latest broker_sync_runs row
  syncs         \* bound counter

syncVars == <<clock, held, sync, snapshots, latestRun, syncs>>

Required == {"get_portfolio", "get_equity_positions", "get_equity_orders"}
NotSyncing == 0
MaxTries == 3

SyncInit ==
  /\ clock = 0 /\ held = Bought
  /\ sync = [c \in Syncers |-> NotSyncing]
  /\ snapshots = {} /\ latestRun = "NONE" /\ syncs = 0

-----------------------------------------------------------------------------
(* The gateway's answer                                                    *)

(* What was read, and what failed or was not advertised though required.   *)
Answer(advertised, bad) ==
  [datasets |-> advertised \ bad,
   failures |-> (advertised \cap bad) \cup (Required \ advertised),
   shares |-> IF "get_equity_positions" \in advertised \ bad THEN held ELSE 0,
   at |-> clock]

(* normalize.                                                              *)
Normalized(a) ==
  [status |-> IF a.failures # {} THEN "PARTIAL" ELSE "VERIFIED",
   datasets |-> a.datasets, shares |-> a.shares, at |-> a.at]
RunStatus(row) == IF row.status = "VERIFIED" THEN "COMPLETE" ELSE "ATTENTION"

-----------------------------------------------------------------------------
(* synchronize                                                             *)

(* The account is selected and the gateway is connected or can be.         *)
SyncBegin(c) ==
  /\ sync[c] = NotSyncing /\ syncs < MaxSyncs
  /\ sync' = [sync EXCEPT ![c] = 1] /\ syncs' = syncs + 1
  /\ UNCHANGED <<clock, held, snapshots, latestRun>>

(* ERROR is tried again; the run is stored FAILED after the last try.      *)
\* Mutant: ... without end.
KeepsTrying(c) ==
  /\ sync[c] # NotSyncing /\ sync' = [sync EXCEPT ![c] = @ + 1]
  /\ UNCHANGED <<clock, held, snapshots, latestRun, syncs>>
SyncError(c) ==
  /\ sync[c] # NotSyncing
  /\ IF sync[c] < MaxTries
     THEN sync' = [sync EXCEPT ![c] = @ + 1] /\ UNCHANGED latestRun
     ELSE sync' = [sync EXCEPT ![c] = NotSyncing] /\ latestRun' = "FAILED"
  /\ UNCHANGED <<clock, held, snapshots, syncs>>

(* REJECTED and BLOCKED, and a payload normalize refuses, end the run.     *)
SyncRefused(c) ==
  /\ sync[c] # NotSyncing
  /\ sync' = [sync EXCEPT ![c] = NotSyncing] /\ latestRun' = "FAILED"
  /\ UNCHANGED <<clock, held, snapshots, syncs>>

(* A snapshot with the same checksum is not stored twice.                  *)
SyncStores(c, a) ==
  /\ sync[c] # NotSyncing
  /\ sync' = [sync EXCEPT ![c] = NotSyncing]
  /\ snapshots' = snapshots \cup {Normalized(a)}
  /\ latestRun' = RunStatus(Normalized(a))
  /\ UNCHANGED <<clock, held, syncs>>

(* The operator trades at the broker; time passes.                         *)
SoldByHand ==
  /\ held > 0 /\ held' = held - 1
  /\ UNCHANGED <<clock, sync, snapshots, latestRun, syncs>>
Tick ==
  /\ clock < LastTick /\ clock' = clock + 1
  /\ UNCHANGED <<held, sync, snapshots, latestRun, syncs>>

(* At most one dataset is lost at a time.                                  *)
Losses == {{}} \cup {{t} : t \in Fragile}

SyncNext ==
  \/ \E c \in Syncers : SyncBegin(c) \/ SyncError(c) \/ SyncRefused(c)
  \/ \E c \in Syncers, missing \in Losses :
       \/ SyncStores(c, Answer(Tools, missing))
       \/ SyncStores(c, Answer(Tools \ missing, {}))
  \/ SoldByHand \/ Tick

Latest(rows) == CHOOSE s \in rows : \A t \in rows : t.at <= s.at

SyncTypeOK ==
  /\ clock \in 0..LastTick /\ held \in 0..Bought
  /\ sync \in [Syncers -> 0..MaxTries]
  /\ latestRun \in {"NONE", "COMPLETE", "ATTENTION", "FAILED"}
  /\ \A s \in snapshots : /\ s.status = "VERIFIED" => Required \subseteq s.datasets
                          /\ s.at <= clock /\ s.shares \in 0..Bought
=============================================================================
