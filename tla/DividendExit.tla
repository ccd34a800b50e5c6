---------------------------- MODULE DividendExit ----------------------------
(***************************************************************************)
(* Recovery exits of dividend positions (dividend_exit_monitor.py): the    *)
(* worker signals an exit from the latest broker snapshot and quote, then  *)
(* has the risk engine assess it.  assess commits by itself; the plan is   *)
(* marked in a second commit, and the worker may die between the two.      *)
(* What FILLED orders open a position is modelled in CapitalPlanning.      *)
(***************************************************************************)
EXTENDS BrokerSync

CONSTANTS
  Positions,    \* positions held, of one symbol and at most a share each
  Fractional,   \* those of less than a share; the others are whole shares
  ExTick,       \* when the ex-date begins
  Opens, Closes0, \* the regular session: Opens <= time < Closes0
  Target,       \* the price at which a position was bought
  Prices,       \* prices quoted
  MaxQuotes,    \* bound: quotes that arrive
  MaxDeaths     \* bound: times the worker dies

ASSUME ExDateAssumption == ExTick \in Int

VARIABLES
  quote,        \* the latest quote record
  position,     \* status of each dividend_farm_positions row
  exitPlan,     \* the SELL plan of each position
  assessed,     \* risk_assessments of exits: proposal and whether authorized
  marking,      \* the assessment the worker is about to mark its plan with
  quotes, deaths   \* bound counters

exitOnly == <<quote, position, exitPlan, assessed, marking, quotes, deaths>>
exitVars == <<syncVars, exitOnly>>

SnapshotAge == 3   \* 900 seconds
QuoteAge == 1      \* 300 seconds
NoQuote == [price |-> 0, at |-> -9]
NoPlan == [status |-> "NONE"]
NoMark == [authorized |-> FALSE, proposal |-> <<>>]

ExitInit ==
  /\ SyncInit
  /\ quote = NoQuote
  /\ position = [p \in Positions |-> "OPEN"]
  /\ exitPlan = [p \in Positions |-> NoPlan]
  /\ assessed = {} /\ marking = NoMark
  /\ quotes = 0 /\ deaths = 0

-----------------------------------------------------------------------------

FreshSnapshot(s) == clock - s.at <= SnapshotAge
\* Mutant: the evidence is not looked at again.
StillThere(facts) == TRUE
FreshEvidence(facts) ==
  /\ FreshSnapshot(facts.snapshot) /\ clock - facts.quote.at \in 0..QuoteAge
  /\ facts.snapshot.shares >= 1   \* as much as the position, which is no more

(* monitor_recovery_exits: every open position, one commit.                *)
Recovered0(s) == clock >= ExTick /\ s.shares >= 1 /\ quote.price >= Target
Monitor ==
  /\ marking = NoMark /\ snapshots # {}
  /\ LET s == Latest(snapshots)
         signalled == {p \in Positions : position[p] = "OPEN" /\ Recovered0(s)}
     IN  /\ FreshSnapshot(s) /\ clock - quote.at \in 0..QuoteAge /\ signalled # {}
         /\ position' = [p \in Positions |->
              IF p \in signalled THEN "EXIT_SIGNALLED" ELSE position[p]]
         /\ exitPlan' = [p \in Positions |->
              IF p \in signalled
              THEN [status |-> "EXIT_RISK_REVIEW_REQUIRED", snapshot |-> s, quote |-> quote]
              ELSE exitPlan[p]]
  /\ UNCHANGED <<syncVars, quote, assessed, marking, quotes, deaths>>

(* authorize_recovery_exits: the assessment of a plan whose evidence is    *)
(* still fresh.  The worker tells the engine whether the session is open,  *)
(* and the engine asks for it only of a fractional quantity; clear stands  *)
(* for its other checks.  The proposal is named after the position and the *)
(* quote: a second assessment of it is a DUPLICATE_PROPOSAL.               *)
RegularSession == Opens <= clock /\ clock < Closes0
SessionCheck(p) == p \in Fractional => RegularSession
\* Mutant: the proposal is not recognized.
Unseen(proposal) == TRUE
New(proposal) == ~ \E a \in assessed : a.proposal = proposal
Assess(p, clear) ==
  /\ marking = NoMark /\ exitPlan[p].status = "EXIT_RISK_REVIEW_REQUIRED"
  /\ FreshEvidence(exitPlan[p])
  /\ LET proposal == <<p, exitPlan[p].quote.at>>
         a == [proposal |-> proposal, at |-> clock,
               authorized |-> SessionCheck(p) /\ clear /\ New(proposal)]
     IN  assessed' = assessed \cup {a} /\ marking' = a
  /\ UNCHANGED <<syncVars, quote, position, exitPlan, quotes, deaths>>

Mark ==
  /\ marking # NoMark /\ marking' = NoMark
  /\ exitPlan' = [exitPlan EXCEPT ![marking.proposal[1]] =
       [status |-> IF marking.authorized THEN "RISK_AUTHORIZED_EXIT" ELSE "EXIT_RISK_BLOCKED",
        snapshot |-> @.snapshot, quote |-> @.quote, revalidated |-> marking.at]]
  /\ UNCHANGED <<syncVars, quote, position, assessed, quotes, deaths>>

WorkerDies ==
  /\ deaths < MaxDeaths /\ deaths' = deaths + 1
  /\ marking # NoMark /\ marking' = NoMark
  /\ UNCHANGED <<syncVars, quote, position, exitPlan, assessed, quotes>>

QuoteArrives(price) ==
  /\ quotes < MaxQuotes /\ quotes' = quotes + 1
  /\ quote' = [price |-> price, at |-> clock]
  /\ UNCHANGED <<syncVars, position, exitPlan, assessed, marking, deaths>>

ExitNext ==
  \/ SyncNext /\ UNCHANGED exitOnly
  \/ Monitor \/ Mark \/ WorkerDies
  \/ \E p \in Positions, clear \in BOOLEAN : Assess(p, clear)
  \/ \E price \in Prices : QuoteArrives(price)

ExitSpec == ExitInit /\ [][ExitNext]_exitVars

-----------------------------------------------------------------------------
(* Properties                                                              *)

ExitTypeOK ==
  /\ SyncTypeOK
  /\ position \in [Positions -> {"OPEN", "EXIT_SIGNALLED"}]
  /\ \A p \in Positions : exitPlan[p].status \in
       {"NONE", "EXIT_RISK_REVIEW_REQUIRED", "RISK_AUTHORIZED_EXIT", "EXIT_RISK_BLOCKED"}
  /\ \A a \in assessed : a.authorized \in BOOLEAN /\ a.at <= clock

(* An exit is authorized only on or after the ex-date, at the price it     *)
(* waits for, on a position that was signalled, and from a snapshot that   *)
(* really read the positions and showed the share at most 15 minutes, and  *)
(* a quote at most 5 minutes, before; that of a fraction, which no session *)
(* but the regular one trades, only within it.  So it is whatever time     *)
(* passed and however often the worker died since the signal.  Whole       *)
(* shares are authorized at any hour.                                      *)
ExitEvidence ==
  \A p \in Positions :
    exitPlan[p].status = "RISK_AUTHORIZED_EXIT" =>
      LET plan == exitPlan[p] IN
      /\ position[p] = "EXIT_SIGNALLED" /\ plan.revalidated >= ExTick
      /\ p \in Fractional => Opens <= plan.revalidated /\ plan.revalidated < Closes0
      /\ plan.quote.price >= Target /\ plan.snapshot.shares >= 1
      /\ "get_equity_positions" \in plan.snapshot.datasets
      /\ plan.revalidated - plan.snapshot.at <= SnapshotAge
      /\ plan.revalidated - plan.quote.at \in 0..QuoteAge

(* However the worker dies, an exit gets at most one authorization, and    *)
(* the plan says AUTHORIZED only if it has it.  The price is that a worker *)
(* that dies before it marks the plan finds the proposal a duplicate, and  *)
(* blocks for good an exit that was authorized.                            *)
OneExitAuthorization ==
  \A p \in Positions :
    LET granted == {a \in assessed : a.authorized /\ a.proposal[1] = p} IN
    /\ Cardinality(granted) <= 1
    /\ exitPlan[p].status = "RISK_AUTHORIZED_EXIT" => granted # {}
    /\ exitPlan[p].status = "EXIT_RISK_BLOCKED" /\ granted # {} => deaths > 0
=============================================================================
