-------------------------- MODULE CandidateScanner --------------------------
(***************************************************************************)
(* The research side of strategies: immutable strategy versions, their     *)
(* deterministic evaluation, and the worker's bounded scan of instruments  *)
(* (backend/app/candidate_scanner.py, strategy_engine.py and the strategy  *)
(* routes of main.py).  The planner buys from what the scan records.       *)
(*                                                                         *)
(* A fact is a set: {v}, or {} for the None of Python.  Days are relative  *)
(* to now, so a history changes when data arrives and when a day passes.   *)
(* next_scan_at is the number of Waits until an instrument is due again.   *)
(* Statistics of volume and recovery are left out of the facts.            *)
(***************************************************************************)
EXTENDS Integers, Sequences, FiniteSets, SequencesExt, FiniteSetsExt

CONSTANTS
  Instruments,  \* active instruments: symbol and asset type
  Histories,    \* data records an instrument may have, oldest first
  Specs,        \* specifications of strategies
  Scenarios,    \* strategy_scenarios
  Authors,      \* API threads
  ScanSize,     \* candidate_scanner_batch_size
  MaxPriceAge,  \* candidate_scanner_max_price_age_days
  MaxVersions,  \* bound: strategy versions
  MaxChanges    \* bound: changes of data and of lifecycles

VARIABLES
  history,      \* data_records of each instrument
  lifecycle,    \* of each scenario
  versions,     \* strategy_versions in the order of their ids
  author,       \* what each thread is about to commit
  scan,         \* candidate_scan_states: <<id, instrument>> -> row
  changes       \* bound counter

scannerVars == <<history, lifecycle, versions, author, scan, changes>>

-----------------------------------------------------------------------------
(* Deterministic evaluation (strategy_engine.py)                           *)

Operators == {"eq", "ne", "in", "not_in", "gt", "gte", "lt", "lte"}
StrategyRule(rule) ==
  /\ rule.operator \in Operators
  /\ rule.operator \in {"in", "not_in"} => IsFiniteSet(rule.value)

(* The schema of strategies admits only rules of these forms.              *)
ASSUME SpecAssumption ==
  \A spec \in Specs : \A k \in DOMAIN spec.entries : StrategyRule(spec.entries[k])

Compare(actual, operator, expected) ==
  CASE operator = "eq" -> actual = {expected}
    [] operator = "ne" -> actual # {expected}
    [] operator = "in" -> actual # {} /\ actual \subseteq expected
    [] operator = "not_in" -> actual = {} \/ ~ actual \subseteq expected
    [] operator = "gt" -> \E x \in actual : x > expected
    [] operator = "gte" -> \E x \in actual : x >= expected
    [] operator = "lt" -> \E x \in actual : x < expected
    [] operator = "lte" -> \E x \in actual : x <= expected

RuleMatches(rule, facts) ==
  rule.field \in DOMAIN facts /\ Compare(facts[rule.field], rule.operator, rule.value)

InUniverse(universe, symbol) ==
  /\ symbol \notin universe.exclude
  /\ universe.symbols # {} => symbol \in universe.symbols

Every(rules, facts) == \A k \in DOMAIN rules : RuleMatches(rules[k], facts)
Some(rules, facts) == \E k \in DOMAIN rules : RuleMatches(rules[k], facts)

Evaluate(spec, symbol, facts) ==
  IF ~ InUniverse(spec.universe, symbol) \/ ~ Every(spec.filters, facts) THEN "EXCLUDE"
  ELSE IF Some(spec.exits, facts) THEN "EXIT"
  ELSE IF spec.entries # <<>> /\ Every(spec.entries, facts) THEN "ENTRY"
  ELSE "HOLD"

-----------------------------------------------------------------------------
(* Evidence of an instrument (_facts)                                      *)

(* Closing prices by day: of two rows of a day the later one counts.       *)
Closes(rows) ==
  LET bars == SelectSeq(rows, LAMBDA r : r.type \in {"OHLCV", "BROKER_OHLCV"} /\ r.value > 0)
  IN  [d \in {r.day : r \in ToSet(bars)} |->
         Last(SelectSeq(bars, LAMBDA r : r.day = d)).value]

Actions(rows) == {r \in ToSet(rows) : r.type = "CORPORATE_ACTION"}

(* The next dividend; of two on one day the broker's is taken.             *)
Upcoming(rows) ==
  LET ahead == {r \in Actions(rows) : r.day >= 0}
      first == {r \in ahead : \A s \in ahead : r.day <= s.day}
      own   == {r \in first : r.source = "ROBINHOOD"}
  IN  IF own # {} THEN own ELSE first

Detail(rows) ==
  IF DOMAIN Closes(rows) = {} THEN "NO_PRICE_HISTORY"
  ELSE IF Max(DOMAIN Closes(rows)) < -MaxPriceAge THEN "STALE_PRICE_HISTORY"
  ELSE "READY"

Facts(instrument, rows, spec) ==
  LET close == Closes(rows)[Max(DOMAIN Closes(rows))]
      next  == Upcoming(rows)
      soon(r) == r.type = "BROKER_EARNINGS" /\ r.day \in 0..spec.earningsDays
  IN  [latest_close |-> {close},
       latest_price_day |-> {Max(DOMAIN Closes(rows))},
       dividend_per_share |-> {r.value : r \in next},
       event_yield_pct |-> {(100 * r.value) \div close : r \in next},
       days_to_ex_dividend |-> {r.day : r \in next},
       historical_dividend_events |-> {Cardinality({r \in Actions(rows) : r.day < 0})},
       market_cap |-> LET f == SelectSeq(rows, LAMBDA r : r.type = "FUNDAMENTALS")
                      IN  IF f = <<>> THEN {} ELSE {Last(f).value},
       asset_type |-> {instrument.asset},
       earnings_excluded |-> {IF \E r \in ToSet(rows) : soon(r) THEN 1 ELSE 0},
       recovered |-> {0},
       holding_days |-> {0}]

-----------------------------------------------------------------------------
(* The scan                                                                *)

VersionRow(s, n, spec) == [scenario |-> s, number |-> n, specification |-> spec]

(* Before its first scan an instrument has no row.  lapsed says that the   *)
(* evidence was lacking since the last decision was recorded.              *)
NeverScanned == [outcome |-> "NOT_READY", evidence |-> {}, decision |-> {},
                 next |-> -1, lapsed |-> FALSE]
ScanKeys == (1..MaxVersions) \X Instruments

ScannerInit ==
  /\ history \in {[i \in Instruments |-> h] : h \in Histories}
  /\ lifecycle = [s \in Scenarios |-> "RESEARCH"]
  /\ versions = <<>>
  /\ author = [c \in Authors |-> {}]
  /\ scan = [k \in ScanKeys |-> NeverScanned]
  /\ changes = 0

(* The latest version of each scenario under research.                     *)
Scanned ==
  {id \in DOMAIN versions :
     /\ lifecycle[versions[id].scenario] = "RESEARCH"
     /\ \A k \in DOMAIN versions : versions[k].scenario = versions[id].scenario
          => versions[k].number <= versions[id].number}

Due(id) ==
  LET universe == versions[id].specification.universe
  IN  {i \in Instruments : /\ scan[<<id, i>>].next <= 0
                           /\ InUniverse(universe, i.symbol)
                           /\ universe.assets # {} => i.asset \in universe.assets}

(* Instruments with a dividend ahead come first, then those with any; among*)
(* them those never scanned, then by next_scan_at, left open here.         *)
Order(id, i) ==
  (IF \E r \in Actions(history[i]) : r.day >= 0 THEN 0
   ELSE IF Actions(history[i]) # {} THEN 2 ELSE 4)
  + (IF scan[<<id, i>>].next = -1 THEN 0 ELSE 1)

FirstDue(id, S, n) ==
  /\ S \subseteq Due(id) /\ Cardinality(S) = Min({n, Cardinality(Due(id))})
  /\ \A i \in S, k \in Due(id) \ S : Order(id, i) <= Order(id, k)

(* Each version gets its share; the last one what the others left.         *)
Allowance(id, chosen) ==
  LET left == ScanSize -
              MapThenSumSet(LAMBDA k : Cardinality(chosen[k]), {k \in Scanned : k < id})
      share == Max({1, ScanSize \div Cardinality(Scanned)})
  IN  IF id = Max(Scanned) THEN left ELSE Min({share, left})

(* A decision is recorded when the evidence or the outcome is new.         *)
\* Mutant: only new evidence is recorded.
NewEvidence(row, facts, outcome) == row.evidence # {facts}
Changed(row, facts, outcome) == row.evidence # {facts} \/ row.outcome # outcome

ScannedRow(key) ==
  LET row == scan[key]
      i == key[2]
      spec == versions[key[1]].specification
      facts == Facts(i, history[i], spec)
      outcome == Evaluate(spec, i.symbol, facts)
      fresh == Changed(row, facts, outcome)
  IN  IF Detail(history[i]) # "READY"
      THEN [row EXCEPT !.outcome = "NOT_READY", !.next = 3, !.lapsed = TRUE]
      ELSE [outcome |-> outcome, evidence |-> {facts},
            decision |-> IF fresh THEN {[decision |-> outcome, inputs |-> facts]}
                         ELSE row.decision,
            next |-> IF outcome = "ENTRY" THEN 1 ELSE 2,
            lapsed |-> row.lapsed /\ ~ fresh]

ScanBatch ==
  /\ Scanned # {}
  /\ \E chosen \in [Scanned -> SUBSET Instruments] :
       /\ \A id \in Scanned : FirstDue(id, chosen[id], Allowance(id, chosen))
       /\ scan' = [k \in ScanKeys |-> IF k[1] \in Scanned /\ k[2] \in chosen[k[1]]
                                     THEN ScannedRow(k) ELSE scan[k]]
  /\ UNCHANGED <<history, lifecycle, versions, author, changes>>

(* Data arrives or a day passes; an interval of the scanner passes.        *)
HistoryChanges(i) ==
  /\ changes < MaxChanges /\ changes' = changes + 1
  /\ \E h \in Histories \ {history[i]} : history' = [history EXCEPT ![i] = h]
  /\ UNCHANGED <<lifecycle, versions, author, scan>>
Wait ==
  /\ scan' = [k \in ScanKeys |-> [scan[k] EXCEPT !.next = IF @ > 0 THEN @ - 1 ELSE @]]
  /\ UNCHANGED <<history, lifecycle, versions, author, changes>>

-----------------------------------------------------------------------------
(* Routes                                                                  *)

VersionsOf(s) == {v \in ToSet(versions) : v.scenario = s}

(* The duplicate check and the next number, read before the insert.        *)
VersionLoad(c, s, spec) ==
  /\ author[c] = {} /\ Len(versions) < MaxVersions
  /\ ~ \E v \in VersionsOf(s) : v.specification = spec
  /\ author' = [author EXCEPT ![c] = {VersionRow(s, Cardinality(VersionsOf(s)) + 1, spec)}]
  /\ UNCHANGED <<history, lifecycle, versions, scan, changes>>

(* A number or checksum taken meanwhile breaks a unique index: no insert.  *)
Accepted(row) ==
  ~ \E v \in VersionsOf(row.scenario) :
      v.number = row.number \/ v.specification = row.specification
VersionCommit(c) ==
  \E row \in author[c] :
    /\ author' = [author EXCEPT ![c] = {}]
    /\ versions' = IF Accepted(row) /\ Len(versions) < MaxVersions
                   THEN Append(versions, row) ELSE versions
    /\ UNCHANGED <<history, lifecycle, scan, changes>>

UpdateScenario(s, value) ==
  /\ lifecycle[s] # value /\ changes < MaxChanges /\ changes' = changes + 1
  /\ lifecycle' = [lifecycle EXCEPT ![s] = value]
  /\ UNCHANGED <<history, versions, author, scan>>

ScannerNext ==
  \/ ScanBatch
  \/ Wait
  \/ \E i \in Instruments : HistoryChanges(i)
  \/ \E c \in Authors : \/ VersionCommit(c)
                        \/ \E s \in Scenarios, spec \in Specs : VersionLoad(c, s, spec)
  \/ \E s \in Scenarios, value \in {"RESEARCH", "PAUSED"} : UpdateScenario(s, value)

ScannerSpec == ScannerInit /\ [][ScannerNext]_scannerVars

-----------------------------------------------------------------------------
(* Properties                                                              *)

ScannerTypeOK ==
  /\ history \in [Instruments -> Histories]
  /\ \A id \in DOMAIN versions : LET rules == versions[id].specification.entries
                                 IN  \A k \in DOMAIN rules : StrategyRule(rules[k])
  /\ \A k \in ScanKeys :
       /\ scan[k].next \in -1..3 /\ scan[k].lapsed \in BOOLEAN
       /\ scan[k].outcome \in {"NOT_READY", "EXCLUDE", "EXIT", "ENTRY", "HOLD"}
  /\ \A c \in Authors : Cardinality(author[c]) <= 1

(* The planner reads an instrument's outcome with its last decision row.   *)
(* While the outcome is not NOT_READY the row has that outcome and the     *)
(* evidence the scan last saw, and was made after any gap in the evidence. *)
DecisionCurrent ==
  \A k \in ScanKeys :
    scan[k].outcome # "NOT_READY" =>
      /\ scan[k].decision = {[decision |-> scan[k].outcome, inputs |-> d] : d \in scan[k].evidence}
      /\ scan[k].decision # {} /\ ~ scan[k].lapsed
=============================================================================
