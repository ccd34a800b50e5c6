----------------------------- MODULE MCResearch -----------------------------
(***************************************************************************)
(* Services on small instances: the risk service, the paper simulator with *)
(* the data it prices by, the Strategy Council, the candidate scanner,     *)
(* dividend exits with the broker synchronization they read, notifications *)
(* of plans, logins, sessions and the trading calendar.  They share no row *)
(* these models keep, so a behaviour runs one of them, chosen at the       *)
(* start, and the rest stay in their initial state.                        *)
(***************************************************************************)
EXTENDS RiskAuthorization, PaperSimulator, IntelligenceCouncil, CandidateScanner,
        DividendExit, PlanNotifications, LoginThrottle, LoginSessions, TradingCalendar

VARIABLE part   \* the service that runs

judging == <<riskVars, paperVars, councilVars, scannerVars>>
serving == <<noticeVars, throttleVars, loginVars, calendarVars>>
researchVars == <<part, judging, exitVars, serving>>

-----------------------------------------------------------------------------
(* The instances                                                           *)

Policy0 ==
  [maxQuantity |-> 100000, minNotional |-> 100, maxNotional |-> 1000000,
   maxDeviation |-> 100, maxOpen |-> 20, maxAge |-> 300, maxProposalAge |-> 300,
   maxPosition |-> 1, maxExposure |-> 100, maxSector |-> 20, maxCorrelated |-> 30,
   maxLoss |-> 2, maxDrawdown |-> 10, maxVolatility |-> 40, maxPowerUse |-> 100,
   trialEnabled |-> TRUE, trialBelow |-> 10000, trialNotional |-> 200,
   eligible |-> FALSE]
OwnPolicies == {[Policy0 EXCEPT !.maxDrawdown = 7, !.trialNotional = 100]}

(* A buy within the policy's drawdown and one beyond it that asks for more.*)
Order1 ==
  [proposal |-> "a", side |-> "BUY", qty |-> 15, price |-> 10, reference |-> 10,
   fractions |-> TRUE, session |-> TRUE, portfolio |-> 9000, power |-> 5000,
   position |-> 0, exposure |-> 0, sector |-> 0, correlated |-> 0, pnl |-> 0,
   drawdown |-> 6, volatility |-> 20, open |-> 0, age |-> 10, proposalAge |-> 10,
   limits |-> [maxDrawdown |-> 8], farm |-> TRUE]
RiskRequests == {Order1, [Order1 EXCEPT !.drawdown = 12, !.limits = [maxDrawdown |-> 15]]}

Quote(price, at) ==
  [type |-> "QUOTE", symbol |-> "S", zoned |-> TRUE, at |-> at, payload |-> [price |-> price]]
BadBar ==
  [type |-> "OHLCV", symbol |-> "S", zoned |-> TRUE, at |-> 0,
   payload |-> [open |-> 2, high |-> 1, low |-> 1, close |-> 1, volume |-> 1]]
MarketItems == {Quote(100, 0), Quote(1, -20), BadBar}

(* The last sale brings half a cent less than its commission.              *)
Assessed(side, qty, price, outcome) ==
  [symbol |-> "S", side |-> side, qty |-> qty, price |-> price, outcome |-> outcome]
PaperAuthorized ==
  {Assessed("BUY", 2, 100, "AUTHORIZED"), Assessed("BUY", 3, 100, "AUTHORIZED"),
   Assessed("SELL", 2, 100, "AUTHORIZED"), Assessed("SELL", 1, 100, "REJECTED"),
   Assessed("SELL", 1, 1, "AUTHORIZED")}

Artifact(recommendation, fresh) ==
  [recommendation |-> recommendation, evidence |-> TRUE, fresh |-> fresh, cited |-> TRUE]
CouncilArtifacts == {Artifact("HOLD", FALSE), Artifact("HOLD", TRUE), Artifact("BUY", TRUE)}

DataRecord(type, at, value, source) ==
  [type |-> type, day |-> at, value |-> value, source |-> source]
StaleHistory == <<DataRecord("OHLCV", -9, 10, "YAHOO")>>
CheapHistory ==
  <<DataRecord("CORPORATE_ACTION", -90, 1, "YAHOO"),
    DataRecord("BROKER_OHLCV", -1, 10, "ROBINHOOD"),
    DataRecord("CORPORATE_ACTION", 5, 1, "ROBINHOOD"),
    DataRecord("CORPORATE_ACTION", 5, 2, "YAHOO")>>
DearHistory ==
  <<DataRecord("OHLCV", -1, 10, "YAHOO"), DataRecord("BROKER_OHLCV", -1, 50, "ROBINHOOD"),
    DataRecord("FUNDAMENTALS", -1, 7, "YAHOO"),
    DataRecord("CORPORATE_ACTION", 5, 1, "YAHOO"),
    DataRecord("BROKER_EARNINGS", 3, 0, "ROBINHOOD")>>
ScanHistories == {StaleHistory, CheapHistory, DearHistory}
ScanInstruments == {[symbol |-> s, asset |-> "EQUITY"] : s \in {"AAA", "BBB"}}
Rule(field, operator, value) == [field |-> field, operator |-> operator, value |-> value]
DividendFarm ==
  [universe |-> [symbols |-> {}, exclude |-> {}, assets |-> {"EQUITY"}],
   filters |-> <<Rule("earnings_excluded", "eq", 0)>>,
   exits |-> <<Rule("recovered", "eq", 1)>>,
   entries |-> <<Rule("event_yield_pct", "gte", 8), Rule("asset_type", "in", {"EQUITY"})>>,
   earningsDays |-> 5]
ScanSpecs == {DividendFarm}

FirstDay == <<2021, 12, 15>>
LastDay == <<2023, 1, 10>>

-----------------------------------------------------------------------------

Init ==
  /\ RiskInit /\ PaperInit /\ CouncilInit /\ ScannerInit
  /\ ExitInit /\ NoticeInit /\ ThrottleInit /\ LoginInit /\ CalendarInit
  /\ part \in {"risk", "paper", "council", "scanner", "exits", "notices", "throttle",
              "sessions", "calendar"}
  /\ part # "scanner" => history = [i \in Instruments |-> StaleHistory]
  /\ part # "notices" => health = "up"

RiskStep ==
  /\ part = "risk" /\ RiskNext
  /\ UNCHANGED <<part, paperVars, councilVars, scannerVars, exitVars, serving>>
PaperStep ==
  /\ part = "paper" /\ PaperNext
  /\ UNCHANGED <<part, riskVars, councilVars, scannerVars, exitVars, serving>>
CouncilStep ==
  /\ part = "council" /\ CouncilNext
  /\ UNCHANGED <<part, riskVars, paperVars, scannerVars, exitVars, serving>>
ScannerStep ==
  /\ part = "scanner" /\ ScannerNext
  /\ UNCHANGED <<part, riskVars, paperVars, councilVars, exitVars, serving>>
ExitStep ==
  /\ part = "exits" /\ ExitNext
  /\ UNCHANGED <<part, judging, serving>>
NoticeStep ==
  /\ part = "notices" /\ NoticeNext
  /\ UNCHANGED <<part, judging, exitVars, throttleVars, loginVars, calendarVars>>
ThrottleStep ==
  /\ part = "throttle" /\ ThrottleNext
  /\ UNCHANGED <<part, judging, exitVars, noticeVars, loginVars, calendarVars>>
LoginStep ==
  /\ part = "sessions" /\ LoginNext
  /\ UNCHANGED <<part, judging, exitVars, noticeVars, throttleVars, calendarVars>>
CalendarStep ==
  /\ part = "calendar" /\ CalendarNext
  /\ UNCHANGED <<part, judging, exitVars, noticeVars, throttleVars, loginVars>>

Next ==
  \/ RiskStep
  \/ PaperStep
  \/ CouncilStep
  \/ ScannerStep
  \/ ExitStep
  \/ NoticeStep
  \/ ThrottleStep
  \/ LoginStep
  \/ CalendarStep

ResearchSpec == Init /\ [][Next]_researchVars

(* Every row and counter of these services has its type.                  *)
TypeOK ==
  /\ RiskTypeOK /\ PaperTypeOK /\ CouncilTypeOK /\ ScannerTypeOK
  /\ ExitTypeOK /\ NoticeTypeOK /\ ThrottleTypeOK /\ LoginTypeOK

(* EntryOffered of TradingCalendar, on the days it runs through: elsewhere *)
(* today stands still, and there is no need to look again.                 *)
EntryOfferedDaily == part = "calendar" => EntryOffered
=============================================================================
