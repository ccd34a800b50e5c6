--------------------------- MODULE PaperSimulator ---------------------------
(***************************************************************************)
(* The paper simulator (backend/app/paper/service.py): it fills an order   *)
(* for an authorized risk assessment at the price of a stored quote.  The  *)
(* thread loads cash and position, checks them, and later writes the       *)
(* values it computed from what it loaded.                                 *)
(*                                                                         *)
(* Quotes are the usable QUOTE records of MarketData.  Prices are dollars, *)
(* cash is in ten-thousandths of a dollar so that slippage is exact.       *)
(* Average cost and realized profit are left out.                          *)
(***************************************************************************)
EXTENDS MarketData, Functions

CONSTANTS
  Traders,      \* API threads
  Authorized,   \* risk assessments: symbol, side, qty, price, outcome
  InitialCash

(* What the routes' schemas let through.                                   *)
ASSUME OrderAssumption ==
  /\ InitialCash \in Nat
  /\ \A a \in Authorized : a.side \in {"BUY", "SELL"} /\ a.qty \in Nat
  /\ \A i \in Items : i.type = "QUOTE" => i.payload.price \in Int

VARIABLES
  aged,         \* records observed more than five minutes ago
  paper,        \* the paper account: cash, rows of positions, shares held
  orders,       \* paper_orders with their fills
  trader,       \* what each thread is about to commit
  overlapped    \* two executions were in flight at once

paperOnly == <<aged, paper, orders, trader, overlapped>>
paperVars == <<dataVars, paperOnly>>

PaperSymbols == {a.symbol : a \in Authorized}
Waiting == [stage |-> "none"]

PaperInit ==
  /\ DataInit
  /\ aged = {} /\ orders = {} /\ overlapped = FALSE
  /\ paper = [cash |-> InitialCash, open |-> {}, held |-> [s \in PaperSymbols |-> 0]]
  /\ trader = [t \in Traders |-> Waiting]

-----------------------------------------------------------------------------
Commission == 10000
FillPrice(side, price) == IF side = "BUY" THEN price * 10005 ELSE price * 9995
Consumed(a) == \E o \in orders : o.risk = a

Fits(a, row) ==
  /\ a.outcome = "AUTHORIZED"
  /\ row.item.type = "QUOTE" /\ Usable(row) /\ row \notin aged
  /\ row.item.symbol = a.symbol
  /\ row.item.payload.price > 0
  /\ LET gap == row.item.payload.price - a.price
     IN (IF gap < 0 THEN -gap ELSE gap) * 100 <= a.price

Cash(a, row) ==
  LET notional == FillPrice(a.side, row.item.payload.price) * a.qty
  IN IF a.side = "BUY" THEN -(notional + Commission) ELSE notional - Commission
Shares(a) == IF a.side = "BUY" THEN a.qty ELSE -a.qty

\* Mutant: the account is not asked whether it can pay.
Unchecked(a, row) == TRUE
Covered(a, row) ==
  IF a.side = "BUY" THEN paper.cash + Cash(a, row) >= 0 ELSE paper.held[a.symbol] >= a.qty

PaperLoad(t, a, row) ==
  /\ trader[t] = Waiting
  /\ ~Consumed(a) /\ Fits(a, row) /\ Covered(a, row)
  /\ trader' = [trader EXCEPT ![t] = [stage |-> "fill", risk |-> a, quote |-> row, seen |-> paper]]
  /\ overlapped' = (overlapped \/ \E u \in Traders : trader[u] # Waiting)
  /\ UNCHANGED <<dataVars, aged, paper, orders>>

(* Cash and position are written as computed from the loaded rows; a       *)
(* second order of an assessment, or a second row of a position, raises.   *)
Raises(w) ==
  Consumed(w.risk) \/ w.risk.symbol \in paper.open \ w.seen.open
FilledAccount(w) ==
  [cash |-> w.seen.cash + Cash(w.risk, w.quote),
   open |-> paper.open \cup {w.risk.symbol},
   held |-> [paper.held EXCEPT ![w.risk.symbol] = w.seen.held[w.risk.symbol] + Shares(w.risk)]]

PaperCommit(t) ==
  /\ trader[t] # Waiting
  /\ LET w == trader[t] IN
     IF Raises(w) THEN UNCHANGED <<paper, orders>>
     ELSE /\ paper' = FilledAccount(w)
          /\ orders' = orders \cup {[risk |-> w.risk, quote |-> w.quote]}
  /\ trader' = [trader EXCEPT ![t] = Waiting]
  /\ UNCHANGED <<dataVars, aged, overlapped>>

QuoteAges ==
  /\ \E row \in records \ aged : row.item.type = "QUOTE" /\ aged' = aged \cup {row}
  /\ UNCHANGED <<dataVars, paper, orders, trader, overlapped>>

PaperNext ==
  \/ DataNext /\ UNCHANGED paperOnly
  \/ QuoteAges
  \/ \E t \in Traders :
       \/ \E a \in Authorized, row \in records : PaperLoad(t, a, row)
       \/ PaperCommit(t)

PaperSpec == PaperInit /\ [][PaperNext]_paperVars

-----------------------------------------------------------------------------
PaperTypeOK ==
  /\ DataTypeOK
  /\ aged \subseteq records
  /\ paper.cash \in Int /\ paper.open \subseteq PaperSymbols /\ paper.held \in [PaperSymbols -> Int]
  /\ \A o \in orders : o.risk \in Authorized /\ o.quote \in records
  /\ overlapped \in BOOLEAN

(* While executions do not overlap, the account is its opening cash with   *)
(* every fill booked once, and never short.  No purchase overdraws it: only*)
(* a sale that brings less than its commission does, for nothing asks a    *)
(* sale whether the account can pay.  Executions that overlap write over   *)
(* each other: nothing in the code stops them, though the documents say    *)
(* that insufficient cash fails closed, and this property exempts them.    *)
SerialLedger ==
  ~overlapped =>
    /\ paper.cash = InitialCash +
         SumFunctionOnSet([o \in orders |-> Cash(o.risk, o.quote)], orders)
    /\ paper.cash >= 0 \/ \E o \in orders : o.risk.side = "SELL" /\ Cash(o.risk, o.quote) < 0
    /\ \A s \in PaperSymbols :
         /\ paper.held[s] >= 0
         /\ paper.held[s] = SumFunctionOnSet([o \in orders |-> Shares(o.risk)],
                                             {o \in orders : o.risk.symbol = s})
=============================================================================
