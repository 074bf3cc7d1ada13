---------------------------- MODULE BacktestEngine ----------------------------
(***************************************************************************)
(* FixedTargetBacktestEngine (backend/src/long_invest/modules/backtests    *)
(* /engine.py): one item's bars are walked through in the order of their   *)
(* dates, an order placed on the close of a bar fills at the open of the   *)
(* next, and the whole capital is either in cash or in the stock.          *)
(*                                                                         *)
(* Money is in cents and a quantity in units of 1/Unit of a share; prices, *)
(* targets and factors are such that the products the code keeps exact are *)
(* integers.  What it rounds (_money, quantize) is rounded here alike.     *)
(***************************************************************************)
EXTENDS SignalZones

CONSTANTS
  Unit,               \* 1 / _QUANTITY
  Capitals,           \* initial_capital
  OpenPrice, ClosePrice,  \* what the bars may show
  TargetValues,       \* targets a task, or a version of its prices, may have
  Factor,             \* adjustment factors, as records of num and den
  MaxBars,            \* bounds: bars of the test period,
  MaxAdjustments      \*   and company actions among them

VARIABLES
  capital, bars,      \* initial_capital, and how many bars are through
  account,            \* _Position: cash, quantity, entry_price
  pending,            \* the order to fill at the next open
  targets, zone,      \* current_targets, current_zone
  books,              \* the trades: how many, and their realized amounts; and how many
                      \*   company actions there were
  ended               \* "no", or "adjusted" within the next bar; "raised" or "asserted",
                      \*   or "reported" with _metrics

evars == <<capital, bars, account, pending, targets, zone, books, ended>>

NoOrder == [direction |-> "NONE", cash |-> 0, position |-> 0]
NoBooks == [buys |-> 0, sales |-> 0, profit |-> 0, loss |-> 0, adjustments |-> 0]

EInit ==
  /\ capital \in Capitals /\ targets \in TargetValues
  /\ account = [cash |-> capital, quantity |-> 0, entry |-> 0]
  /\ bars = 0 /\ pending = NoOrder /\ zone = "UNKNOWN"
  /\ books = NoBooks /\ ended = "no"

-----------------------------------------------------------------------------
\* _money: n/d cents, halves away from zero
Money(n, d) == IF n >= 0 THEN (2 * n + d) \div (2 * d) ELSE -((d - 2 * n) \div (2 * d))

Held(p) == p.quantity > 0

Scaled(values, f) ==
  [level \in DOMAIN values |-> (values[level] * f.num) \div f.den]

\* _adjust_open_position
AdjustedPosition(p, f) ==
  IF Held(p) THEN [p EXCEPT !.quantity = (@ * f.den) \div f.num,
                            !.entry = (@ * f.num) \div f.den]
  ELSE p

\* Faulty variant: the order to sell keeps the quantity it was placed with.
AdjustedOrderNot(order, before, after) == order

AdjustedOrder(order, before, after) ==
  IF Held(before) /\ order.direction = "SELL"
  THEN [order EXCEPT !.position = after.quantity] ELSE order

\* Faulty variant: the nearest quantity.
AffordedNearest(cash, price) == Money(cash * Unit, price)

\* What the cash buys, rounded down.
Afforded(cash, price) == (cash * Unit) \div price

\* _fill_order of a buy
Bought(p, open) ==
  LET quantity == Afforded(p.cash, open)
  IN  [cash |-> Money(p.cash * Unit - quantity * open, Unit),
       quantity |-> quantity, entry |-> open]

\* _fill_order of a sale, and its realized amount
Sold(p, open) ==
  [cash |-> Money(p.cash * Unit + p.quantity * open, Unit), quantity |-> 0, entry |-> 0]
Realized(p, open) == Money(p.quantity * open - p.quantity * p.entry, Unit)

\* The trades that _metrics counts and adds up (which of them were won goes by
\* their rounded rates, and is left out).
BookedSale(b, amount) ==
  [b EXCEPT !.sales = @ + 1,
            !.profit = IF amount > 0 THEN @ + amount ELSE @,
            !.loss = IF amount < 0 THEN @ - amount ELSE @]

\* The order cannot be filled: capital is insufficient, nothing is left to sell.
Unfillable(order, p, open) ==
  \/ order.direction = "BUY" /\ Afforded(p.cash, open) = 0
  \/ order.direction = "SELL" /\ p.quantity = 0

\* The assertions of _fill_order do not hold.
Misplaced(order, p) ==
  order # NoOrder /\ (order.cash # p.cash \/ order.position # p.quantity)

\* _new_order
NewOrder(z, p) ==
  CASE ~Held(p) /\ z \in LowZones ->
         [direction |-> "BUY", cash |-> p.cash, position |-> p.quantity]
    [] Held(p) /\ z \in HighZones ->
         [direction |-> "SELL", cash |-> p.cash, position |-> p.quantity]
    [] OTHER -> NoOrder

\* One of the company actions that take effect by the next bar.
Adjust(f) ==
  LET adjusted == AdjustedPosition(account, f)
  IN  /\ ended \in {"no", "adjusted"} /\ bars < MaxBars /\ ended' = "adjusted"
      /\ targets' = Scaled(targets, f) /\ account' = adjusted
      /\ pending' = AdjustedOrder(pending, account, adjusted)
      /\ books' = [books EXCEPT !.adjustments = @ + 1]
      /\ UNCHANGED <<capital, bars, zone>>

\* The rest of the bar: the version of the prices in force from it on, the fill at
\* its open, and the signal of its close.
Bar(open, close, values) ==
  LET filled == CASE pending.direction = "BUY" -> Bought(account, open)
                  [] pending.direction = "SELL" -> Sold(account, open)
                  [] OTHER -> account
  IN  /\ ended \in {"no", "adjusted"} /\ bars < MaxBars /\ bars' = bars + 1
      /\ targets' = IF values = {} THEN targets ELSE CHOOSE v \in values : TRUE
      /\ IF Misplaced(pending, account) \/ Unfillable(pending, account, open)
         THEN /\ ended' = IF Misplaced(pending, account) THEN "asserted" ELSE "raised"
              /\ UNCHANGED <<account, pending, zone, books>>
         ELSE /\ ended' = "no" /\ account' = filled
              /\ books' = CASE pending.direction = "BUY" -> [books EXCEPT !.buys = @ + 1]
                           [] pending.direction = "SELL" ->
                                BookedSale(books, Realized(account, open))
                           [] OTHER -> books
              /\ zone' = NextZone(zone, close, targets', "SCHEDULED_QUOTE")
              /\ pending' = NewOrder(zone', filled)
      /\ UNCHANGED capital

\* The bars are through, an order may be left unfilled, and _metrics reports.
Report ==
  /\ ended = "no" /\ bars > 0 /\ ended' = "reported"
  /\ UNCHANGED <<capital, bars, account, pending, targets, zone, books>>

ENext ==
  \/ \E f \in Factor : books.adjustments < MaxAdjustments /\ Adjust(f)
  \/ \E open \in OpenPrice, close \in ClosePrice :
       Bar(open, close, {}) \/ \E v \in TargetValues : Bar(open, close, {v})
  \/ Report

ESpec == EInit /\ [][ENext]_evars

-----------------------------------------------------------------------------
\* An order fills against exactly the cash and the quantity it was placed with,
\* as adjusted by the company actions between the close and the open: the
\* assertions at the end of _fill_order never fail.  Nothing is bought on top of
\* what is held.
OrderMatchesPosition ==
  ended # "asserted" /\ (pending.direction = "BUY" => ~Held(account))

\* The trades explain the cash: it never runs out; what is bought is sold, held or,
\* where a company action leaves less than the least quantity, lost to rounding;
\* and once nothing is held the reported net profit is what the cash has gained,
\* to a cent per trade, or more where an adjusted quantity was rounded down.
TradesExplainCash ==
  LET sales == books.sales
      net == books.profit - books.loss
      held == IF Held(account) THEN 1 ELSE 0
  IN  /\ account.cash >= 0
      /\ sales + held <= books.buys /\ books.buys <= sales + held + books.adjustments
      /\ ~Held(account) => /\ account.cash - capital <= net + sales
                           /\ books.adjustments > 0 \/ account.cash - capital >= net - sales

\* Orders, account and trades agree, across every company action.
EngineSound == OrderMatchesPosition /\ TradesExplainCash
=============================================================================
