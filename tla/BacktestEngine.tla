--------------------------- MODULE BacktestEngine ---------------------------
(***************************************************************************)
(* The chronological event loop of backtest/engine.py together with the    *)
(* objects one run owns: the portfolio, the simulated broker, the risk     *)
(* manager and the orders.  One session is                                 *)
(*                                                                         *)
(*   BeginSession      corporate actions, bars, session volume             *)
(*   QueueOpenOrders   queued next_open targets become orders              *)
(*   attempts ...      every queued order, oldest first, against the open  *)
(*   RunStrategy       targets from history up to this session             *)
(*   attempts ...      same_close orders against the close                 *)
(*   EndSession        closing marks                                       *)
(*                                                                         *)
(* An order is identified by the date it was created on and its ticker:    *)
(* a session creates one batch, in ticker order, so the order of the keys  *)
(* is the order of the engine's O00000001, O00000002, ... identifiers.     *)
(*                                                                         *)
(* Money is an integer number of a unit small enough for the rates in use  *)
(* to divide exactly, rates are percentages, slippage is in basis points.  *)
(* Average cost, realized P&L and timestamps decide nothing here and are   *)
(* left out; CostAccounting covers the arithmetic of average cost.         *)
(***************************************************************************)
EXTENDS Integers, FiniteSets, FiniteSetsExt

CONSTANTS
  Tickers,           \* numbered in the order of their names
  Calendar,          \* sessions of the trading calendar, as numbers
  Feed,              \* the sessions the market data has bars for
  Bars,              \* the bars a ticker may print in one session
  NoBar,             \* a ticker without a row in a session
  CorporateActions,  \* [ticker, date, kind, num, den] known on their date
  Universes,         \* memberships a session may have; {Tickers} if no store
  Targets,           \* target lists a strategy may emit: [tickers -> percent]
  NoTargets,         \* a strategy that does not rebalance
  KillSwitch,        \* readings of the kill switch; {FALSE} if there is none
  Config,            \* BacktestConfig, CommissionModel and SlippageModel
  Risk,              \* RiskConfig, its fractions as percentages
  Quantities         \* order sizes the lifecycle is instantiated with

BasisPoints == 10000      \* in one
Dates == Calendar \union {0}
Sides == {"buy", "sell"}

BarType == [open : Nat, high : Nat, low : Nat, close : Nat, volume : Nat,
            value : Nat, halted : BOOLEAN]

ASSUME FeedAssumption ==
  /\ Calendar \subseteq Nat \ {0} /\ Feed \subseteq Calendar
  /\ Tickers \subseteq Nat
  /\ \A u \in Universes : u \subseteq Tickers

(* validate_ohlcv: prices are positive and inside the day's range.         *)
ASSUME BarsAssumption ==
  /\ Bars \subseteq BarType /\ NoBar \notin Bars
  /\ \A b \in Bars :
       /\ b.low > 0
       /\ b.low <= b.open /\ b.open <= b.high
       /\ b.low <= b.close /\ b.close <= b.high

(* Rates are fractions of the traded value: nothing in the code checks it. *)
ASSUME ConfigAssumption ==
  /\ Config.initial_cash \in Nat \ {0}
  /\ Config.execution_price \in {"next_open", "same_close"}
  /\ Config.order_type \in {"market", "limit"}
  /\ Config.time_in_force \in {"day", "gtc"}
  /\ Config.limit_offset \in Nat /\ Config.limit_offset < 100
  /\ Config.participation \in Nat /\ Config.participation <= 100
  /\ Config.buy_rate \in Nat /\ Config.sell_rate \in Nat /\ Config.sell_tax \in Nat
  /\ Config.sell_rate + Config.sell_tax <= 100
  /\ Config.slip_bps \in Nat /\ Config.slip_bps <= BasisPoints /\ Config.slip_fixed \in Nat

(* Slippage never exceeds a price: nothing in the code checks that either. *)
ASSUME SlippageAssumption ==
  \A b \in Bars : b.low * (BasisPoints - Config.slip_bps) >= BasisPoints * Config.slip_fixed

ASSUME TargetsAssumption ==
  /\ NoTargets \notin Targets
  /\ \A w \in Targets : DOMAIN w \subseteq Tickers /\ w \in [DOMAIN w -> 0..100]
  /\ KillSwitch \subseteq BOOLEAN

(* Of one ticker and date there may be several actions, but one split.     *)
ASSUME ActionsAssumption ==
  \A a \in CorporateActions :
    /\ a.ticker \in Tickers /\ a.kind \in {"split", "unsupported"}
    /\ a.num \in Nat \ {0} /\ a.den \in Nat \ {0}
    /\ \A b \in CorporateActions :
         <<a.ticker, a.date, a.kind>> = <<b.ticker, b.date, b.kind>> /\ a.kind = "split" => a = b

VARIABLES
  today,     \* the event date of the loop, 0 before the first
  phase,     \* where in the session the loop stands
  bars,      \* today's bar of each ticker
  universe,  \* today's active universe
  cash,      \* Portfolio.cash
  held,      \* Portfolio.positions[t].quantity
  mark,      \* Portfolio.last_prices, 0 for a ticker never priced
  orders,    \* all_orders: every order of the run, by key
  queue,     \* orders of the current pass still to be attempted
  working,   \* working_orders: open orders carried to the next session
  pending,   \* pending_targets
  volume,    \* volume_remaining: shares the session may still trade
  turnover,  \* daily_notional
  dayStart,  \* day_start equity
  peak,      \* peak_equity
  fills      \* result.fills

portfolioVars == <<cash, held, mark>>
sessionVars   == <<today, phase, bars, universe, dayStart, peak>>
orderVars     == <<orders, queue, working, pending>>
tradeVars     == <<volume, turnover, fills>>
vars == <<portfolioVars, sessionVars, orderVars, tradeVars>>

OrderIds == {<<d, t>> : d \in Feed, t \in Tickers}

TerminalStatuses == {"filled", "rejected", "cancelled", "expired"}

Remaining(o) == o.quantity - o.filled
IsOpen(o) == o.status \notin TerminalStatuses /\ Remaining(o) > 0

(* Newest first: a mutant of Older.                                        *)
Newer(j, k) == j[1] > k[1] \/ (j[1] = k[1] /\ j[2] > k[2])

(* The key order of sorted(orders, key=(created_at, order_id)).            *)
Older(j, k) == j[1] < k[1] \/ (j[1] = k[1] /\ j[2] < k[2])

(* The orders the loop attempts next: one, and the oldest of the pass.     *)
NextUp == {k \in queue : \A j \in queue \ {k} : Older(k, j)}
-----------------------------------------------------------------------------
(* Portfolio                                                               *)

(* portfolio.mark with one price column of today's bars.                   *)
MarkedAt(column) ==
  [t \in Tickers |-> IF bars[t] = NoBar THEN mark[t] ELSE bars[t][column]]

Gross(marks, shares) == MapThenSumSet(LAMBDA t : marks[t] * shares[t], Tickers)

(* Portfolio.total_equity                                                  *)
Equity == cash + Gross(mark, held)

(* Portfolio.positions has a ticker from its first fill on.                *)
Positions == {f.order[2] : f \in fills}

(* Days instead of sessions: a mutant of NextSession.                      *)
NextDay(d) == {d + 1}

(* TradingCalendar.next_session, as a set that is empty after the last     *)
(* session; without a calendar it is the feed's next date.                 *)
NextSession(d) == {e \in Calendar : e > d /\ \A f \in Calendar : f > d => e <= f}
-----------------------------------------------------------------------------
(* SimulatedBroker                                                         *)

Capacity(bar) ==
  IF bar = NoBar THEN 0 ELSE (bar.volume * Config.participation) \div 100

(* CommissionModel.calculate: commission and sell tax together.            *)
Fees(side, notional) ==
  IF side = "buy"
  THEN (notional * Config.buy_rate) \div 100
  ELSE (notional * Config.sell_rate) \div 100 + (notional * Config.sell_tax) \div 100

(* SlippageModel.execution_price: always to the trader's disadvantage.     *)
Impact(price) == (price * Config.slip_bps) \div BasisPoints + Config.slip_fixed
ExecutionPrice(side, price) ==
  IF side = "buy" THEN price + Impact(price) ELSE price - Impact(price)

(* _limit_base_price: whether today's range reaches the limit, and the     *)
(* better of the limit and the market price if it does.                    *)
Reached(o, bar) ==
  \/ Config.order_type = "market"
  \/ o.side = "buy" /\ bar.low <= o.limit
  \/ o.side = "sell" /\ bar.high >= o.limit

BasePrice(o, price) ==
  IF Config.order_type = "market" THEN price
  ELSE IF o.side = "buy" THEN Min({price, o.limit})
  ELSE Max({price, o.limit})

(* execute's quantity: what is left of the order and of the session.       *)
FillQuantity(o, available) == Min({Remaining(o), available})

(* The cash check before costs are known: a mutant of CanSettle.           *)
CanSettleWithoutFees(o, t, q, price) ==
  IF o.side = "buy" THEN q * price <= cash ELSE q <= held[t]

(* Sales unchecked: a mutant of CanSettle.                                 *)
CanSettleUncovered(o, t, q, price) ==
  o.side = "buy" => q * price + Fees("buy", q * price) <= cash

(* execute's last check: buys need the cash, sells need the shares.        *)
CanSettle(o, t, q, price) ==
  IF o.side = "buy"
  THEN q * price + Fees("buy", q * price) <= cash
  ELSE q <= held[t]

-----------------------------------------------------------------------------
(* RiskManager.evaluate: the order is approved when no limit objects.      *)

Signed(o, notional) == IF o.side = "buy" THEN notional ELSE -notional

Holdings == {t \in Tickers : held[t] > 0}

(* One position too many: a mutant of CountAllows.                         *)
CountAllowsOneMore(o, t) ==
  o.side = "buy" /\ held[t] = 0 => Cardinality(Holdings) <= Risk.max_positions

CountAllows(o, t) ==
  o.side = "buy" /\ held[t] = 0 => Cardinality(Holdings) < Risk.max_positions

RiskApproves(o, t, q, kill) ==
  LET notional == o.reference * q
      equity == Equity
  IN /\ ~kill
     /\ equity > 0
     /\ notional <= Risk.max_order_value
     /\ CountAllows(o, t)
     /\ bars[t].value > 0
     /\ 100 * notional <= Risk.max_liquidity * bars[t].value
     /\ 100 * (turnover + notional) <= Risk.max_turnover * equity
     /\ 100 * Max({0, mark[t] * held[t] + Signed(o, notional)}) <= Risk.max_single * equity
     /\ 100 * Max({0, Gross(mark, held) + Signed(o, notional)}) <= Risk.max_gross * equity
     /\ dayStart > 0 => 100 * (dayStart - equity) <= Risk.max_daily_loss * dayStart
     /\ peak > 0 => 100 * (peak - equity) <= Risk.max_drawdown * peak
-----------------------------------------------------------------------------
(* Orders from targets                                                     *)

(* Held shares plus the open remainder of these orders.                    *)
Outstanding(t, ids) ==
  LET open == {k \in ids : IsOpen(orders[k]) /\ k[2] = t}
      signed(k) == Signed(orders[k], Remaining(orders[k]))
  IN held[t] + MapThenSumSet(signed, open)

(* Open orders ignored: a mutant of Projected.                             *)
ProjectedFromHoldingsOnly(t, ids) == held[t]

Projected(t, ids) == Max({0, Outstanding(t, ids)})

Weight(targets, t) == IF t \in DOMAIN targets THEN targets[t] ELSE 0

Desired(targets, t, column) ==
  ((cash + Gross(MarkedAt(column), held)) * Weight(targets, t))
    \div (100 * bars[t][column])

LimitPrice(side, price) ==
  IF side = "buy" THEN (price * (100 - Config.limit_offset)) \div 100
                  ELSE (price * (100 + Config.limit_offset)) \div 100

(* One order per priced ticker whose projected shares miss the target; an  *)
(* order outside the active universe is rejected as it is created, and an  *)
(* outsider that is only held is left alone.  aim and signal, the shares   *)
(* aimed at and the signal's date, are kept for the properties alone.      *)
NewOrders(targets, signal, column, ids) ==
  LET eligible == {t \in Positions \union DOMAIN targets :
                     (t \in universe \/ t \in DOMAIN targets) /\ bars[t] # NoBar}
      delta(t) == Desired(targets, t, column) - Projected(t, ids)
      order(t) ==
        LET side == IF delta(t) > 0 THEN "buy" ELSE "sell"
        IN [side      |-> side,
            quantity  |-> IF delta(t) > 0 THEN delta(t) ELSE -delta(t),
            filled    |-> 0,
            status    |-> IF t \in universe THEN "pending" ELSE "rejected",
            reference |-> bars[t][column],
            limit     |-> IF Config.order_type = "market" THEN 0
                          ELSE LimitPrice(side, bars[t][column]),
            attempted |-> 0,
            reason    |-> "none",
            aim       |-> Desired(targets, t, column),
            signal    |-> signal]
      due == {t \in eligible : order(t).quantity \in Nat \ {0}}
  IN [k \in {<<today, t>> : t \in due} |-> order(k[2])]

WithOrders(new) ==
  [k \in DOMAIN orders \union DOMAIN new |->
     IF k \in DOMAIN new THEN new[k] ELSE orders[k]]
-----------------------------------------------------------------------------
Init ==
  /\ today = 0 /\ phase = "idle"
  /\ bars = [t \in Tickers |-> NoBar] /\ universe = Tickers
  /\ cash = Config.initial_cash
  /\ held = [t \in Tickers |-> 0]
  /\ mark = [t \in Tickers |-> 0]
  /\ orders = << >> /\ queue = {} /\ working = {}
  /\ pending = NoTargets
  /\ volume = [t \in Tickers |-> 0] /\ turnover = 0
  /\ dayStart = 0 /\ peak = Config.initial_cash
  /\ fills = {}

(* The next date of the feed, none when the loop is over.                  *)
EventDate == {d \in Feed : d > today /\ \A e \in Feed : e > today => d <= e}

ActionsOn(d) == {a \in CorporateActions : a.date = d}

(* apply_split refuses a ratio that leaves a fraction of a share.          *)
Fractional(a) == a.kind = "split" /\ (held[a.ticker] * a.num) % a.den # 0

(* Marks left at the price before the split: a mutant of SplitMark.        *)
SplitMarkForgotten(t, acts) == mark[t]

(* The ratio upside down: a mutant of SplitShares.                         *)
SplitSharesInverted(t, acts) ==
  IF \E a \in acts : a.ticker = t
  THEN LET a == CHOOSE x \in acts : x.ticker = t IN (held[t] * a.den) \div a.num
  ELSE held[t]

(* Shares and marks scale by the ratios of today's splits.                 *)
SplitShares(t, acts) ==
  IF \E a \in acts : a.ticker = t
  THEN LET a == CHOOSE x \in acts : x.ticker = t IN (held[t] * a.num) \div a.den
  ELSE held[t]

SplitMark(t, acts) ==
  IF held[t] > 0 /\ \E a \in acts : a.ticker = t
  THEN LET a == CHOOSE x \in acts : x.ticker = t IN (mark[t] * a.den) \div a.num
  ELSE mark[t]

BeginSession ==
  /\ phase = "idle"
  /\ \E d \in EventDate :
       /\ \A a \in ActionsOn(d) : a.kind = "split" /\ ~Fractional(a)
       /\ today' = d
       /\ held' = [t \in Tickers |-> SplitShares(t, ActionsOn(d))]
       /\ mark' = [t \in Tickers |-> SplitMark(t, ActionsOn(d))]
  /\ bars' \in {b \in [Tickers -> Bars \union {NoBar}] : \E t \in Tickers : b[t] # NoBar}
  /\ universe' \in Universes
  /\ dayStart' = cash + Gross(mark', held')
  /\ volume' = [t \in Tickers |-> Capacity(bars'[t])]
  /\ turnover' = 0
  /\ phase' = "targets"
  /\ UNCHANGED <<cash, orderVars, peak, fills>>

(* The exceptions of _apply_corporate_actions end the run: an event type   *)
(* without an accounting policy, a fractional share, or a held position    *)
(* whose cost basis does not survive rounding (the average cost is not     *)
(* kept here, so any held position may be such a one).                     *)
AbortOnCorporateAction ==
  /\ phase = "idle"
  /\ \E d \in EventDate : \E a \in ActionsOn(d) :
       a.kind # "split" \/ Fractional(a) \/ held[a.ticker] > 0
  /\ phase' = "aborted"
  /\ UNCHANGED <<portfolioVars, today, bars, universe, dayStart, peak, orderVars, tradeVars>>

(* Catching up on overdue targets: a mutant of Due.                        *)
DueOrOverdue == pending # NoTargets /\ pending.date <= today

(* The queued targets are due today, not merely overdue.                   *)
Due == pending # NoTargets /\ pending.date = today

(* Carried orders come first; due targets add this session's batch.        *)
QueueOpenOrders ==
  /\ phase = "targets"
  /\ IF Due
     THEN LET new == NewOrders(pending.targets, pending.signal, "open", working)
          IN /\ orders' = WithOrders(new)
             /\ queue' = working \union DOMAIN new
             /\ mark' = MarkedAt("open")
             /\ pending' = NoTargets
     ELSE /\ queue' = working
          /\ UNCHANGED <<orders, mark, pending>>
  /\ working' = {}
  /\ phase' = "open"
  /\ UNCHANGED <<cash, held, today, bars, universe, dayStart, peak, tradeVars>>
-----------------------------------------------------------------------------
(* _process_orders: one iteration of its loop, for the order next in line. *)

Attempting(k) ==
  /\ phase \in {"open", "close"}
  /\ k \in NextUp
  /\ IsOpen(orders[k])

(* Order.record_attempt                                                    *)
Attempted(o, why) == [o EXCEPT !.attempted = today, !.reason = why]

(* Rejected whatever was filled before: a mutant of FailedAttempt.         *)
RejectedAttempt(o, why) == [Attempted(o, why) EXCEPT !.status = "rejected"]

(* A failed attempt rejects an order only while nothing of it is filled.   *)
FailedAttempt(o, why) ==
  IF o.filled = 0 THEN [Attempted(o, why) EXCEPT !.status = "rejected"]
                  ELSE Attempted(o, why)

(* A partial fill taken for a complete one: a mutant of FilledBy.          *)
FilledWhole(o, q) ==
  [o EXCEPT !.filled = o.quantity, !.attempted = today, !.reason = "none",
            !.status = "filled"]

(* Order.record_fill                                                       *)
FilledBy(o, q) ==
  [o EXCEPT !.filled = @ + q, !.attempted = today, !.reason = "none",
            !.status = IF q = Remaining(o) THEN "filled" ELSE "partially_filled"]

(* Orders that have just filled expired as well: a mutant of Expire.       *)
ExpireAlways(o) ==
  IF Config.time_in_force = "day"
  THEN [o EXCEPT !.status = "expired", !.attempted = today] ELSE o

(* The end of every iteration: a DAY order has used its one chance.        *)
Expire(o) ==
  IF Config.time_in_force = "day" /\ IsOpen(o)
  THEN [o EXCEPT !.status = "expired", !.attempted = today] ELSE o

(* Survivors of the last attempt alone: the mutant of Conclude.            *)
ConcludeForgetting(k, o) ==
  LET settled == Expire(o)
  IN /\ orders' = [orders EXCEPT ![k] = settled]
     /\ queue' = queue \ {k}
     /\ working' = IF IsOpen(settled) THEN {k} ELSE working

(* ... and what is still open survives the session.                        *)
Conclude(k, o) ==
  LET settled == Expire(o)
  IN /\ orders' = [orders EXCEPT ![k] = settled]
     /\ queue' = queue \ {k}
     /\ working' = IF IsOpen(settled) THEN working \union {k} ELSE working

NoFill(k, o) ==
  /\ Conclude(k, o)
  /\ UNCHANGED <<portfolioVars, sessionVars, pending, tradeVars>>

(* An order rejected on creation is passed over.                           *)
SkipTerminal(k) ==
  /\ phase \in {"open", "close"} /\ k \in NextUp /\ ~IsOpen(orders[k])
  /\ queue' = queue \ {k}
  /\ UNCHANGED <<portfolioVars, sessionVars, orders, working, pending, tradeVars>>

MissingBar(k) ==
  /\ Attempting(k) /\ bars[k[2]] = NoBar
  /\ NoFill(k, Attempted(orders[k], "missing_execution_bar"))

(* A halt, or no volume left: the risk manager is not even asked.          *)
Halted(k) ==
  /\ Attempting(k) /\ bars[k[2]] # NoBar /\ bars[k[2]].halted
  /\ NoFill(k, Attempted(orders[k], "trading_halted"))

OutOfVolume(k) ==
  LET o == orders[k]
      bar == bars[k[2]]
  IN /\ Attempting(k) /\ bar # NoBar /\ ~bar.halted /\ volume[k[2]] <= 0
     /\ NoFill(k, Attempted(o, IF Reached(o, bar) THEN "volume_cap" ELSE "limit_not_reached"))

(* The attempt a halt or an empty session does not stop.                   *)
Tradable(k) ==
  /\ Attempting(k) /\ bars[k[2]] # NoBar /\ ~bars[k[2]].halted /\ volume[k[2]] > 0

Approved(k, kill) == RiskApproves(orders[k], k[2], FillQuantity(orders[k], volume[k[2]]), kill)

RiskRejected(k) ==
  /\ Tradable(k)
  /\ \E kill \in KillSwitch : ~Approved(k, kill)
  /\ NoFill(k, FailedAttempt(orders[k], "risk"))

LimitNotReached(k) ==
  /\ Tradable(k)
  /\ \E kill \in KillSwitch : Approved(k, kill)
  /\ ~Reached(orders[k], bars[k[2]])
  /\ NoFill(k, Attempted(orders[k], "limit_not_reached"))

TradePrice(k) ==
  ExecutionPrice(orders[k].side, BasePrice(orders[k], bars[k[2]][phase]))

CannotSettle(k) ==
  LET o == orders[k] IN
  /\ Tradable(k)
  /\ \E kill \in KillSwitch : Approved(k, kill)
  /\ Reached(o, bars[k[2]])
  /\ ~CanSettle(o, k[2], FillQuantity(o, volume[k[2]]), TradePrice(k))
  /\ NoFill(k, FailedAttempt(o, IF o.side = "buy" THEN "insufficient_cash"
                                ELSE "insufficient_position"))

(* Each pass with the full capacity: a mutant of VolumeAfter.              *)
VolumeKept(t, q) == volume

(* What one fill takes from the shares the session may still trade.        *)
VolumeAfter(t, q) == [volume EXCEPT ![t] = Max({0, @ - q})]

(* Portfolio.apply_fill, Order.record_fill and the loop's own accounts.    *)
FillOrder(k) ==
  LET o == orders[k]
      t == k[2]
      q == FillQuantity(o, volume[t])
      price == TradePrice(k)
      fees == Fees(o.side, q * price)
  IN /\ Tradable(k)
     /\ \E kill \in KillSwitch : Approved(k, kill)
     /\ Reached(o, bars[t])
     /\ CanSettle(o, t, q, price)
     /\ cash' = IF o.side = "buy" THEN cash - (q * price + fees)
                                  ELSE cash + (q * price - fees)
     /\ held' = [held EXCEPT ![t] = IF o.side = "buy" THEN @ + q ELSE @ - q]
     /\ mark' = [mark EXCEPT ![t] = price]
     /\ fills' = fills \union
          {[order |-> k, date |-> today, side |-> o.side, quantity |-> q, price |-> price]}
     /\ turnover' = turnover + q * price
     /\ volume' = VolumeAfter(t, q)
     /\ Conclude(k, FilledBy(o, q))
     /\ UNCHANGED <<sessionVars, pending>>
-----------------------------------------------------------------------------
(* The strategy sees the history through today and may leave the targets   *)
(* as they are.  next_open queues its targets for the next session, if     *)
(* there is one; same_close turns them into orders against today's close.  *)
RunStrategy ==
  /\ phase = "open" /\ queue = {}
  /\ phase' = "close"
  /\ \/ UNCHANGED <<orders, queue, mark, pending>>
     \/ \E targets \in Targets :
          IF Config.execution_price = "same_close"
          THEN LET new == NewOrders(targets, today, "close", working)
               IN /\ orders' = WithOrders(new)
                  /\ queue' = DOMAIN new
                  /\ mark' = MarkedAt("close")
                  /\ UNCHANGED pending
          ELSE /\ IF NextSession(today) = {} THEN UNCHANGED pending
                  ELSE \E d \in NextSession(today) :
                         pending' = [targets |-> targets, date |-> d, signal |-> today]
               /\ UNCHANGED <<orders, queue, mark>>
  /\ UNCHANGED <<cash, held, today, bars, universe, dayStart, peak, working, tradeVars>>

EndSession ==
  /\ phase = "close" /\ queue = {}
  /\ mark' = MarkedAt("close")
  /\ peak' = Max({peak, cash + Gross(mark', held)})
  /\ phase' = "idle"
  /\ UNCHANGED <<cash, held, today, bars, universe, dayStart, orderVars, tradeVars>>

(* The feed is exhausted, or the run has raised.                           *)
Finished ==
  /\ phase = "aborted" \/ (phase = "idle" /\ EventDate = {})
  /\ UNCHANGED vars

Next ==
  \/ BeginSession
  \/ AbortOnCorporateAction
  \/ QueueOpenOrders
  \/ \E k \in queue :
       \/ SkipTerminal(k)
       \/ MissingBar(k)
       \/ Halted(k)
       \/ OutOfVolume(k)
       \/ RiskRejected(k)
       \/ LimitNotReached(k)
       \/ CannotSettle(k)
       \/ FillOrder(k)
  \/ RunStrategy
  \/ EndSession
  \/ Finished

Spec == Init /\ [][Next]_vars
-----------------------------------------------------------------------------
Reasons == {"none", "missing_execution_bar", "trading_halted", "limit_not_reached",
            "volume_cap", "risk", "insufficient_cash", "insufficient_position"}

(* aim is a sum of marks like dayStart and peak: any value will do.        *)
OrderType(o) ==
  /\ o \in [side : Sides, quantity : Nat \ {0}, filled : Nat,
            status : {"pending", "partially_filled", "filled", "rejected", "expired"},
            reference : Nat, limit : Nat, attempted : Dates, reason : Reasons,
            aim : {o.aim}, signal : Dates]
  /\ o.filled <= o.quantity

FillState == [order : OrderIds, date : Feed, side : Sides, quantity : Nat \ {0}, price : Nat]

PendingState == [targets : Targets, date : Calendar, signal : Feed]

(* Every variable of the loop has its type; dayStart and peak are sums of  *)
(* marks that only the risk manager reads.                                 *)
TypeOK ==
  /\ today \in Feed \union {0}
  /\ phase \in {"idle", "targets", "open", "close", "aborted"}
  /\ bars \in [Tickers -> Bars \union {NoBar}] /\ universe \subseteq Tickers
  /\ cash \in Int /\ held \in [Tickers -> Int] /\ mark \in [Tickers -> Nat]
  /\ DOMAIN orders \subseteq OrderIds /\ \A k \in DOMAIN orders : OrderType(orders[k])
  /\ queue \subseteq DOMAIN orders /\ working \subseteq DOMAIN orders
  /\ pending \in PendingState \union {NoTargets}
  /\ volume \in [Tickers -> Nat] /\ turnover \in Nat
  /\ fills \subseteq FillState

(* Short selling and leverage are ruled out (BACKTEST_ASSUMPTIONS.md): no  *)
(* sequence of partial fills, splits, fees and slippage drives the cash or *)
(* a holding below zero, though risk checks use reference prices and       *)
(* orders may be older than the holdings they were sized from.             *)
NoLeverageNoShort == cash >= 0 /\ \A t \in Tickers : held[t] >= 0

(* All orders on a ticker share floor(volume * participation) per session, *)
(* carried orders and new ones, at the open and at the close.              *)
VolumeCapShared ==
  \A t \in Tickers :
    MapThenSumSet(LAMBDA f : f.quantity, {f \in fills : f.date = today /\ f.order[2] = t})
      <= Capacity(bars[t])

CashFlow(f) ==
  LET notional == f.quantity * f.price
  IN IF f.side = "buy" THEN -(notional + Fees("buy", notional))
     ELSE notional - Fees("sell", notional)

(* Shares of t after the sessions up to d, replayed from the audit trail:  *)
(* each session first applies its split and then books its fills.          *)
Replayed(t) ==
  LET traded(d) == MapThenSumSet(LAMBDA f : IF f.side = "buy" THEN f.quantity ELSE -f.quantity,
                                 {f \in fills : f.date = d /\ f.order[2] = t})
      splits(d) == {a \in ActionsOn(d) : a.ticker = t /\ d \in Feed}
      adjusted(n, d) == IF splits(d) = {} THEN n
                        ELSE LET a == CHOOSE x \in splits(d) : TRUE IN (n * a.num) \div a.den
      shares[d \in 0..today] == IF d = 0 THEN 0 ELSE adjusted(shares[d - 1], d) + traded(d)
  IN shares[today]

(* The audit trail explains the result: replaying the fills (and splits)   *)
(* gives the cash and holdings of the portfolio and the filled quantity of *)
(* every order, so no fill is booked twice, lost, or booked against        *)
(* another order, and a split moves no cash.                               *)
FillsExplainBooks ==
  /\ cash = Config.initial_cash + MapThenSumSet(CashFlow, fills)
  /\ \A t \in Tickers : held[t] = Replayed(t)
  /\ \A k \in DOMAIN orders :
       orders[k].filled =
         MapThenSumSet(LAMBDA f : f.quantity, {f \in fills : f.order = k})

(* An open order is never dropped: it waits in the current pass or is      *)
(* carried, only GTC orders are carried, and when a session is over every  *)
(* order still open has had its attempt in it (an order created by the     *)
(* open pass is carried past the close pass of the same session).          *)
OpenOrdersCarried ==
  LET open == {k \in DOMAIN orders : IsOpen(orders[k])}
  IN /\ open = working \union {k \in queue : IsOpen(orders[k])}
     /\ Config.time_in_force = "day" => working = {}
     /\ phase = "idle" => \A k \in open : orders[k].attempted = today

(* Open remainders count as if already traded when targets become orders,  *)
(* so a ticker's holding plus everything outstanding never ends above the  *)
(* target: a rebalance repeated before its orders fill does not buy twice. *)
NoDuplicateOrders ==
  [][\A k \in DOMAIN orders' \ DOMAIN orders :
       LET t == k[2]
           open == {j \in DOMAIN orders' : IsOpen(orders'[j]) /\ j[2] = t}
       IN IsOpen(orders'[k]) =>
            held[t] + MapThenSumSet(LAMBDA j : Signed(orders'[j], Remaining(orders'[j])), open)
              <= orders'[k].aim]_orders

(* A split changes no value: the equity a session starts with, which its   *)
(* daily-loss limit is measured from, is the equity the last one ended     *)
(* with.                                                                   *)
SplitKeepsEquity ==
  [][phase = "idle" /\ today' # today => dayStart' = Equity]_vars

(* A target becomes orders in exactly the session its convention names:    *)
(* the calendar's session after the signal for next_open, the signal's own *)
(* session for same_close.  An overdue target is never executed late.      *)
SignalsExecuteOnTime ==
  \A k \in DOMAIN orders :
    IF Config.execution_price = "same_close" THEN k[1] = orders[k].signal
    ELSE k[1] \in NextSession(orders[k].signal)

(* Within a session volume goes to the older order first: when an order    *)
(* trades, no older carried order on the same ticker was turned away for   *)
(* lack of volume.                                                         *)
OlderOrdersTradeFirst ==
  \A f \in fills : \A k \in working :
    f.date = today /\ k[2] = f.order[2] /\ Older(k, f.order)
      => orders[k].reason # "volume_cap"

(* The portfolio never holds more tickers than the risk limit, although    *)
(* the limit is checked before each fill and orders for several new        *)
(* tickers wait in one pass.                                               *)
PositionCountLimited == Cardinality(Holdings) <= Risk.max_positions

(* Every order of the run lives by the lifecycle of the Order class.       *)
Lifecycle == INSTANCE OrderLifecycle WITH
  book <- [k \in DOMAIN orders |->
    [quantity |-> orders[k].quantity, filled |-> orders[k].filled, status |-> orders[k].status]]

LifecycleRefined == Lifecycle!Spec

(* After any sequence of partial fills, halts, rejections and settlement   *)
(* failures over the sessions, an order's status tells whether it traded.  *)
OrderStatusesMatch == Lifecycle!StatusMatchesFills

(* Splits are applied before the orders of their effective session, other  *)
(* actions stop the run: the loop never passes the effective date of an    *)
(* action on a ticker it holds.                                            *)
NoActionSkipped ==
  [][\A a \in CorporateActions :
       today < a.date /\ a.date < today' => held[a.ticker] = 0]_today
=============================================================================
