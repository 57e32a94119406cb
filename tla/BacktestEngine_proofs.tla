------------------------ MODULE BacktestEngine_proofs ------------------------
(***************************************************************************)
(* Proofs about BacktestEngine, for every calendar, feed, set of bars and  *)
(* configuration that satisfies its assumptions.                           *)
(*                                                                         *)
(* TypeOK is inductive together with the fact that a session has begun     *)
(* whenever the loop is inside one.  NoLeverageNoShort needs two facts of  *)
(* arithmetic beside it: the costs of a sale never exceed its proceeds,    *)
(* and a split rounds no holding below zero.                               *)
(*                                                                         *)
(* The properties of the orders need to know when orders are made: one     *)
(* batch a session, dated today (Batches), so that a batch's identities    *)
(* are fresh and everything that traded or waits is older than it.  The    *)
(* refinement of OrderLifecycle rests on the same fact.                    *)
(*                                                                         *)
(* The books need sums over finite sets and the replay of the audit trail, *)
(* which are defined by recursion: what holds of them for every argument   *)
(* is shown by a smallest argument for which it fails.                     *)
(***************************************************************************)
EXTENDS BacktestEngine, FiniteSetTheorems, WellFoundedInduction, TLAPS

-----------------------------------------------------------------------------
(* Arithmetic                                                              *)

(* Integer division of naturals rounds down to a natural.                  *)
LEMMA DivNat ==
  ASSUME NEW a \in Nat, NEW b \in Nat \ {0}
  PROVE  a \div b \in Nat /\ b * (a \div b) <= a
  OBVIOUS

LEMMA ProductNat ==
  ASSUME NEW a \in Nat, NEW b \in Nat
  PROVE  a * b \in Nat
  OBVIOUS

(* The smaller and the larger of two integers.                             *)
LEMMA MinPair ==
  ASSUME NEW a \in Int, NEW b \in Int
  PROVE  Min({a, b}) = IF a <= b THEN a ELSE b
<1>1. \E x \in {a, b} : \A y \in {a, b} : x <= y
  OBVIOUS
<1> QED BY <1>1 DEF Min

LEMMA MaxPair ==
  ASSUME NEW a \in Int, NEW b \in Int
  PROVE  Max({a, b}) = IF a >= b THEN a ELSE b
<1>1. \E x \in {a, b} : \A y \in {a, b} : x >= y
  OBVIOUS
<1> QED BY <1>1 DEF Max

(* CommissionModel: costs are not negative, and those of a sale are not    *)
(* above its value as the rates are fractions of it.                       *)
LEMMA FeesBounded ==
  ASSUME NEW notional \in Nat
  PROVE  /\ Fees("buy", notional) \in Nat
         /\ Fees("sell", notional) \in Nat
         /\ Fees("sell", notional) <= notional
<1> DEFINE c == notional * Config.sell_rate
           x == notional * Config.sell_tax
<1>1. /\ Config.buy_rate \in Nat /\ Config.sell_rate \in Nat /\ Config.sell_tax \in Nat
      /\ Config.sell_rate + Config.sell_tax <= 100
  BY ConfigAssumption DEF ConfigAssumption
<1>2. notional * Config.buy_rate \in Nat /\ c \in Nat /\ x \in Nat
  BY <1>1, ProductNat
<1>3. c + x <= 100 * notional
  <2>1. c + x = notional * (Config.sell_rate + Config.sell_tax)
    BY <1>1
  <2> QED BY <2>1, <1>1
<1> HIDE DEF c, x
<1>4. /\ c \div 100 \in Nat /\ 100 * (c \div 100) <= c
      /\ x \div 100 \in Nat /\ 100 * (x \div 100) <= x
  BY <1>2, DivNat
<1>5. Fees("sell", notional) = c \div 100 + x \div 100
  BY DEF Fees, c, x
<1>6. Fees("buy", notional) \in Nat
  BY <1>2, DivNat DEF Fees
<1> QED BY <1>2, <1>3, <1>4, <1>5, <1>6

(* A price at or above low gives up no more than itself to slippage, if    *)
(* low does not: unit is the denominator of the rate s.                    *)
LEMMA ImpactArithmetic ==
  ASSUME NEW unit \in Nat \ {0}, NEW low \in Nat, NEW price \in Nat, price >= low,
         NEW s \in Nat, s <= unit, NEW f \in Nat, low * (unit - s) >= unit * f
  PROVE  (price * s) \div unit + f \in 0..price
<1> DEFINE i == (price * s) \div unit
<1>1. price * s \in Nat
  BY ProductNat
<1>2. i \in Nat /\ unit * i <= price * s
  BY <1>1, DivNat
<1>3. PICK d \in Nat : price = low + d
  <2>1. price - low \in Nat /\ price = low + (price - low)
    OBVIOUS
  <2> QED BY <2>1
<1>4. PICK r \in Nat : unit - s = r
  OBVIOUS
<1>5. d * r \in Nat /\ price * r = low * r + d * r
  BY <1>3, ProductNat
<1>6. price * r >= unit * f
  <2>1. low * r >= unit * f
    BY <1>4
  <2> QED BY <2>1, <1>5
<1>7. price * r = unit * price - price * s
  BY <1>4
<1> HIDE DEF i
<1>8. unit * (i + f) <= unit * price
  <2>1. unit * (i + f) = unit * i + unit * f
    BY <1>2
  <2>2. unit * i \in Int /\ unit * f \in Int /\ unit * price \in Int /\ price * r \in Int
    BY <1>2
  <2> QED BY <1>1, <1>2, <1>6, <1>7, <2>1, <2>2
<1>9. i + f <= price
  BY <1>2, <1>8
<1> QED BY <1>2, <1>9 DEF i

(* SlippageModel: at any price a bar of the data may print, or above it,   *)
(* slippage leaves a price that is not negative.                           *)
LEMMA SlippageBounded ==
  ASSUME NEW b \in Bars, NEW side \in Sides, NEW price \in Nat, price >= b.low
  PROVE  ExecutionPrice(side, price) \in Nat
<1>1. BasisPoints \in Nat \ {0}
  BY DEF BasisPoints
<1>2. /\ Config.slip_bps \in Nat /\ Config.slip_bps <= BasisPoints /\ Config.slip_fixed \in Nat
      /\ b.low * (BasisPoints - Config.slip_bps) >= BasisPoints * Config.slip_fixed
  BY ConfigAssumption, SlippageAssumption DEF ConfigAssumption, SlippageAssumption
<1>3. b.low \in Nat
  BY BarsAssumption DEF BarsAssumption, BarType
<1>4. Impact(price) \in 0..price
  BY <1>1, <1>2, <1>3, ImpactArithmetic DEF Impact
<1> QED BY <1>4 DEF ExecutionPrice, Sides
-----------------------------------------------------------------------------
(* The inductive invariant                                                 *)

Started == phase \in {"targets", "open", "close"} => today \in Feed

IInv == TypeOK /\ NoLeverageNoShort /\ Started

(* What the order variables have to be, after a step.                      *)
OrdersTyped ==
  /\ DOMAIN orders \subseteq OrderIds /\ \A k \in DOMAIN orders : OrderType(orders[k])
  /\ queue \subseteq DOMAIN orders /\ working \subseteq DOMAIN orders

(* Dates of the feed are dates, and bars hold natural prices within their  *)
(* range.                                                                  *)
LEMMA FeedDates == Feed \subseteq Dates /\ Feed \subseteq Nat \ {0}
  BY FeedAssumption DEF FeedAssumption, Dates

LEMMA BarPrices ==
  ASSUME NEW b \in Bars, NEW column \in {"open", "close"}
  PROVE  b[column] \in Nat /\ b[column] >= b.low /\ b.low \in Nat \ {0}
  BY BarsAssumption DEF BarsAssumption, BarType

LEMMA MarkedTyped ==
  ASSUME TypeOK, NEW column \in {"open", "close"}
  PROVE  MarkedAt(column) \in [Tickers -> Nat]
<1>1. ASSUME NEW t \in Tickers, bars[t] # NoBar PROVE bars[t][column] \in Nat
  BY <1>1, BarPrices DEF TypeOK
<1> QED BY <1>1 DEF MarkedAt, TypeOK

LEMMA LimitPriceTyped ==
  ASSUME NEW side, NEW price \in Nat
  PROVE  LimitPrice(side, price) \in Nat
<1>1. Config.limit_offset \in Nat /\ Config.limit_offset < 100
  BY ConfigAssumption DEF ConfigAssumption
<1>2. 100 - Config.limit_offset \in Nat /\ 100 + Config.limit_offset \in Nat
  BY <1>1
<1>3. price * (100 - Config.limit_offset) \in Nat /\ price * (100 + Config.limit_offset) \in Nat
  BY <1>2, ProductNat
<1> QED BY <1>3, DivNat DEF LimitPrice

(* _orders_from_targets makes well-typed orders with keys of their own.    *)
LEMMA NewOrdersTyped ==
  ASSUME TypeOK, today \in Feed, NEW targets \in Targets, NEW signal \in Feed,
         NEW column \in {"open", "close"}, NEW ids
  PROVE  /\ DOMAIN NewOrders(targets, signal, column, ids) \subseteq OrderIds
         /\ \A k \in DOMAIN NewOrders(targets, signal, column, ids) :
              OrderType(NewOrders(targets, signal, column, ids)[k])
<1> DEFINE eligible == {t \in Positions \union DOMAIN targets :
                          (t \in universe \/ t \in DOMAIN targets) /\ bars[t] # NoBar}
           delta(t) == Desired(targets, t, column) - Projected(t, ids)
           side(t) == IF delta(t) > 0 THEN "buy" ELSE "sell"
           quantity(t) == IF delta(t) > 0 THEN delta(t) ELSE -delta(t)
           status(t) == IF t \in universe THEN "pending" ELSE "rejected"
           limit(t) == IF Config.order_type = "market" THEN 0
                       ELSE LimitPrice(side(t), bars[t][column])
           order(t) == [side |-> side(t), quantity |-> quantity(t), filled |-> 0,
                        status |-> status(t), reference |-> bars[t][column],
                        limit |-> limit(t), attempted |-> 0, reason |-> "none",
                        aim |-> Desired(targets, t, column), signal |-> signal]
           due == {t \in eligible : order(t).quantity \in Nat \ {0}}
           new == NewOrders(targets, signal, column, ids)
<1>1. new = [k \in {<<today, t>> : t \in due} |-> order(k[2])]
  BY DEF NewOrders
<1>2. eligible \subseteq Tickers
  <2>1. Positions \subseteq Tickers
    BY DEF Positions, TypeOK, FillState, OrderIds
  <2>2. DOMAIN targets \subseteq Tickers
    BY TargetsAssumption DEF TargetsAssumption
  <2> QED BY <2>1, <2>2
<1>3. ASSUME NEW t \in due PROVE OrderType(order(t))
  <2>1. t \in Tickers /\ bars[t] \in Bars
    BY <1>2 DEF TypeOK
  <2>2. bars[t][column] \in Nat
    BY <2>1, BarPrices
  <2>3. limit(t) \in Nat
    BY <2>2, LimitPriceTyped
  <2>4. side(t) \in Sides
    BY DEF Sides
  <2>5. quantity(t) \in Nat \ {0}
    OBVIOUS
  <2>6. status(t) \in {"pending", "partially_filled", "filled", "rejected", "expired"}
    OBVIOUS
  <2>7. signal \in Dates /\ 0 \in Dates
    BY FeedDates DEF Dates
  <2> HIDE DEF side, quantity, status, limit
  <2> QED BY <2>2, <2>3, <2>4, <2>5, <2>6, <2>7 DEF OrderType, Reasons
<1>4. \A t \in due : <<today, t>> \in OrderIds
  BY <1>2 DEF OrderIds
<1> HIDE DEF due, order, new
<1> QED BY <1>1, <1>3, <1>4 DEF new
-----------------------------------------------------------------------------
(* One iteration of _process_orders                                        *)

(* An attempt leaves a well-typed order well typed, with the same fills.   *)
LEMMA AttemptTyped ==
  ASSUME TypeOK, NEW o, OrderType(o), NEW why \in Reasons
  PROVE  OrderType(Attempted(o, why)) /\ OrderType(FailedAttempt(o, why))
<1>1. today \in Dates
  BY FeedDates DEF TypeOK, Dates
<1>2. OrderType(Attempted(o, why))
  BY <1>1 DEF OrderType, Attempted
<1>3. ASSUME NEW n, OrderType(n) PROVE OrderType([n EXCEPT !.status = "rejected"])
  BY <1>3 DEF OrderType
<1> QED BY <1>2, <1>3 DEF FailedAttempt

(* So does the expiry of a DAY order.                                      *)
LEMMA ExpireTyped ==
  ASSUME TypeOK, NEW o, OrderType(o)
  PROVE  OrderType(Expire(o))
<1>1. today \in Dates
  BY FeedDates DEF TypeOK, Dates
<1> QED BY <1>1 DEF OrderType, Expire

(* The loop's bookkeeping keeps the order variables well typed.            *)
LEMMA ConcludeTyped ==
  ASSUME TypeOK, NEW k \in queue, NEW o, OrderType(o), Conclude(k, o)
  PROVE  OrdersTyped'
<1>1. OrderType(Expire(o))
  BY ExpireTyped
<1>2. /\ orders' = [orders EXCEPT ![k] = Expire(o)]
      /\ queue' = queue \ {k}
      /\ working' \subseteq working \union {k}
  BY DEF Conclude
<1>3. DOMAIN orders' = DOMAIN orders
  BY <1>2
<1>4. \A j \in DOMAIN orders' : OrderType(orders'[j])
  BY <1>1, <1>2, <1>3 DEF TypeOK
<1> QED BY <1>2, <1>3, <1>4 DEF OrdersTyped, TypeOK

(* An iteration without a fill changes nothing but the order variables.    *)
LEMMA NoFillKeepsIInv ==
  ASSUME IInv, NEW k \in queue, NEW o, OrderType(o), NoFill(k, o)
  PROVE  IInv'
<1>1. OrdersTyped'
  BY ConcludeTyped DEF IInv, NoFill
<1> QED BY <1>1 DEF IInv, TypeOK, OrdersTyped, NoLeverageNoShort, Started, NoFill,
                    portfolioVars, sessionVars, tradeVars

(* The price an attempt trades at is natural, whatever the order's side,   *)
(* type and limit.                                                         *)
LEMMA TradePriceTyped ==
  ASSUME IInv, NEW k \in queue, Tradable(k), Reached(orders[k], bars[k[2]])
  PROVE  TradePrice(k) \in Nat
<1> DEFINE o == orders[k]
           bar == bars[k[2]]
           market == bar[phase]
<1>1. k[2] \in Tickers /\ OrderType(o)
  BY DEF IInv, TypeOK, OrderIds
<1>2. bar \in Bars
  BY <1>1 DEF IInv, TypeOK, Tradable
<1>3. phase \in {"open", "close"}
  BY DEF Tradable, Attempting
<1>4. market \in Nat /\ market >= bar.low /\ bar.low \in Nat
  BY <1>2, <1>3, BarPrices
<1>5. o.limit \in Nat /\ o.side \in Sides
  BY <1>1 DEF OrderType
<1>6. BasePrice(o, market) \in Nat /\ BasePrice(o, market) >= bar.low
  <2>1. CASE Config.order_type = "market"
    BY <1>4, <2>1 DEF BasePrice
  <2>2. CASE Config.order_type # "market" /\ o.side = "buy"
    <3>1. bar.low <= o.limit
      BY <2>2 DEF Reached
    <3>2. BasePrice(o, market) = Min({market, o.limit})
      BY <2>2 DEF BasePrice
    <3> QED BY <1>4, <1>5, <3>1, <3>2, MinPair
  <2>3. CASE Config.order_type # "market" /\ o.side # "buy"
    <3>1. BasePrice(o, market) = Max({market, o.limit})
      BY <2>3 DEF BasePrice
    <3> QED BY <1>4, <1>5, <3>1, MaxPair
  <2> QED BY <2>1, <2>2, <2>3
<1> QED BY <1>2, <1>5, <1>6, SlippageBounded DEF TradePrice

(* A tradable order may fill a positive part of what is left of it.        *)
LEMMA FillQuantityTyped ==
  ASSUME IInv, NEW k \in queue, Tradable(k)
  PROVE  /\ FillQuantity(orders[k], volume[k[2]]) \in Nat \ {0}
         /\ FillQuantity(orders[k], volume[k[2]]) <= Remaining(orders[k])
         /\ Remaining(orders[k]) \in Nat
<1>1. k[2] \in Tickers /\ OrderType(orders[k])
  BY DEF IInv, TypeOK, OrderIds
<1>2. volume[k[2]] \in Nat /\ volume[k[2]] > 0
  BY <1>1 DEF IInv, TypeOK, Tradable
<1>3. orders[k].quantity \in Nat /\ orders[k].filled \in Nat
  BY <1>1 DEF OrderType
<1>4. Remaining(orders[k]) \in Nat /\ Remaining(orders[k]) > 0
  BY <1>3 DEF Tradable, Attempting, IsOpen, Remaining
<1> QED BY <1>2, <1>4, MinPair DEF FillQuantity

(* Order.record_fill                                                       *)
LEMMA FilledTyped ==
  ASSUME TypeOK, NEW o, OrderType(o), NEW q \in Nat \ {0}, q <= Remaining(o)
  PROVE  OrderType(FilledBy(o, q))
<1>1. today \in Dates
  BY FeedDates DEF TypeOK, Dates
<1>2. o.quantity \in Nat /\ o.filled \in Nat
  BY DEF OrderType
<1>3. o.filled + q \in Nat /\ o.filled + q <= o.quantity
  BY <1>2 DEF Remaining
<1>4. \A f \in Nat, s \in {"filled", "partially_filled"} : f <= o.quantity =>
        OrderType([o EXCEPT !.filled = f, !.attempted = today, !.reason = "none", !.status = s])
  BY <1>1, <1>2 DEF OrderType, Reasons
<1> QED BY <1>3, <1>4 DEF FilledBy

(* The whole fill: cash and shares stay non-negative, because the broker   *)
(* checks exactly what Portfolio.apply_fill takes.                         *)
LEMMA FillKeepsIInv ==
  ASSUME IInv, NEW k \in queue, FillOrder(k)
  PROVE  IInv'
<1> DEFINE o == orders[k]
           t == k[2]
           q == FillQuantity(o, volume[t])
           price == TradePrice(k)
           n == q * price
<1>1. Tradable(k) /\ Reached(o, bars[t]) /\ CanSettle(o, t, q, price)
  BY DEF FillOrder
<1>2. t \in Tickers /\ OrderType(o) /\ k \in OrderIds
  BY DEF IInv, TypeOK, OrderIds
<1>3. price \in Nat
  BY <1>1, TradePriceTyped
<1>4. q \in Nat \ {0} /\ q <= Remaining(o)
  BY <1>1, FillQuantityTyped
<1>5. n \in Nat
  BY <1>3, <1>4, ProductNat
<1>6. /\ Fees("buy", n) \in Nat /\ Fees("sell", n) \in Nat /\ Fees("sell", n) <= n
  BY <1>5, FeesBounded
<1>7. o.side \in Sides
  BY <1>2 DEF OrderType
<1>8. today \in Feed
  BY <1>1 DEF IInv, Started, Tradable, Attempting
<1>9. OrdersTyped'
  <2>1. OrderType(FilledBy(o, q))
    BY <1>2, <1>4, FilledTyped DEF IInv
  <2>2. Conclude(k, FilledBy(o, q))
    BY DEF FillOrder
  <2> QED BY <2>1, <2>2, ConcludeTyped DEF IInv
<1>10. cash' \in Int /\ cash' >= 0
  <2>1. cash' = IF o.side = "buy" THEN cash - (n + Fees(o.side, n)) ELSE cash + (n - Fees(o.side, n))
    BY DEF FillOrder
  <2>2. cash \in Int /\ cash >= 0
    BY DEF IInv, TypeOK, NoLeverageNoShort
  <2>3. CASE o.side = "buy"
    <3>1. n + Fees("buy", n) <= cash
      BY <1>1, <2>3 DEF CanSettle
    <3> HIDE DEF n
    <3> QED BY <1>5, <1>6, <2>1, <2>2, <2>3, <3>1
  <2>4. CASE o.side = "sell"
    <3> HIDE DEF n
    <3> QED BY <1>5, <1>6, <2>1, <2>2, <2>4
  <2> QED BY <1>7, <2>3, <2>4 DEF Sides
<1>11. held' \in [Tickers -> Int] /\ \A u \in Tickers : held'[u] >= 0
  <2>1. held' = [held EXCEPT ![t] = IF o.side = "buy" THEN held[t] + q ELSE held[t] - q]
    BY DEF FillOrder
  <2>2. held \in [Tickers -> Int] /\ \A u \in Tickers : held[u] >= 0
    BY DEF IInv, TypeOK, NoLeverageNoShort
  <2>3. o.side # "buy" => q <= held[t]
    BY <1>1 DEF CanSettle
  <2> HIDE DEF q, t, o
  <2> QED BY <1>2, <1>4, <2>1, <2>2, <2>3
<1>12. mark' \in [Tickers -> Nat]
  BY <1>2, <1>3 DEF IInv, TypeOK, FillOrder
<1>13. fills' \subseteq FillState
  <2>1. fills' = fills \union
          {[order |-> k, date |-> today, side |-> o.side, quantity |-> q, price |-> price]}
    BY DEF FillOrder
  <2> HIDE DEF o, q, price
  <2> QED BY <1>2, <1>3, <1>4, <1>7, <1>8, <2>1 DEF FillState, IInv, TypeOK
<1>14. turnover' \in Nat
  <2>1. turnover' = turnover + n
    BY DEF FillOrder
  <2> HIDE DEF n
  <2> QED BY <1>5, <2>1 DEF IInv, TypeOK
<1>15. volume' \in [Tickers -> Nat]
  <2>1. volume' = [volume EXCEPT ![t] = Max({0, volume[t] - q})]
    BY DEF FillOrder, VolumeAfter
  <2>2. volume[t] \in Nat
    BY <1>2 DEF IInv, TypeOK
  <2>3. Max({0, volume[t] - q}) \in Nat
    BY <1>4, <2>2, MaxPair
  <2> QED BY <2>1, <2>3 DEF IInv, TypeOK
<1>16. UNCHANGED <<sessionVars, pending>>
  BY DEF FillOrder
<1>17. /\ today' \in Feed \union {0}
       /\ phase' \in {"idle", "targets", "open", "close", "aborted"}
       /\ bars' \in [Tickers -> Bars \union {NoBar}] /\ universe' \subseteq Tickers
       /\ pending' \in PendingState \union {NoTargets}
       /\ Started'
  BY <1>16 DEF IInv, TypeOK, Started, sessionVars
<1> HIDE DEF o, t, q, price, n
<1> QED BY <1>9, <1>10, <1>11, <1>12, <1>13, <1>14, <1>15, <1>17
     DEF IInv, TypeOK, OrdersTyped, NoLeverageNoShort
(* An iteration of the loop, whatever becomes of the order.                *)
LEMMA AttemptKeepsIInv ==
  ASSUME IInv, NEW k \in queue,
         \/ SkipTerminal(k) \/ MissingBar(k) \/ Halted(k) \/ OutOfVolume(k)
         \/ RiskRejected(k) \/ LimitNotReached(k) \/ CannotSettle(k) \/ FillOrder(k)
  PROVE  IInv'
<1>1. OrderType(orders[k]) /\ TypeOK
  BY DEF IInv, TypeOK
<1>2. \A why \in Reasons : /\ OrderType(Attempted(orders[k], why))
                          /\ OrderType(FailedAttempt(orders[k], why))
  BY <1>1, AttemptTyped
<1>3. CASE SkipTerminal(k)
  BY <1>3 DEF IInv, TypeOK, NoLeverageNoShort, Started, SkipTerminal,
              portfolioVars, sessionVars, tradeVars
<1>4. CASE MissingBar(k)
  BY <1>2, <1>4, NoFillKeepsIInv DEF MissingBar, Reasons
<1>5. CASE Halted(k)
  BY <1>2, <1>5, NoFillKeepsIInv DEF Halted, Reasons
<1>6. CASE OutOfVolume(k)
  BY <1>2, <1>6, NoFillKeepsIInv DEF OutOfVolume, Reasons
<1>7. CASE RiskRejected(k)
  BY <1>2, <1>7, NoFillKeepsIInv DEF RiskRejected, Reasons
<1>8. CASE LimitNotReached(k)
  BY <1>2, <1>8, NoFillKeepsIInv DEF LimitNotReached, Reasons
<1>9. CASE CannotSettle(k)
  BY <1>2, <1>9, NoFillKeepsIInv DEF CannotSettle, Reasons
<1>10. CASE FillOrder(k)
  BY <1>10, FillKeepsIInv
<1> QED BY <1>3, <1>4, <1>5, <1>6, <1>7, <1>8, <1>9, <1>10
-----------------------------------------------------------------------------
(* The session's other steps                                               *)

(* Splits round no holding or mark below zero.                             *)
LEMMA SplitTyped ==
  ASSUME IInv, NEW d \in EventDate, NEW t \in Tickers
  PROVE  SplitShares(t, ActionsOn(d)) \in Nat /\ SplitMark(t, ActionsOn(d)) \in Nat
<1>1. held[t] \in Nat /\ mark[t] \in Nat
  BY DEF IInv, TypeOK, NoLeverageNoShort
<1>2. CASE \E a \in ActionsOn(d) : a.ticker = t
  <2> DEFINE a == CHOOSE x \in ActionsOn(d) : x.ticker = t
  <2>1. a \in CorporateActions
    BY <1>2 DEF ActionsOn
  <2>2. a.num \in Nat \ {0} /\ a.den \in Nat \ {0}
    BY <2>1, ActionsAssumption DEF ActionsAssumption
  <2> HIDE DEF a
  <2>3. (held[t] * a.num) \div a.den \in Nat /\ (mark[t] * a.den) \div a.num \in Nat
    BY <1>1, <2>2, ProductNat, DivNat
  <2> QED BY <1>1, <1>2, <2>3 DEF SplitShares, SplitMark, a
<1>3. CASE ~ \E a \in ActionsOn(d) : a.ticker = t
  BY <1>1, <1>3 DEF SplitShares, SplitMark
<1> QED BY <1>2, <1>3

LEMMA CapacityTyped ==
  ASSUME NEW b \in Bars \union {NoBar}
  PROVE  Capacity(b) \in Nat
<1>1. CASE b = NoBar
  BY <1>1 DEF Capacity
<1>2. CASE b # NoBar
  <2>1. b.volume \in Nat
    BY <1>2, BarsAssumption DEF BarsAssumption, BarType
  <2>2. Config.participation \in Nat
    BY ConfigAssumption DEF ConfigAssumption
  <2>3. b.volume * Config.participation \in Nat
    BY <2>1, <2>2, ProductNat
  <2> QED BY <1>2, <2>3, DivNat DEF Capacity
<1> QED BY <1>1, <1>2

LEMMA BeginKeepsIInv ==
  ASSUME IInv, BeginSession
  PROVE  IInv'
<1>1. PICK d \in EventDate :
        /\ today' = d
        /\ held' = [t \in Tickers |-> SplitShares(t, ActionsOn(d))]
        /\ mark' = [t \in Tickers |-> SplitMark(t, ActionsOn(d))]
  BY DEF BeginSession
<1>2. today' \in Feed
  BY <1>1 DEF EventDate
<1>3. /\ held' \in [Tickers -> Int] /\ \A t \in Tickers : held'[t] >= 0
      /\ mark' \in [Tickers -> Nat]
  BY <1>1, SplitTyped
<1>4. bars' \in [Tickers -> Bars \union {NoBar}]
  BY DEF BeginSession
<1>5. volume' \in [Tickers -> Nat]
  BY <1>4, CapacityTyped DEF BeginSession
<1>6. universe' \subseteq Tickers
  BY FeedAssumption DEF FeedAssumption, BeginSession
<1> QED BY <1>2, <1>3, <1>4, <1>5, <1>6
     DEF IInv, TypeOK, NoLeverageNoShort, Started, BeginSession, orderVars

(* A batch of well-typed orders joins the others.                          *)
LEMMA WithOrdersTyped ==
  ASSUME TypeOK, NEW new, DOMAIN new \subseteq OrderIds, \A k \in DOMAIN new : OrderType(new[k])
  PROVE  /\ DOMAIN WithOrders(new) = DOMAIN orders \union DOMAIN new
         /\ DOMAIN WithOrders(new) \subseteq OrderIds
         /\ \A k \in DOMAIN WithOrders(new) : OrderType(WithOrders(new)[k])
  BY DEF WithOrders, TypeOK

LEMMA QueueKeepsIInv ==
  ASSUME IInv, QueueOpenOrders
  PROVE  IInv'
<1>1. today \in Feed
  BY DEF IInv, Started, QueueOpenOrders
<1>2. OrdersTyped' /\ mark' \in [Tickers -> Nat] /\ pending' \in PendingState \union {NoTargets}
  <2>1. CASE Due
    <3> DEFINE new == NewOrders(pending.targets, pending.signal, "open", working)
    <3>1. pending.targets \in Targets /\ pending.signal \in Feed
      BY <2>1 DEF IInv, TypeOK, PendingState, Due
    <3>2. DOMAIN new \subseteq OrderIds /\ \A k \in DOMAIN new : OrderType(new[k])
      BY <1>1, <3>1, NewOrdersTyped DEF IInv
    <3>3. /\ orders' = WithOrders(new) /\ queue' = working \union DOMAIN new /\ working' = {}
          /\ mark' = MarkedAt("open") /\ pending' = NoTargets
      BY <2>1 DEF QueueOpenOrders
    <3> HIDE DEF new
    <3>4. OrdersTyped'
      BY <3>2, <3>3, WithOrdersTyped DEF OrdersTyped, IInv, TypeOK
    <3> QED BY <3>3, <3>4, MarkedTyped DEF IInv
  <2>2. CASE ~Due
    BY <2>2 DEF OrdersTyped, IInv, TypeOK, QueueOpenOrders
  <2> QED BY <2>1, <2>2
<1> QED BY <1>1, <1>2
     DEF IInv, TypeOK, OrdersTyped, NoLeverageNoShort, Started, QueueOpenOrders, tradeVars

LEMMA StrategyKeepsIInv ==
  ASSUME IInv, RunStrategy
  PROVE  IInv'
<1>1. today \in Feed
  BY DEF IInv, Started, RunStrategy
<1>2. OrdersTyped' /\ mark' \in [Tickers -> Nat] /\ pending' \in PendingState \union {NoTargets}
  <2>1. CASE UNCHANGED <<orders, queue, mark, pending>>
    BY <2>1 DEF OrdersTyped, IInv, TypeOK, RunStrategy
  <2>2. ASSUME NEW targets \in Targets, Config.execution_price = "same_close",
               orders' = WithOrders(NewOrders(targets, today, "close", working)),
               queue' = DOMAIN NewOrders(targets, today, "close", working),
               mark' = MarkedAt("close"), UNCHANGED pending
        PROVE  OrdersTyped' /\ mark' \in [Tickers -> Nat] /\ pending' \in PendingState \union {NoTargets}
    <3> DEFINE new == NewOrders(targets, today, "close", working)
    <3>1. DOMAIN new \subseteq OrderIds /\ \A k \in DOMAIN new : OrderType(new[k])
      BY <1>1, NewOrdersTyped DEF IInv
    <3>2. orders' = WithOrders(new) /\ queue' = DOMAIN new /\ working' = working
      BY <2>2 DEF RunStrategy
    <3> HIDE DEF new
    <3>3. OrdersTyped'
      BY <3>1, <3>2, WithOrdersTyped DEF OrdersTyped, IInv, TypeOK
    <3> QED BY <2>2, <3>3, MarkedTyped DEF IInv, TypeOK
  <2>3. ASSUME NEW targets \in Targets, NEW d \in NextSession(today),
               pending' = [targets |-> targets, date |-> d, signal |-> today],
               UNCHANGED <<orders, queue, mark>>
        PROVE  OrdersTyped' /\ mark' \in [Tickers -> Nat] /\ pending' \in PendingState \union {NoTargets}
    BY <1>1, <2>3 DEF OrdersTyped, IInv, TypeOK, RunStrategy, PendingState, NextSession
  <2> QED BY <2>1, <2>2, <2>3 DEF RunStrategy
<1> QED BY <1>1, <1>2
     DEF IInv, TypeOK, OrdersTyped, NoLeverageNoShort, Started, RunStrategy, tradeVars

LEMMA EndKeepsIInv ==
  ASSUME IInv, EndSession
  PROVE  IInv'
<1>1. mark' \in [Tickers -> Nat]
  BY MarkedTyped DEF IInv, EndSession
<1> QED BY <1>1 DEF IInv, TypeOK, NoLeverageNoShort, Started, EndSession, orderVars, tradeVars

LEMMA AbortKeepsIInv ==
  ASSUME IInv, AbortOnCorporateAction
  PROVE  IInv'
  BY DEF IInv, TypeOK, NoLeverageNoShort, Started, AbortOnCorporateAction,
         portfolioVars, orderVars, tradeVars
-----------------------------------------------------------------------------
(* The theorems                                                            *)

LEMMA InitIInv == Init => IInv
  BY ConfigAssumption
     DEF ConfigAssumption, Init, IInv, TypeOK, NoLeverageNoShort, Started

LEMMA StepKeepsIInv == IInv /\ [Next]_vars => IInv'
<1> SUFFICES ASSUME IInv, [Next]_vars PROVE IInv'
  OBVIOUS
<1>1. CASE BeginSession
  BY <1>1, BeginKeepsIInv
<1>2. CASE AbortOnCorporateAction
  BY <1>2, AbortKeepsIInv
<1>3. CASE QueueOpenOrders
  BY <1>3, QueueKeepsIInv
<1>4. ASSUME NEW k \in queue,
             \/ SkipTerminal(k) \/ MissingBar(k) \/ Halted(k) \/ OutOfVolume(k)
             \/ RiskRejected(k) \/ LimitNotReached(k) \/ CannotSettle(k) \/ FillOrder(k)
      PROVE  IInv'
  BY <1>4, AttemptKeepsIInv
<1>5. CASE RunStrategy
  BY <1>5, StrategyKeepsIInv
<1>6. CASE EndSession
  BY <1>6, EndKeepsIInv
<1>7. CASE UNCHANGED vars
  BY <1>7 DEF IInv, TypeOK, NoLeverageNoShort, Started, vars,
              portfolioVars, sessionVars, orderVars, tradeVars
<1> QED BY <1>1, <1>2, <1>3, <1>4, <1>5, <1>6, <1>7 DEF Next, Finished

LEMMA IInvHolds == Spec => []IInv
  BY InitIInv, StepKeepsIInv, PTL DEF Spec

(* Every variable of the event loop keeps its type, for every calendar,    *)
(* feed, set of bars and configuration within the assumptions.             *)
THEOREM TypesCorrect == Spec => []TypeOK
  BY IInvHolds, PTL DEF IInv

(* No run sells short or borrows (BACKTEST_ASSUMPTIONS.md): however splits,*)
(* partial fills, fees and slippage combine, cash and holdings are never   *)
(* negative.                                                               *)
THEOREM NeverShortNeverLeveraged == Spec => []NoLeverageNoShort
  BY IInvHolds, PTL DEF IInv
-----------------------------------------------------------------------------
(* Invariants about the orders                                             *)

(* A session makes one batch of orders, dated today, after the point where *)
(* every order is older.                                                   *)
Batches ==
  /\ \A k \in DOMAIN orders : k[1] <= today
  /\ phase = "targets" \/ (phase = "open" /\ Config.execution_price = "same_close")
       => \A k \in DOMAIN orders : k[1] < today
  /\ Config.execution_price = "same_close" => pending = NoTargets

(* Queued targets wait for the session that follows their signal.          *)
OnTime ==
  /\ SignalsExecuteOnTime
  /\ pending # NoTargets => pending.date \in NextSession(pending.signal)

(* The open orders in each part of a session.                              *)
Carried ==
  /\ OpenOrdersCarried
  /\ queue \intersect working = {}
  /\ phase \in {"idle", "targets", "aborted"} => queue = {}
  /\ phase \in {"open", "close"} => \A k \in working : orders[k].attempted = today

(* What has traded today is older than what is still queued, and an order  *)
(* turned away for lack of volume left none.                               *)
FirstCome ==
  /\ \A f \in fills : f.date <= today /\ f.order \in DOMAIN orders
  /\ phase = "targets" => \A f \in fills : f.date # today
  /\ \A f \in fills, k \in queue : f.date = today => ~Older(k, f.order)
  /\ phase \in {"open", "close"} =>
       \A k \in working : orders[k].reason = "volume_cap" => volume[k[2]] = 0
  /\ OlderOrdersTradeFirst

(* What a status says of an order's fills.                                 *)
StatusMatches(o) ==
  /\ o.status = "filled" <=> o.filled = o.quantity
  /\ o.status \in {"pending", "rejected"} => o.filled = 0
  /\ o.status = "partially_filled" => o.filled > 0

AllMatch == \A k \in DOMAIN orders : StatusMatches(orders[k])
-----------------------------------------------------------------------------
(* What the loop's steps do to the orders                                  *)

(* Orders made from targets are dated today, carry the signal's date and   *)
(* are untouched.                                                          *)
LEMMA NewOrdersFresh ==
  ASSUME NEW targets, NEW signal, NEW column, NEW ids,
         NEW k \in DOMAIN NewOrders(targets, signal, column, ids)
  PROVE  LET o == NewOrders(targets, signal, column, ids)[k] IN
         /\ k[1] = today
         /\ o.signal = signal /\ o.filled = 0 /\ o.attempted = 0 /\ o.reason = "none"
         /\ o.status \in {"pending", "rejected"}
<1> DEFINE eligible == {t \in Positions \union DOMAIN targets :
                          (t \in universe \/ t \in DOMAIN targets) /\ bars[t] # NoBar}
           delta(t) == Desired(targets, t, column) - Projected(t, ids)
           side(t) == IF delta(t) > 0 THEN "buy" ELSE "sell"
           order(t) == [side |-> side(t),
                        quantity |-> IF delta(t) > 0 THEN delta(t) ELSE -delta(t),
                        filled |-> 0,
                        status |-> IF t \in universe THEN "pending" ELSE "rejected",
                        reference |-> bars[t][column],
                        limit |-> IF Config.order_type = "market" THEN 0
                                  ELSE LimitPrice(side(t), bars[t][column]),
                        attempted |-> 0, reason |-> "none",
                        aim |-> Desired(targets, t, column), signal |-> signal]
           due == {t \in eligible : order(t).quantity \in Nat \ {0}}
           new == NewOrders(targets, signal, column, ids)
<1>1. new = [j \in {<<today, t>> : t \in due} |-> order(j[2])]
  BY DEF NewOrders
<1>2. \A t : /\ order(t).signal = signal /\ order(t).filled = 0
             /\ order(t).attempted = 0 /\ order(t).reason = "none"
             /\ order(t).status \in {"pending", "rejected"}
  OBVIOUS
<1> HIDE DEF due, order, new
<1>3. k[1] = today /\ new[k] = order(k[2])
  BY <1>1 DEF new
<1> QED BY <1>2, <1>3 DEF new

(* An attempt or a fill, and then the expiry of a DAY order, leave what an *)
(* order was created with alone and leave a trace of today's attempt.      *)
LEMMA ExpireShape ==
  ASSUME NEW o, OrderType(o)
  PROVE  LET s == Expire(o) IN
         /\ s.quantity = o.quantity /\ s.filled = o.filled /\ s.signal = o.signal
         /\ s.reason = o.reason
         /\ o.attempted = today => s.attempted = today
         /\ Config.time_in_force = "day" => ~IsOpen(s)
         /\ s.status = o.status \/ (IsOpen(o) /\ s.status = "expired")
  BY DEF Expire, OrderType, IsOpen, Remaining, TerminalStatuses

(* What a failed attempt may make of an order.                             *)
AttemptedAs(o, p) ==
  /\ OrderType(p)
  /\ p.quantity = o.quantity /\ p.signal = o.signal /\ p.filled = o.filled
  /\ p.attempted = today
  /\ p.status = o.status \/ (p.status = "rejected" /\ o.filled = 0)

LEMMA AttemptShape ==
  ASSUME TypeOK, NEW o, OrderType(o), NEW why \in Reasons
  PROVE  /\ AttemptedAs(o, Attempted(o, why)) /\ Attempted(o, why).reason = why
         /\ AttemptedAs(o, FailedAttempt(o, why)) /\ FailedAttempt(o, why).reason = why
<1>1. OrderType(Attempted(o, why)) /\ OrderType(FailedAttempt(o, why))
  BY AttemptTyped
<1>2. /\ Attempted(o, why).quantity = o.quantity /\ Attempted(o, why).signal = o.signal
      /\ Attempted(o, why).filled = o.filled /\ Attempted(o, why).attempted = today
      /\ Attempted(o, why).status = o.status /\ Attempted(o, why).reason = why
  BY DEF Attempted, OrderType
<1>3. ASSUME NEW n, OrderType(n)
      PROVE  LET r == [n EXCEPT !.status = "rejected"] IN
             /\ r.quantity = n.quantity /\ r.signal = n.signal /\ r.filled = n.filled
             /\ r.attempted = n.attempted /\ r.status = "rejected" /\ r.reason = n.reason
  BY <1>3 DEF OrderType
<1> QED BY <1>1, <1>2, <1>3 DEF FailedAttempt, AttemptedAs

LEMMA FillShape ==
  ASSUME TypeOK, NEW o, OrderType(o), NEW q \in Nat \ {0}, q <= Remaining(o)
  PROVE  LET p == FilledBy(o, q) IN
         /\ OrderType(p)
         /\ p.quantity = o.quantity /\ p.signal = o.signal /\ p.filled = o.filled + q
         /\ p.attempted = today /\ p.reason = "none"
         /\ p.status = IF q = Remaining(o) THEN "filled" ELSE "partially_filled"
<1>1. OrderType(FilledBy(o, q))
  BY FilledTyped
<1> QED BY <1>1 DEF FilledBy, OrderType

(* An attempt that trades nothing, whatever stopped it.                    *)
Failing(k) ==
  \E o : /\ Attempting(k) /\ AttemptedAs(orders[k], o) /\ NoFill(k, o)
         /\ o.reason = "volume_cap" => volume[k[2]] <= 0

LEMMA FailingAttempts ==
  ASSUME IInv, NEW k \in queue,
         \/ MissingBar(k) \/ Halted(k) \/ OutOfVolume(k)
         \/ RiskRejected(k) \/ LimitNotReached(k) \/ CannotSettle(k)
  PROVE  Failing(k)
<1>1. OrderType(orders[k]) /\ TypeOK
  BY DEF IInv, TypeOK
<1>2. \A why \in Reasons :
        /\ AttemptedAs(orders[k], Attempted(orders[k], why))
        /\ Attempted(orders[k], why).reason = why
        /\ AttemptedAs(orders[k], FailedAttempt(orders[k], why))
        /\ FailedAttempt(orders[k], why).reason = why
  BY <1>1, AttemptShape
<1>3. CASE MissingBar(k)
  BY <1>2, <1>3 DEF MissingBar, Reasons, Failing
<1>4. CASE Halted(k)
  BY <1>2, <1>4 DEF Halted, Reasons, Failing
<1>5. CASE OutOfVolume(k)
  <2>1. PICK why \in {"volume_cap", "limit_not_reached"} : NoFill(k, Attempted(orders[k], why))
    BY <1>5 DEF OutOfVolume
  <2>2. Attempting(k) /\ volume[k[2]] <= 0
    BY <1>5 DEF OutOfVolume
  <2>3. why \in Reasons
    BY DEF Reasons
  <2> QED BY <1>2, <2>1, <2>2, <2>3 DEF Failing
<1>6. CASE RiskRejected(k)
  BY <1>2, <1>6 DEF RiskRejected, Tradable, Reasons, Failing
<1>7. CASE LimitNotReached(k)
  BY <1>2, <1>7 DEF LimitNotReached, Tradable, Reasons, Failing
<1>8. CASE CannotSettle(k)
  <2>1. PICK why \in {"insufficient_cash", "insufficient_position"} :
          NoFill(k, FailedAttempt(orders[k], why))
    BY <1>8 DEF CannotSettle
  <2>2. Attempting(k)
    BY <1>8 DEF CannotSettle, Tradable
  <2>3. why \in Reasons /\ why # "volume_cap"
    BY DEF Reasons
  <2> QED BY <1>2, <2>1, <2>2, <2>3 DEF Failing
<1> QED BY <1>3, <1>4, <1>5, <1>6, <1>7, <1>8

(* One iteration of _process_orders, seen from the orders.                 *)
Iteration(k) ==
  /\ phase \in {"open", "close"} /\ k \in NextUp
  /\ UNCHANGED <<today, phase, pending, bars>>
  /\ queue' = queue \ {k}
  /\ DOMAIN orders' = DOMAIN orders
  /\ \A j \in DOMAIN orders : j # k => orders'[j] = orders[j]
  /\ orders'[k].signal = orders[k].signal
  /\ \/ ~IsOpen(orders[k]) /\ orders'[k] = orders[k] /\ working' = working
     \/ /\ IsOpen(orders[k]) /\ orders'[k].attempted = today
        /\ working' = IF IsOpen(orders'[k]) THEN working \union {k} ELSE working
        /\ Config.time_in_force = "day" => ~IsOpen(orders'[k])

Attempts(k) ==
  \/ SkipTerminal(k) \/ MissingBar(k) \/ Halted(k) \/ OutOfVolume(k)
  \/ RiskRejected(k) \/ LimitNotReached(k) \/ CannotSettle(k) \/ FillOrder(k)

LEMMA ConcludeIterates ==
  ASSUME IInv, NEW k \in queue, Attempting(k), UNCHANGED <<today, phase, pending, bars>>,
         NEW o, OrderType(o), o.signal = orders[k].signal, o.attempted = today, Conclude(k, o)
  PROVE  Iteration(k)
<1>1. /\ Expire(o).signal = o.signal /\ Expire(o).attempted = today
      /\ Config.time_in_force = "day" => ~IsOpen(Expire(o))
  BY ExpireShape
<1>2. k \in DOMAIN orders
  BY DEF IInv, TypeOK
<1>3. /\ orders' = [orders EXCEPT ![k] = Expire(o)]
      /\ queue' = queue \ {k}
      /\ working' = IF IsOpen(Expire(o)) THEN working \union {k} ELSE working
  BY DEF Conclude
<1>4. orders'[k] = Expire(o) /\ DOMAIN orders' = DOMAIN orders
      /\ \A j \in DOMAIN orders : j # k => orders'[j] = orders[j]
  BY <1>2, <1>3
<1> QED BY <1>1, <1>3, <1>4 DEF Iteration, Attempting

LEMMA FillIsTyped ==
  ASSUME IInv, NEW k \in queue, FillOrder(k)
  PROVE  LET q == FillQuantity(orders[k], volume[k[2]])
             o == FilledBy(orders[k], q)
         IN /\ Tradable(k) /\ q \in Nat \ {0} /\ q <= Remaining(orders[k])
            /\ OrderType(o) /\ o.signal = orders[k].signal /\ o.attempted = today
            /\ o.quantity = orders[k].quantity /\ o.filled = orders[k].filled + q
            /\ o.reason = "none"
            /\ o.status = IF q = Remaining(orders[k]) THEN "filled" ELSE "partially_filled"
<1> DEFINE q == FillQuantity(orders[k], volume[k[2]])
<1>1. Tradable(k)
  BY DEF FillOrder
<1>2. q \in Nat \ {0} /\ q <= Remaining(orders[k])
  BY <1>1, FillQuantityTyped
<1>3. OrderType(orders[k]) /\ TypeOK
  BY DEF IInv, TypeOK
<1> HIDE DEF q
<1>4. LET p == FilledBy(orders[k], q) IN
         /\ OrderType(p)
         /\ p.quantity = orders[k].quantity /\ p.signal = orders[k].signal
         /\ p.filled = orders[k].filled + q
         /\ p.attempted = today /\ p.reason = "none"
         /\ p.status = IF q = Remaining(orders[k]) THEN "filled" ELSE "partially_filled"
  BY <1>2, <1>3, FillShape
<1> QED BY <1>1, <1>2, <1>4 DEF q

LEMMA EveryAttemptIterates ==
  ASSUME IInv, NEW k \in queue, Attempts(k)
  PROVE  Iteration(k)
<1>1. CASE SkipTerminal(k)
  BY <1>1 DEF SkipTerminal, Iteration, sessionVars
<1>2. CASE Failing(k)
  <2>1. PICK o : /\ Attempting(k) /\ AttemptedAs(orders[k], o) /\ NoFill(k, o)
    BY <1>2 DEF Failing
  <2>2. /\ OrderType(o) /\ o.signal = orders[k].signal /\ o.attempted = today
    BY <2>1 DEF AttemptedAs
  <2>3. Conclude(k, o) /\ UNCHANGED <<today, phase, pending, bars>>
    BY <2>1 DEF NoFill, sessionVars
  <2> QED BY <2>1, <2>2, <2>3, ConcludeIterates
<1>3. CASE FillOrder(k)
  <2> DEFINE o == FilledBy(orders[k], FillQuantity(orders[k], volume[k[2]]))
  <2>1. /\ OrderType(o) /\ o.signal = orders[k].signal /\ o.attempted = today
        /\ Attempting(k)
    BY <1>3, FillIsTyped DEF Tradable
  <2>2. Conclude(k, o) /\ UNCHANGED <<today, phase, pending, bars>>
    BY <1>3 DEF FillOrder, sessionVars
  <2> HIDE DEF o
  <2> QED BY <2>1, <2>2, ConcludeIterates
<1> QED BY <1>1, <1>2, <1>3, FailingAttempts DEF Attempts

(* Next, with the iterations of the loop under one name.                   *)
LEMMA StepCases ==
  ASSUME [Next]_vars
  PROVE  \/ BeginSession \/ AbortOnCorporateAction \/ QueueOpenOrders
         \/ \E k \in queue : Attempts(k)
         \/ RunStrategy \/ EndSession \/ UNCHANGED vars
  BY DEF Next, Attempts, Finished

(* The session's steps that make orders: with their keys and what they     *)
(* hold, and what becomes of the others.                                   *)
Batch(new, signal) ==
  /\ DOMAIN orders' = DOMAIN orders \union DOMAIN new
  /\ \A k \in DOMAIN orders' : orders'[k] = IF k \in DOMAIN new THEN new[k] ELSE orders[k]
  /\ \A k \in DOMAIN new :
       /\ k \in OrderIds /\ k[1] = today /\ OrderType(new[k])
       /\ new[k].signal = signal /\ new[k].filled = 0
       /\ new[k].attempted = 0 /\ new[k].reason = "none"
       /\ new[k].status \in {"pending", "rejected"}

LEMMA BatchOf ==
  ASSUME IInv, today \in Feed, NEW targets \in Targets, NEW signal \in Feed,
         NEW column \in {"open", "close"}, NEW ids,
         orders' = WithOrders(NewOrders(targets, signal, column, ids))
  PROVE  Batch(NewOrders(targets, signal, column, ids), signal)
<1>1. PICK new : new = NewOrders(targets, signal, column, ids)
  OBVIOUS
<1>2. DOMAIN new \subseteq OrderIds /\ \A k \in DOMAIN new : OrderType(new[k])
  BY <1>1, NewOrdersTyped DEF IInv
<1>3. \A k \in DOMAIN new :
        /\ k[1] = today
        /\ new[k].signal = signal /\ new[k].filled = 0
        /\ new[k].attempted = 0 /\ new[k].reason = "none"
        /\ new[k].status \in {"pending", "rejected"}
  BY <1>1, NewOrdersFresh
<1>4. DOMAIN orders' = DOMAIN orders \union DOMAIN new
      /\ \A k \in DOMAIN orders' : orders'[k] = IF k \in DOMAIN new THEN new[k] ELSE orders[k]
  BY <1>1 DEF WithOrders
<1> QED BY <1>1, <1>2, <1>3, <1>4 DEF Batch

LEMMA QueueBatch ==
  ASSUME IInv, QueueOpenOrders, Due
  PROVE  \E new : /\ Batch(new, pending.signal) /\ queue' = working \union DOMAIN new
                  /\ pending.date = today /\ pending' = NoTargets
<1>1. today \in Feed
  BY DEF IInv, Started, QueueOpenOrders
<1>2. pending.targets \in Targets /\ pending.signal \in Feed /\ pending.date = today
  BY DEF IInv, TypeOK, PendingState, Due
<1>3. PICK new : new = NewOrders(pending.targets, pending.signal, "open", working)
  OBVIOUS
<1>4. orders' = WithOrders(new) /\ queue' = working \union DOMAIN new /\ pending' = NoTargets
  BY <1>3 DEF QueueOpenOrders
<1>5. Batch(new, pending.signal)
  BY <1>1, <1>2, <1>3, <1>4, BatchOf
<1> QED BY <1>2, <1>4, <1>5

(* RunStrategy queues its targets, turns them into orders or does neither. *)
LEMMA StrategyCases ==
  ASSUME IInv, RunStrategy
  PROVE  /\ today \in Feed /\ phase = "open" /\ phase' = "close" /\ queue = {}
         /\ UNCHANGED <<today, bars, working, fills, volume, held>>
         /\ \/ UNCHANGED <<orders, queue, pending>>
            \/ /\ Config.execution_price = "same_close" /\ UNCHANGED pending
               /\ \E new : Batch(new, today) /\ queue' = DOMAIN new
            \/ /\ Config.execution_price # "same_close" /\ UNCHANGED <<orders, queue>>
               /\ \E d \in NextSession(today), targets \in Targets :
                    pending' = [targets |-> targets, date |-> d, signal |-> today]
<1>1. today \in Feed
  BY DEF IInv, Started, RunStrategy
<1>2. /\ phase = "open" /\ phase' = "close" /\ queue = {}
      /\ UNCHANGED <<today, bars, working, fills, volume, held>>
  BY DEF RunStrategy, tradeVars
<1>3. CASE UNCHANGED <<orders, queue, mark, pending>>
  BY <1>1, <1>2, <1>3
<1>4. ASSUME NEW targets \in Targets, Config.execution_price = "same_close",
             orders' = WithOrders(NewOrders(targets, today, "close", working)),
             queue' = DOMAIN NewOrders(targets, today, "close", working)
      PROVE  \E new : Batch(new, today) /\ queue' = DOMAIN new
  BY <1>1, <1>4, BatchOf
<1> QED BY <1>1, <1>2, <1>3, <1>4 DEF RunStrategy
-----------------------------------------------------------------------------
(* Batches, and targets executed on time                                   *)

LEMMA InitOrders == Init => Batches /\ OnTime /\ Carried /\ FirstCome /\ AllMatch
  BY DEF Init, Batches, OnTime, SignalsExecuteOnTime, Carried, OpenOrdersCarried, FirstCome,
         OlderOrdersTradeFirst, AllMatch

LEMMA BatchesStep == IInv /\ Batches /\ [Next]_vars => Batches'
<1> SUFFICES ASSUME IInv, Batches, [Next]_vars PROVE Batches'
  OBVIOUS
<1>0. /\ DOMAIN orders \subseteq OrderIds /\ today \in Nat
      /\ \A k \in OrderIds : k[1] \in Nat
  BY FeedDates DEF IInv, TypeOK, OrderIds
<1>1. CASE BeginSession
  <2>1. today' > today /\ today' \in Nat
    BY <1>1, FeedDates DEF BeginSession, EventDate
  <2>2. UNCHANGED <<orders, pending>>
    BY <1>1 DEF BeginSession, orderVars
  <2>3. \A k \in DOMAIN orders : k[1] < today'
    BY <1>0, <2>1 DEF Batches
  <2> QED BY <1>0, <2>1, <2>2, <2>3 DEF Batches
<1>2. CASE AbortOnCorporateAction
  BY <1>2 DEF Batches, AbortOnCorporateAction, orderVars
<1>3. CASE QueueOpenOrders /\ Due
  <2>1. PICK new : /\ Batch(new, pending.signal) /\ pending.date = today /\ pending' = NoTargets
    BY <1>3, QueueBatch
  <2>2. today' = today /\ phase' = "open"
    BY <1>3 DEF QueueOpenOrders
  <2>3. Config.execution_price # "same_close"
    BY <1>3 DEF Batches, Due
  <2>4. \A k \in DOMAIN orders' : k[1] <= today
    BY <1>0, <2>1 DEF Batch, Batches
  <2> QED BY <2>1, <2>2, <2>3, <2>4 DEF Batches
<1>4. CASE QueueOpenOrders /\ ~Due
  BY <1>4 DEF Batches, QueueOpenOrders
<1>5. ASSUME NEW k \in queue, Attempts(k) PROVE Batches'
  <2>1. Iteration(k)
    BY <1>5, EveryAttemptIterates
  <2> QED BY <2>1 DEF Iteration, Batches
<1>6. CASE RunStrategy
  <2>1. today' = today /\ phase' = "close"
    BY <1>6, StrategyCases
  <2>2. CASE UNCHANGED <<orders, queue, pending>>
    BY <2>1, <2>2 DEF Batches
  <2>3. ASSUME UNCHANGED pending, NEW new, Batch(new, today)
        PROVE  Batches'
    <3>1. \A k \in DOMAIN orders' : k[1] <= today
      BY <1>0, <2>3 DEF Batch, Batches
    <3> QED BY <2>1, <2>3, <3>1 DEF Batches
  <2>4. CASE Config.execution_price # "same_close" /\ UNCHANGED orders
    BY <2>1, <2>4 DEF Batches
  <2> QED BY <1>6, <2>2, <2>3, <2>4, StrategyCases
<1>7. CASE EndSession
  BY <1>7 DEF Batches, EndSession, orderVars
<1>8. CASE UNCHANGED vars
  BY <1>8 DEF Batches, vars, orderVars, sessionVars
<1> QED BY <1>1, <1>2, <1>3, <1>4, <1>5, <1>6, <1>7, <1>8, StepCases

LEMMA OnTimeStep == IInv /\ Batches /\ OnTime /\ [Next]_vars => OnTime'
<1> SUFFICES ASSUME IInv, Batches, OnTime, [Next]_vars PROVE OnTime'
  OBVIOUS
<1> DEFINE timely(k, o) == IF Config.execution_price = "same_close" THEN k[1] = o.signal
                           ELSE k[1] \in NextSession(o.signal)
           waits(p) == p # NoTargets => p.date \in NextSession(p.signal)
<1>0. OnTime = ((\A k \in DOMAIN orders : timely(k, orders[k])) /\ waits(pending))
      /\ OnTime' = ((\A k \in DOMAIN orders' : timely(k, orders'[k])) /\ waits(pending'))
  BY DEF OnTime, SignalsExecuteOnTime, NextSession
<1>1. CASE UNCHANGED <<orders, pending>>
  BY <1>0, <1>1
<1>2. CASE QueueOpenOrders /\ Due
  <2>1. PICK new : /\ Batch(new, pending.signal) /\ pending.date = today /\ pending' = NoTargets
    BY <1>2, QueueBatch
  <2>2. pending # NoTargets /\ Config.execution_price # "same_close"
    BY <1>2 DEF Batches, Due
  <2>3. today \in NextSession(pending.signal)
    BY <1>0, <2>1, <2>2
  <2>4. \A k \in DOMAIN new : timely(k, new[k])
    BY <2>1, <2>2, <2>3 DEF Batch
  <2>5. waits(pending')
    BY <2>1
  <2> HIDE DEF timely, waits
  <2>6. \A k \in DOMAIN orders' : timely(k, orders'[k])
    BY <1>0, <2>1, <2>4 DEF Batch
  <2> QED BY <1>0, <2>5, <2>6
<1>3. ASSUME NEW k \in queue, Attempts(k) PROVE OnTime'
  <2>1. Iteration(k)
    BY <1>3, EveryAttemptIterates
  <2>2. \A j \in DOMAIN orders : orders'[j].signal = orders[j].signal
    BY <2>1 DEF Iteration
  <2>3. \A j \in DOMAIN orders' : timely(j, orders'[j])
    BY <1>0, <2>1, <2>2 DEF Iteration
  <2> QED BY <1>0, <2>1, <2>3 DEF Iteration
<1>4. CASE RunStrategy
  <2>1. CASE UNCHANGED <<orders, queue, pending>>
    BY <1>1, <2>1
  <2>2. ASSUME Config.execution_price = "same_close", UNCHANGED pending,
               NEW new, Batch(new, today)
        PROVE  OnTime'
    <3>1. \A k \in DOMAIN new : timely(k, new[k])
      BY <2>2 DEF Batch
    <3> HIDE DEF timely, waits
    <3> QED BY <1>0, <2>2, <3>1 DEF Batch
  <2>3. ASSUME UNCHANGED orders, NEW d \in NextSession(today), NEW targets \in Targets,
               pending' = [targets |-> targets, date |-> d, signal |-> today]
        PROVE  OnTime'
    <3>1. waits(pending')
      BY <2>3
    <3> HIDE DEF timely, waits
    <3> QED BY <1>0, <2>3, <3>1
  <2> QED BY <1>4, <2>1, <2>2, <2>3, StrategyCases
<1>5. BeginSession \/ AbortOnCorporateAction \/ (QueueOpenOrders /\ ~Due) \/ EndSession
        \/ UNCHANGED vars => UNCHANGED <<orders, pending>>
  BY DEF BeginSession, AbortOnCorporateAction, QueueOpenOrders, EndSession, vars, orderVars
<1> QED BY <1>1, <1>2, <1>3, <1>4, <1>5, StepCases
-----------------------------------------------------------------------------
(* Carried orders                                                          *)

LEMMA CarriedStep == IInv /\ Batches /\ Carried /\ [Next]_vars => Carried'
<1> SUFFICES ASSUME IInv, Batches, Carried, [Next]_vars PROVE Carried'
  OBVIOUS
<1>0. /\ queue \subseteq DOMAIN orders /\ working \subseteq DOMAIN orders
      /\ \A k \in DOMAIN orders : IsOpen(orders[k]) <=> k \in working \/ (k \in queue /\ IsOpen(orders[k]))
      /\ Config.time_in_force = "day" => working = {}
      /\ phase = "idle" => \A k \in DOMAIN orders : IsOpen(orders[k]) => orders[k].attempted = today
      /\ queue \intersect working = {}
      /\ phase \in {"idle", "targets", "aborted"} => queue = {}
      /\ phase \in {"open", "close"} => \A k \in working : orders[k].attempted = today
  BY DEF IInv, TypeOK, Carried, OpenOrdersCarried
<1>00. ASSUME /\ \A k \in DOMAIN orders' : IsOpen(orders'[k]) <=> k \in working' \/ (k \in queue' /\ IsOpen(orders'[k])),
              queue' \subseteq DOMAIN orders', working' \subseteq DOMAIN orders',
              Config.time_in_force = "day" => working' = {},
              phase' = "idle" => \A k \in DOMAIN orders' : IsOpen(orders'[k]) => orders'[k].attempted = today',
              queue' \intersect working' = {},
              phase' \in {"idle", "targets", "aborted"} => queue' = {},
              phase' \in {"open", "close"} => \A k \in working' : orders'[k].attempted = today'
       PROVE  Carried'
  <2>1. {k \in DOMAIN orders' : IsOpen(orders'[k])} = working' \union {k \in queue' : IsOpen(orders'[k])}
    BY <1>00
  <2> QED BY <1>00, <2>1 DEF Carried, OpenOrdersCarried, IsOpen, Remaining
<1>1. CASE UNCHANGED <<orders, queue, working>> /\ (phase \in {"idle", "targets", "aborted"} \/ queue = {})
           /\ (UNCHANGED <<phase, today>> \/ phase' \in {"targets", "aborted"})
  <2> USE <1>0, <1>1
  <2>1. CASE phase' \in {"targets", "aborted"} /\ queue = {}
    BY <1>00, <2>1
  <2>2. CASE UNCHANGED <<phase, today>>
    BY <1>00, <2>2
  <2> QED BY <2>1, <2>2
<1>2. CASE BeginSession
  <2>1. UNCHANGED <<orders, queue, working>> /\ phase = "idle" /\ phase' = "targets"
    BY <1>2 DEF BeginSession, orderVars
  <2> QED BY <1>1, <2>1
<1>3. CASE AbortOnCorporateAction
  <2>1. UNCHANGED <<orders, queue, working>> /\ phase = "idle" /\ phase' = "aborted"
    BY <1>3 DEF AbortOnCorporateAction, orderVars
  <2> QED BY <1>1, <2>1
<1>4. CASE QueueOpenOrders /\ Due
  <2>1. PICK new : /\ Batch(new, pending.signal) /\ queue' = working \union DOMAIN new
    BY <1>4, QueueBatch
  <2>2. working' = {} /\ phase' = "open" /\ queue = {}
    BY <1>0, <1>4 DEF QueueOpenOrders
  <2>3. \A k \in DOMAIN orders' : IsOpen(orders'[k]) => k \in queue'
    BY <1>0, <2>1, <2>2 DEF Batch
  <2>4. queue' \subseteq DOMAIN orders'
    BY <1>0, <2>1 DEF Batch
  <2> QED BY <1>00, <2>2, <2>3, <2>4
<1>5. CASE QueueOpenOrders /\ ~Due
  <2>1. UNCHANGED orders /\ queue' = working /\ working' = {} /\ phase' = "open" /\ queue = {}
    BY <1>0, <1>5 DEF QueueOpenOrders
  <2> QED BY <1>0, <1>00, <2>1
<1>6. ASSUME NEW k \in queue, Attempts(k) PROVE Carried'
  <2>1. Iteration(k)
    BY <1>6, EveryAttemptIterates
  <2>2. k \notin working /\ k \in DOMAIN orders
    BY <1>0
  <2>3. phase' \in {"open", "close"} /\ today' = today /\ phase' = phase
    BY <2>1 DEF Iteration
  <2>4. CASE ~IsOpen(orders[k]) /\ orders'[k] = orders[k] /\ working' = working
    <3>1. DOMAIN orders' = DOMAIN orders /\ \A j \in DOMAIN orders : orders'[j] = orders[j]
      BY <2>1, <2>4 DEF Iteration
    <3>2. queue' = queue \ {k}
      BY <2>1 DEF Iteration
    <3>3. \A j \in DOMAIN orders' : IsOpen(orders'[j]) <=> j \in working' \/ (j \in queue' /\ IsOpen(orders'[j]))
      BY <1>0, <2>4, <3>1, <3>2
    <3>4. \A j \in working' : orders'[j].attempted = today'
      BY <1>0, <2>3, <2>4, <3>1
    <3> QED BY <1>0, <1>00, <2>3, <2>4, <3>1, <3>2, <3>3, <3>4
  <2>5. CASE /\ IsOpen(orders[k]) /\ orders'[k].attempted = today
             /\ working' = IF IsOpen(orders'[k]) THEN working \union {k} ELSE working
             /\ Config.time_in_force = "day" => ~IsOpen(orders'[k])
    <3>1. DOMAIN orders' = DOMAIN orders /\ \A j \in DOMAIN orders : j # k => orders'[j] = orders[j]
      BY <2>1 DEF Iteration
    <3>2. queue' = queue \ {k}
      BY <2>1 DEF Iteration
    <3>3. \A j \in DOMAIN orders' : IsOpen(orders'[j]) <=> j \in working' \/ (j \in queue' /\ IsOpen(orders'[j]))
      BY <1>0, <2>2, <2>5, <3>1, <3>2
    <3>4. \A j \in working' : orders'[j].attempted = today'
      BY <1>0, <2>2, <2>3, <2>5, <3>1
    <3>5. Config.time_in_force = "day" => working' = {}
      BY <1>0, <2>5
    <3> QED BY <1>0, <1>00, <2>2, <2>3, <2>5, <3>1, <3>2, <3>3, <3>4, <3>5
  <2> QED BY <2>1, <2>4, <2>5 DEF Iteration
<1>7. CASE RunStrategy
  <2>0. /\ phase = "open" /\ phase' = "close" /\ queue = {} /\ UNCHANGED <<today, working>>
    BY <1>7, StrategyCases
  <2>1. CASE UNCHANGED <<orders, queue>>
    BY <1>0, <1>00, <2>0, <2>1
  <2>2. ASSUME Config.execution_price = "same_close", NEW new, Batch(new, today), queue' = DOMAIN new
        PROVE  Carried'
    <3>1. \A k \in DOMAIN orders : k \notin DOMAIN new
      <4>1. today \in Nat /\ \A k \in DOMAIN orders : k[1] < today
        BY <2>0, <2>2, FeedDates DEF Batches, IInv, TypeOK
      <4>2. \A k \in DOMAIN new : k[1] = today
        BY <2>2 DEF Batch
      <4> QED BY <4>1, <4>2
    <3>2. \A k \in DOMAIN orders : orders'[k] = orders[k]
      BY <2>2, <3>1 DEF Batch
    <3>3. \A k \in DOMAIN orders' : IsOpen(orders'[k]) <=> k \in working' \/ (k \in queue' /\ IsOpen(orders'[k]))
      BY <1>0, <2>0, <2>2, <3>1, <3>2 DEF Batch
    <3>4. \A j \in working' : orders'[j].attempted = today'
      BY <1>0, <2>0, <3>2
    <3>5. queue' \subseteq DOMAIN orders' /\ working' \subseteq DOMAIN orders' /\ queue' \intersect working' = {}
      BY <1>0, <2>0, <2>2, <3>1 DEF Batch
    <3> QED BY <1>0, <1>00, <2>0, <3>3, <3>4, <3>5
  <2> QED BY <1>7, <2>1, <2>2, StrategyCases
<1>8. CASE EndSession
  <2>1. UNCHANGED <<orders, queue, working, today>> /\ phase = "close" /\ phase' = "idle" /\ queue = {}
    BY <1>8 DEF EndSession, orderVars
  <2>2. \A k \in DOMAIN orders' : IsOpen(orders'[k]) => orders'[k].attempted = today'
    BY <1>0, <2>1
  <2> QED BY <1>0, <1>00, <2>1, <2>2
<1>9. CASE UNCHANGED vars
  <2>1. UNCHANGED <<orders, queue, working, phase, today>>
    BY <1>9 DEF vars, orderVars, sessionVars
  <2> QED BY <1>0, <1>00, <2>1
<1> QED BY <1>2, <1>3, <1>4, <1>5, <1>6, <1>7, <1>8, <1>9, StepCases
-----------------------------------------------------------------------------
(* Older orders first                                                      *)

LEMMA OlderIsAsymmetric ==
  ASSUME NEW j \in OrderIds, NEW k \in OrderIds, Older(j, k)
  PROVE  ~Older(k, j)
<1>1. j[1] \in Nat /\ j[2] \in Nat /\ k[1] \in Nat /\ k[2] \in Nat
  BY FeedAssumption, FeedDates DEF FeedAssumption, OrderIds
<1> QED BY <1>1 DEF Older

(* An iteration seen from the fills and the session's volume.              *)
Trades(k) ==
  \/ /\ UNCHANGED <<fills, volume>>
     /\ \/ UNCHANGED working
        \/ orders'[k].reason = "volume_cap" => volume[k[2]] = 0
  \/ /\ \E f : f.order = k /\ f.date = today /\ fills' = fills \union {f}
     /\ volume[k[2]] > 0 /\ orders'[k].reason = "none"
     /\ \A t \in Tickers : volume[t] = 0 => volume'[t] = 0

LEMMA EveryAttemptTrades ==
  ASSUME IInv, NEW k \in queue, Attempts(k)
  PROVE  Trades(k)
<1>0. k \in DOMAIN orders /\ k \in OrderIds /\ k[2] \in Tickers /\ volume[k[2]] \in Nat
      /\ volume \in [Tickers -> Nat]
  BY DEF IInv, TypeOK, OrderIds
<1>1. CASE SkipTerminal(k)
  BY <1>1 DEF SkipTerminal, Trades, tradeVars
<1>2. CASE Failing(k)
  <2>1. PICK o : /\ AttemptedAs(orders[k], o) /\ NoFill(k, o)
                 /\ o.reason = "volume_cap" => volume[k[2]] <= 0
    BY <1>2 DEF Failing
  <2>2. orders'[k].reason = o.reason
    BY <1>0, <2>1, ExpireShape DEF NoFill, Conclude, AttemptedAs
  <2>3. UNCHANGED <<fills, volume>>
    BY <2>1 DEF NoFill, tradeVars
  <2> QED BY <1>0, <2>1, <2>2, <2>3 DEF Trades
<1>3. CASE FillOrder(k)
  <2> DEFINE q == FillQuantity(orders[k], volume[k[2]])
             o == FilledBy(orders[k], q)
             f == [order |-> k, date |-> today, side |-> orders[k].side,
                   quantity |-> q, price |-> TradePrice(k)]
  <2>1. /\ OrderType(o) /\ o.reason = "none" /\ Tradable(k) /\ q \in Nat \ {0}
    BY <1>3, FillIsTyped
  <2>2. /\ orders' = [orders EXCEPT ![k] = Expire(o)]
        /\ fills' = fills \union {f}
        /\ volume' = [volume EXCEPT ![k[2]] = Max({0, volume[k[2]] - q})]
    BY <1>3 DEF FillOrder, Conclude, VolumeAfter
  <2>3. orders'[k].reason = "none"
    BY <1>0, <2>1, <2>2, ExpireShape
  <2>4. volume[k[2]] > 0
    BY <2>1 DEF Tradable
  <2>5. \A t \in Tickers : volume[t] = 0 => volume'[t] = 0
    BY <1>0, <2>2, <2>4
  <2>6. f.order = k /\ f.date = today
    OBVIOUS
  <2> HIDE DEF f
  <2> QED BY <2>2, <2>3, <2>4, <2>5, <2>6 DEF Trades
<1> QED BY <1>1, <1>2, <1>3, FailingAttempts DEF Attempts

LEMMA FirstComeStep == IInv /\ Batches /\ Carried /\ FirstCome /\ [Next]_vars => FirstCome'
<1> SUFFICES ASSUME IInv, Batches, Carried, FirstCome, [Next]_vars PROVE FirstCome'
  OBVIOUS
<1>0. /\ \A f \in fills : f.date <= today /\ f.order \in DOMAIN orders /\ f.date \in Nat
      /\ phase = "targets" => \A f \in fills : f.date # today
      /\ \A f \in fills, k \in queue : f.date = today => ~Older(k, f.order)
      /\ phase \in {"open", "close"} =>
           \A k \in working : orders[k].reason = "volume_cap" => volume[k[2]] = 0
      /\ \A f \in fills : \A k \in working :
           f.date = today /\ k[2] = f.order[2] /\ Older(k, f.order) => orders[k].reason # "volume_cap"
      /\ today \in Nat /\ DOMAIN orders \subseteq OrderIds
      /\ queue \subseteq DOMAIN orders /\ working \subseteq DOMAIN orders
      /\ \A k \in OrderIds : k[1] \in Nat /\ k[2] \in Tickers
  <2>1. \A f \in fills : f.date \in Nat
    BY FeedDates DEF IInv, TypeOK, FillState
  <2>2. today \in Nat /\ \A k \in OrderIds : k[1] \in Nat /\ k[2] \in Tickers
    <3>1. today \in Nat
      BY FeedDates DEF IInv, TypeOK
    <3>2. \A k \in OrderIds : k[1] \in Nat /\ k[2] \in Tickers
      BY FeedDates DEF OrderIds
    <3> QED BY <3>1, <3>2
  <2>3. /\ DOMAIN orders \subseteq OrderIds
        /\ queue \subseteq DOMAIN orders /\ working \subseteq DOMAIN orders
    BY DEF IInv, TypeOK
  <2> QED BY <2>1, <2>2, <2>3 DEF FirstCome, OlderOrdersTradeFirst
<1>00. ASSUME \A f \in fills' : f.date <= today' /\ f.order \in DOMAIN orders',
              phase' = "targets" => \A f \in fills' : f.date # today',
              \A f \in fills', k \in queue' : f.date = today' => ~Older(k, f.order),
              phase' \in {"open", "close"} =>
                \A k \in working' : orders'[k].reason = "volume_cap" => volume'[k[2]] = 0,
              \A f \in fills' : \A k \in working' :
                f.date = today' /\ k[2] = f.order[2] /\ Older(k, f.order) => orders'[k].reason # "volume_cap"
       PROVE  FirstCome'
  BY <1>00 DEF FirstCome, OlderOrdersTradeFirst, Older
<1>1. CASE BeginSession
  <2>1. today' > today /\ today' \in Nat
    BY <1>1, FeedDates DEF BeginSession, EventDate
  <2>2. UNCHANGED <<orders, queue, working, fills>> /\ phase' = "targets"
    BY <1>1 DEF BeginSession, orderVars
  <2>3. \A f \in fills' : f.date <= today' /\ f.date # today'
    BY <1>0, <2>1, <2>2
  <2> QED BY <1>0, <1>00, <2>2, <2>3
<1>2. CASE AbortOnCorporateAction
  <2>1. UNCHANGED <<today, orders, queue, working, fills>> /\ phase' = "aborted"
    BY <1>2 DEF AbortOnCorporateAction, orderVars, tradeVars
  <2> QED BY <1>0, <1>00, <2>1
<1>3. CASE QueueOpenOrders
  <2>1. /\ UNCHANGED <<today, fills>> /\ phase = "targets" /\ phase' = "open" /\ working' = {}
    BY <1>3 DEF QueueOpenOrders, tradeVars
  <2>2. DOMAIN orders \subseteq DOMAIN orders'
    <3>1. CASE Due
      BY <1>3, <3>1, QueueBatch DEF Batch
    <3>2. CASE ~Due
      BY <1>3, <3>2 DEF QueueOpenOrders
    <3> QED BY <3>1, <3>2
  <2> QED BY <1>0, <1>00, <2>1, <2>2
<1>4. ASSUME NEW k \in queue, Attempts(k) PROVE FirstCome'
  <2>1. Iteration(k)
    BY <1>4, EveryAttemptIterates
  <2>2. /\ UNCHANGED <<today, phase>> /\ phase \in {"open", "close"}
        /\ k \in NextUp /\ queue' = queue \ {k}
        /\ DOMAIN orders' = DOMAIN orders
        /\ \A j \in DOMAIN orders : j # k => orders'[j] = orders[j]
        /\ working' \subseteq working \union {k}
    BY <2>1 DEF Iteration
  <2>3. k \notin working /\ k \in DOMAIN orders
    BY <1>0 DEF Carried
  <2>4. Trades(k)
    BY <1>4, EveryAttemptTrades
  <2>5. \A j \in queue \ {k} : ~Older(j, k)
    BY <1>0, <2>2, OlderIsAsymmetric DEF NextUp
  <2>6. ~Older(k, k)
    BY <1>0, OlderIsAsymmetric
  <2>7. \A f \in fills' : f \in fills \/ (f.order = k /\ f.date = today /\ volume[k[2]] > 0)
    BY <2>4 DEF Trades
  <2>8. \A f \in fills' : f.date <= today' /\ f.order \in DOMAIN orders'
    BY <1>0, <2>2, <2>3, <2>7
  <2>9. \A f \in fills', j \in queue' : f.date = today' => ~Older(j, f.order)
    BY <1>0, <2>2, <2>5, <2>7
  <2>10. \A j \in working' : orders'[j].reason = "volume_cap" => volume'[j[2]] = 0
    <3>1. CASE UNCHANGED <<fills, volume>> /\ UNCHANGED working
      BY <1>0, <2>2, <2>3, <3>1
    <3>2. CASE UNCHANGED volume /\ (orders'[k].reason = "volume_cap" => volume[k[2]] = 0)
      BY <1>0, <2>2, <2>3, <3>2
    <3>3. CASE orders'[k].reason = "none" /\ (\A t \in Tickers : volume[t] = 0 => volume'[t] = 0)
      BY <1>0, <2>2, <2>3, <3>3
    <3> QED BY <2>4, <3>1, <3>2, <3>3 DEF Trades
  <2>11. ASSUME NEW f \in fills', NEW j \in working',
                f.date = today', j[2] = f.order[2], Older(j, f.order)
         PROVE  orders'[j].reason # "volume_cap"
    <3>1. CASE f \in fills
      <4>1. j # k
        BY <1>0, <2>2, <2>11, <3>1
      <4> QED BY <1>0, <2>2, <2>11, <3>1, <4>1
    <3>2. CASE f.order = k /\ volume[k[2]] > 0
      <4>1. j # k
        BY <2>6, <2>11, <3>2
      <4>2. j \in working /\ orders'[j] = orders[j] /\ j[2] = k[2]
        BY <1>0, <2>2, <2>11, <3>2, <4>1
      <4>3. orders[j].reason = "volume_cap" => volume[k[2]] = 0
        BY <1>0, <2>2, <4>2
      <4> QED BY <3>2, <4>2, <4>3
    <3> QED BY <2>7, <3>1, <3>2
  <2>12. phase' # "targets"
    BY <2>2
  <2> QED BY <1>00, <2>8, <2>9, <2>10, <2>11, <2>12
<1>5. CASE RunStrategy
  <2>0. /\ phase = "open" /\ phase' = "close" /\ queue = {}
        /\ UNCHANGED <<today, working, fills, volume>>
    BY <1>5, StrategyCases
  <2>1. CASE UNCHANGED <<orders, queue>>
    BY <1>0, <1>00, <2>0, <2>1
  <2>2. ASSUME Config.execution_price = "same_close", NEW new, Batch(new, today), queue' = DOMAIN new
        PROVE  FirstCome'
    <3>1. \A k \in DOMAIN orders : k[1] < today
      BY <2>0, <2>2 DEF Batches
    <3>2. \A k \in DOMAIN new : k[1] = today
      BY <2>2 DEF Batch
    <3>3. \A k \in DOMAIN orders : k \notin DOMAIN new
      BY <1>0, <3>1, <3>2
    <3>4. DOMAIN orders \subseteq DOMAIN orders' /\ \A k \in DOMAIN orders : orders'[k] = orders[k]
      BY <2>2, <3>3 DEF Batch
    <3>5. \A f \in fills', j \in queue' : ~Older(j, f.order)
      BY <1>0, <2>0, <2>2, <3>1, <3>2 DEF Older
    <3>6. phase' # "targets"
      BY <2>0
    <3> QED BY <1>0, <1>00, <2>0, <3>4, <3>5, <3>6
  <2> QED BY <1>5, <2>1, <2>2, StrategyCases
<1>6. CASE EndSession
  <2>1. UNCHANGED <<orders, queue, working, today, fills>> /\ phase' = "idle"
    BY <1>6 DEF EndSession, orderVars, tradeVars
  <2> QED BY <1>0, <1>00, <2>1
<1>7. CASE UNCHANGED vars
  <2>1. UNCHANGED <<orders, queue, working, phase, today, fills, volume>>
    BY <1>7 DEF vars, orderVars, sessionVars, tradeVars
  <2> QED BY <1>0, <1>00, <2>1
<1> QED BY <1>1, <1>2, <1>3, <1>4, <1>5, <1>6, <1>7, StepCases
-----------------------------------------------------------------------------
(* Statuses                                                                *)

(* A fill's status, and the expiry of a DAY order, match its fill count.   *)
LEMMA SettledMatches ==
  ASSUME NEW o, OrderType(o), StatusMatches(o)
  PROVE  StatusMatches(Expire(o))
<1>1. CASE IsOpen(o)
  <2>1. Expire(o).status = o.status \/ Expire(o).status = "expired"
    BY ExpireShape
  <2>2. o.quantity \in Nat /\ o.filled \in Nat /\ o.filled # o.quantity
    BY <1>1 DEF OrderType, IsOpen, Remaining
  <2> QED BY <2>1, <2>2, ExpireShape DEF StatusMatches
<1>2. CASE ~IsOpen(o)
  BY <1>2 DEF Expire
<1> QED BY <1>1, <1>2

LEMMA AttemptMatches ==
  ASSUME NEW o, OrderType(o), StatusMatches(o), IsOpen(o), NEW p, AttemptedAs(o, p)
  PROVE  StatusMatches(p)
<1>1. o.quantity \in Nat \ {0} /\ o.filled \in Nat /\ o.filled # o.quantity
  BY DEF OrderType, IsOpen, Remaining
<1> QED BY <1>1 DEF StatusMatches, AttemptedAs

LEMMA AllMatchStep == IInv /\ Batches /\ AllMatch /\ [Next]_vars => AllMatch'
<1> SUFFICES ASSUME IInv, Batches, AllMatch, [Next]_vars PROVE AllMatch'
  OBVIOUS
<1>0. /\ \A k \in DOMAIN orders : OrderType(orders[k]) /\ StatusMatches(orders[k])
      /\ queue \subseteq DOMAIN orders
  BY DEF IInv, TypeOK, AllMatch
<1>00. AllMatch' = \A k \in DOMAIN orders' : StatusMatches(orders'[k])
  BY DEF AllMatch, StatusMatches
<1>1. ASSUME NEW new, NEW signal, Batch(new, signal) PROVE AllMatch'
  <2>1. \A k \in DOMAIN new : StatusMatches(new[k])
    <3> TAKE k \in DOMAIN new
    <3>1. /\ OrderType(new[k]) /\ new[k].filled = 0
          /\ new[k].status \in {"pending", "rejected"}
      BY <1>1 DEF Batch
    <3>2. new[k].quantity \in Nat \ {0}
      BY <3>1 DEF OrderType
    <3> QED BY <3>1, <3>2 DEF StatusMatches
  <2> QED BY <1>0, <1>00, <1>1, <2>1 DEF Batch
<1>2. ASSUME NEW k \in queue, NEW o, OrderType(o), StatusMatches(o), Conclude(k, o)
      PROVE  AllMatch'
  <2>1. orders' = [orders EXCEPT ![k] = Expire(o)] /\ StatusMatches(Expire(o))
    BY <1>2, SettledMatches DEF Conclude
  <2> QED BY <1>0, <1>00, <2>1
<1>3. ASSUME NEW k \in queue, Attempts(k) PROVE AllMatch'
  <2>1. CASE SkipTerminal(k)
    BY <1>0, <1>00, <2>1 DEF SkipTerminal
  <2>2. CASE Failing(k)
    <3>1. PICK o : Attempting(k) /\ AttemptedAs(orders[k], o) /\ NoFill(k, o)
      BY <2>2 DEF Failing
    <3>2. OrderType(o) /\ StatusMatches(o)
      BY <1>0, <3>1, AttemptMatches DEF Attempting, AttemptedAs
    <3> QED BY <1>2, <3>1, <3>2 DEF NoFill
  <2>3. CASE FillOrder(k)
    <3>1. PICK q : q = FillQuantity(orders[k], volume[k[2]])
      OBVIOUS
    <3>2. PICK o : o = FilledBy(orders[k], q)
      OBVIOUS
    <3>3. /\ q \in Nat \ {0} /\ q <= Remaining(orders[k]) /\ OrderType(o)
          /\ o.quantity = orders[k].quantity /\ o.filled = orders[k].filled + q
          /\ o.status = IF q = Remaining(orders[k]) THEN "filled" ELSE "partially_filled"
      BY <2>3, <3>1, <3>2, FillIsTyped
    <3>4. orders[k].quantity \in Nat /\ orders[k].filled \in Nat
      BY <1>0 DEF OrderType
    <3>5. StatusMatches(o)
      BY <3>3, <3>4 DEF StatusMatches, Remaining
    <3>6. Conclude(k, o)
      BY <2>3, <3>1, <3>2 DEF FillOrder
    <3> QED BY <1>2, <3>3, <3>5, <3>6
  <2> QED BY <1>3, <2>1, <2>2, <2>3, FailingAttempts DEF Attempts
<1>4. CASE UNCHANGED orders
  BY <1>0, <1>00, <1>4
<1>5. CASE QueueOpenOrders
  BY <1>1, <1>4, <1>5, QueueBatch DEF QueueOpenOrders
<1>6. CASE RunStrategy
  BY <1>1, <1>4, <1>6, StrategyCases
<1>7. BeginSession \/ AbortOnCorporateAction \/ EndSession \/ UNCHANGED vars => UNCHANGED orders
  BY DEF BeginSession, AbortOnCorporateAction, EndSession, vars, orderVars
<1> QED BY <1>3, <1>4, <1>5, <1>6, <1>7, StepCases
-----------------------------------------------------------------------------
(* The theorems about the orders                                           *)

OrdersInv == IInv /\ Batches /\ OnTime /\ Carried /\ FirstCome /\ AllMatch

LEMMA OrdersInvHolds == Spec => []OrdersInv
<1>1. Init => OrdersInv
  BY InitIInv, InitOrders DEF OrdersInv
<1>2. OrdersInv /\ [Next]_vars => OrdersInv'
  <2>1. OrdersInv /\ [Next]_vars => IInv' /\ Batches' /\ OnTime'
    BY StepKeepsIInv, BatchesStep, OnTimeStep DEF OrdersInv
  <2>2. OrdersInv /\ [Next]_vars => Carried' /\ FirstCome' /\ AllMatch'
    BY CarriedStep, FirstComeStep, AllMatchStep DEF OrdersInv
  <2> QED BY <2>1, <2>2 DEF OrdersInv
<1> QED BY <1>1, <1>2, PTL DEF Spec

(* Whatever the calendar, a target list becomes orders in the session its  *)
(* convention names or never: _orders_from_targets is reached for queued   *)
(* targets only on the very date the calendar gave when they were queued.  *)
THEOREM SignalsOnTime == Spec => []SignalsExecuteOnTime
<1>1. OrdersInv => SignalsExecuteOnTime
  BY DEF OrdersInv, OnTime
<1> QED BY <1>1, OrdersInvHolds, PTL

(* working_orders loses no open order and keeps no closed one, over any    *)
(* number of sessions, and at a session's end every open order has had an  *)
(* attempt in it.                                                          *)
THEOREM OpenOrdersNeverDropped == Spec => []OpenOrdersCarried
<1>1. OrdersInv => OpenOrdersCarried
  BY DEF OrdersInv, Carried
<1> QED BY <1>1, OrdersInvHolds, PTL

(* The session's volume goes to the older order first, for every mix of    *)
(* carried and new orders, at the open and at the close.                   *)
THEOREM VolumeByAge == Spec => []OlderOrdersTradeFirst
<1>1. OrdersInv => OlderOrdersTradeFirst
  BY DEF OrdersInv, FirstCome
<1> QED BY <1>1, OrdersInvHolds, PTL

(* After any run an order's status agrees with its fills.                  *)
THEOREM StatusesTellFills == Spec => []OrderStatusesMatch
<1>1. OrdersInv => OrderStatusesMatch
  <2> SUFFICES ASSUME OrdersInv PROVE OrderStatusesMatch
    OBVIOUS
  <2>1. \A k \in DOMAIN orders : OrderType(orders[k]) /\ StatusMatches(orders[k])
    BY DEF OrdersInv, IInv, TypeOK, AllMatch
  <2>2. \A k \in DOMAIN orders : orders[k].filled <= orders[k].quantity
    BY <2>1 DEF OrderType
  <2> QED BY <2>1, <2>2 DEF OrderStatusesMatch, Lifecycle!StatusMatchesFills, StatusMatches
<1> QED BY <1>1, OrdersInvHolds, PTL
-----------------------------------------------------------------------------
(* The engine implements the lifecycle of the Order class                  *)

(* What the lifecycle sees of an order, and of all orders.                 *)
Seen(o) == [quantity |-> o.quantity, filled |-> o.filled, status |-> o.status]
Book == [k \in DOMAIN orders |-> Seen(orders[k])]

LEMMA BookUpdate ==
  ASSUME NEW k \in DOMAIN orders, NEW o, orders' = [orders EXCEPT ![k] = o]
  PROVE  Book' = [Book EXCEPT ![k] = Seen(o)]
  BY DEF Book, Seen

(* Two fields of an order set at once.                                     *)
LEMMA RecordUpdate ==
  ASSUME NEW a, NEW b, NEW c, NEW f, NEW t
  PROVE  [[quantity |-> a, filled |-> b, status |-> c] EXCEPT !.filled = f, !.status = t]
           = [quantity |-> a, filled |-> f, status |-> t]
<1>1. PICK r : r = [quantity |-> a, filled |-> b, status |-> c]
  OBVIOUS
<1>2. PICK s : s = [r EXCEPT !.filled = f]
  OBVIOUS
<1>3. s = [quantity |-> a, filled |-> f, status |-> c]
  BY <1>1, <1>2
<1>4. [s EXCEPT !.status = t] = [quantity |-> a, filled |-> f, status |-> t]
  BY <1>3
<1>5. [r EXCEPT !.filled = f, !.status = t] = [s EXCEPT !.status = t]
  BY <1>2
<1> QED BY <1>1, <1>4, <1>5

(* Order.expire, seen by the lifecycle.                                    *)
LEMMA ExpireSeen ==
  ASSUME NEW o, OrderType(o)
  PROVE  Seen(Expire(o)) = IF Config.time_in_force = "day" THEN Lifecycle!Expired(Seen(o))
                           ELSE Seen(o)
<1>1. IsOpen(o) <=> Lifecycle!IsOpen(Seen(o))
  BY DEF IsOpen, Lifecycle!IsOpen, Remaining, Lifecycle!Remaining,
         TerminalStatuses, Lifecycle!TerminalStatuses, Seen
<1>2. ASSUME NEW d
      PROVE  Seen([o EXCEPT !.status = "expired", !.attempted = d])
               = [Seen(o) EXCEPT !.status = "expired"]
  BY DEF Seen, OrderType
<1> QED BY <1>1, <1>2 DEF Expire, Lifecycle!Expired

(* A batch's keys are new: every earlier order was created before today.   *)
LEMMA BatchSubmits ==
  ASSUME IInv, Nat \ {0} \subseteq Quantities, NEW new, NEW signal, Batch(new, signal),
         \A k \in DOMAIN orders : k[1] < today
  PROVE  Lifecycle!Submit
<1>1. PICK ids : ids = DOMAIN new
  OBVIOUS
<1>2. ids \subseteq OrderIds \ DOMAIN orders
  <2>1. \A k \in DOMAIN orders : k[1] # today
    <3>1. today \in Feed \union {0}
      BY DEF IInv, TypeOK
    <3>2. today \in Nat
      BY <3>1, FeedDates
    <3>3. \A k \in OrderIds : k[1] \in Nat
      BY FeedDates DEF OrderIds
    <3>4. DOMAIN orders \subseteq OrderIds
      BY DEF IInv, TypeOK
    <3> QED BY <3>2, <3>3, <3>4
  <2> QED BY <1>1, <2>1 DEF Batch
<1>3. PICK seen : seen = [k \in ids |-> Seen(new[k])]
  OBVIOUS
<1>4. seen \in [ids -> Lifecycle!NewOrder]
  <2>1. ASSUME NEW k \in ids PROVE Seen(new[k]) \in Lifecycle!NewOrder
    <3>1. new[k].quantity \in Quantities
      BY <1>1, <2>1 DEF Batch, OrderType
    <3>2. new[k].filled = 0 /\ new[k].status \in {"pending", "rejected"}
      BY <1>1, <2>1 DEF Batch
    <3> QED BY <3>1, <3>2 DEF Seen, Lifecycle!NewOrder
  <2> QED BY <1>3, <2>1
<1>5. Book' = [k \in DOMAIN Book \union ids |-> IF k \in ids THEN seen[k] ELSE Book[k]]
  BY <1>1, <1>3 DEF Book, Batch
<1>6. DOMAIN Book = DOMAIN orders
  BY DEF Book
<1> QED BY <1>2, <1>4, <1>5, <1>6 DEF Lifecycle!Submit, Book, Seen

(* An iteration of _process_orders is one call of the Order class at most. *)
LEMMA IterationIsCall ==
  ASSUME IInv, NEW k \in queue, Attempts(k)
  PROVE  Lifecycle!Next \/ Book' = Book
<1>0. k \in DOMAIN orders /\ OrderType(orders[k]) /\ DOMAIN Book = DOMAIN orders
      /\ Book[k] = Seen(orders[k])
  BY DEF IInv, TypeOK, Book
<1>1. IsOpen(orders[k]) <=> Lifecycle!IsOpen(Seen(orders[k]))
  BY DEF IsOpen, Lifecycle!IsOpen, Remaining, Lifecycle!Remaining,
         TerminalStatuses, Lifecycle!TerminalStatuses, Seen
<1>2. CASE SkipTerminal(k)
  BY <1>2 DEF SkipTerminal, Book, Seen
<1>3. CASE Failing(k)
  <2>1. PICK o : Attempting(k) /\ AttemptedAs(orders[k], o) /\ NoFill(k, o)
    BY <1>3 DEF Failing
  <2>2. Book' = [Book EXCEPT ![k] = Seen(Expire(o))]
    BY <1>0, <2>1, BookUpdate DEF NoFill, Conclude
  <2>3. OrderType(o)
    BY <2>1 DEF AttemptedAs
  <2>4. CASE o.status = orders[k].status
    <3>1. Seen(o) = Seen(orders[k])
      BY <2>1, <2>4 DEF AttemptedAs, Seen
    <3>2. CASE Config.time_in_force = "day"
      <4>1. Book' = [Book EXCEPT ![k] = Lifecycle!Expired(Book[k])]
        BY <1>0, <2>2, <2>3, <3>1, <3>2, ExpireSeen
      <4>2. Lifecycle!Expire(k)
        BY <4>1 DEF Lifecycle!Expire, Book, Seen
      <4> QED BY <1>0, <4>2 DEF Lifecycle!Next, Book, Seen
    <3>3. CASE Config.time_in_force # "day"
      BY <1>0, <2>2, <2>3, <3>1, <3>3, ExpireSeen DEF Book
    <3> QED BY <3>2, <3>3
  <2>5. CASE o.status = "rejected" /\ o.filled = 0
    <3>1. Expire(o) = o
      BY <2>5 DEF Expire, IsOpen, TerminalStatuses
    <3>2. Seen(o) = [Seen(orders[k]) EXCEPT !.status = "rejected"] /\ Seen(orders[k]).filled = 0
      BY <2>1, <2>5 DEF AttemptedAs, Seen
    <3>3. Book' = [Book EXCEPT ![k] = [Book[k] EXCEPT !.status = "rejected"]]
      BY <1>0, <2>2, <3>1, <3>2
    <3>4. Lifecycle!IsOpen(Book[k]) /\ Book[k].filled = 0
      BY <1>0, <1>1, <2>1, <3>2 DEF Attempting
    <3>5. Lifecycle!Reject(k)
      BY <3>3, <3>4 DEF Lifecycle!Reject, Book, Seen
    <3> QED BY <1>0, <3>5 DEF Lifecycle!Next, Book, Seen
  <2> QED BY <2>1, <2>4, <2>5 DEF AttemptedAs
<1>4. CASE FillOrder(k)
  <2>1. PICK q : q = FillQuantity(orders[k], volume[k[2]])
    OBVIOUS
  <2>2. PICK o : o = FilledBy(orders[k], q)
    OBVIOUS
  <2>3. /\ Tradable(k) /\ q \in Nat \ {0} /\ q <= Remaining(orders[k]) /\ OrderType(o)
        /\ o.quantity = orders[k].quantity /\ o.filled = orders[k].filled + q
        /\ o.status = IF q = Remaining(orders[k]) THEN "filled" ELSE "partially_filled"
    BY <1>4, <2>1, <2>2, FillIsTyped
  <2>4. Remaining(orders[k]) = Lifecycle!Remaining(Book[k])
    BY <1>0 DEF Remaining, Lifecycle!Remaining, Seen
  <2>5. Seen(o) = Lifecycle!Filled(Book[k], q)
    <3>2. Book[k].filled = orders[k].filled
      BY <1>0 DEF Seen
    <3>3. Lifecycle!Filled(Book[k], q) =
            [Book[k] EXCEPT !.filled = Book[k].filled + q,
                            !.status = IF q = Lifecycle!Remaining(Book[k]) THEN "filled"
                                       ELSE "partially_filled"]
      BY DEF Lifecycle!Filled
    <3>4. Lifecycle!Filled(Book[k], q) = [Seen(orders[k]) EXCEPT !.filled = o.filled, !.status = o.status]
      BY <1>0, <2>3, <2>4, <3>2, <3>3
    <3> QED BY <2>3, <3>4, RecordUpdate DEF Seen
  <2>6. Lifecycle!IsOpen(Book[k])
    BY <1>0, <1>1, <2>3 DEF Tradable, Attempting
  <2>7. q \in 1..Lifecycle!Remaining(Book[k])
    <3>1. Remaining(orders[k]) \in Int
      BY <1>0 DEF OrderType, Remaining
    <3> QED BY <2>3, <2>4, <3>1
  <2>8. Book' = [Book EXCEPT ![k] = Seen(Expire(o))]
    BY <1>0, <1>4, <2>1, <2>2, BookUpdate DEF FillOrder, Conclude
  <2>9. CASE Config.time_in_force = "day"
    <3>1. Book' = [Book EXCEPT ![k] = Lifecycle!Expired(Lifecycle!Filled(Book[k], q))]
      BY <2>3, <2>5, <2>8, <2>9, ExpireSeen
    <3>2. Lifecycle!RecordFillAndExpire(k)
      BY <2>6, <2>7, <3>1 DEF Lifecycle!RecordFillAndExpire, Book, Seen
    <3> QED BY <1>0, <3>2 DEF Lifecycle!Next, Book, Seen
  <2>10. CASE Config.time_in_force # "day"
    <3>1. Book' = [Book EXCEPT ![k] = Lifecycle!Filled(Book[k], q)]
      BY <2>3, <2>5, <2>8, <2>10, ExpireSeen
    <3>2. Lifecycle!RecordFill(k)
      BY <2>6, <2>7, <3>1 DEF Lifecycle!RecordFill, Book, Seen
    <3> QED BY <1>0, <3>2 DEF Lifecycle!Next, Book, Seen
  <2> QED BY <2>9, <2>10
<1> QED BY <1>2, <1>3, <1>4, FailingAttempts DEF Attempts

LEMMA StepIsCall ==
  ASSUME OrdersInv, [Next]_vars, Nat \ {0} \subseteq Quantities
  PROVE  Lifecycle!Next \/ Book' = Book
<1>1. CASE QueueOpenOrders /\ Due
  <2>1. PICK new : Batch(new, pending.signal)
    BY <1>1, QueueBatch DEF OrdersInv
  <2>2. \A k \in DOMAIN orders : k[1] < today
    BY <1>1 DEF OrdersInv, Batches, QueueOpenOrders
  <2>3. Lifecycle!Submit
    BY <2>1, <2>2, BatchSubmits DEF OrdersInv
  <2> QED BY <2>3 DEF Lifecycle!Next
<1>2. ASSUME NEW k \in queue, Attempts(k) PROVE Lifecycle!Next \/ Book' = Book
  BY <1>2, IterationIsCall DEF OrdersInv
<1>3. CASE RunStrategy
  <2>1. CASE UNCHANGED orders
    BY <2>1 DEF Book, Seen
  <2>2. ASSUME Config.execution_price = "same_close", NEW new, Batch(new, today)
        PROVE  Lifecycle!Next
    <3>1. \A k \in DOMAIN orders : k[1] < today
      BY <1>3, <2>2 DEF OrdersInv, Batches, RunStrategy
    <3>2. Lifecycle!Submit
      BY <2>2, <3>1, BatchSubmits DEF OrdersInv
    <3> QED BY <3>2 DEF Lifecycle!Next
  <2> QED BY <1>3, <2>1, <2>2, StrategyCases DEF OrdersInv
<1>4. BeginSession \/ AbortOnCorporateAction \/ (QueueOpenOrders /\ ~Due) \/ EndSession
        \/ UNCHANGED vars => UNCHANGED orders
  BY DEF BeginSession, AbortOnCorporateAction, QueueOpenOrders, EndSession, vars, orderVars
<1>5. UNCHANGED orders => Book' = Book
  BY DEF Book, Seen
<1> QED BY <1>1, <1>2, <1>3, <1>4, <1>5, StepCases

(* Every run of the engine, whatever its configuration, is a run of the    *)
(* Order class alone: the engine creates orders with fresh identities and  *)
(* changes them by record_fill, expire and a rejection before the first    *)
(* fill, in the states where those are allowed, and in no other way.       *)
THEOREM EngineImplementsLifecycle ==
  ASSUME Nat \ {0} \subseteq Quantities
  PROVE  Spec => LifecycleRefined
<1>1. Init => Lifecycle!Init
  BY DEF Init, Lifecycle!Init
<1>2. OrdersInv /\ [Next]_vars => [Lifecycle!Next]_Book
  BY StepIsCall
<1>3. Book = [k \in DOMAIN orders |->
        [quantity |-> orders[k].quantity, filled |-> orders[k].filled, status |-> orders[k].status]]
  BY DEF Book, Seen
<1>4. [Lifecycle!Next]_Book => [Lifecycle!Next]_([k \in DOMAIN orders |->
        [quantity |-> orders[k].quantity, filled |-> orders[k].filled, status |-> orders[k].status]])
  BY <1>3 DEF Book, Seen
<1> QED BY <1>1, <1>2, <1>4, OrdersInvHolds, PTL DEF Spec, LifecycleRefined, Lifecycle!Spec
-----------------------------------------------------------------------------
(* The number of positions                                                 *)

CountInv == IsFiniteSet(Holdings) /\ Cardinality(Holdings) <= Risk.max_positions

(* A split of nothing is nothing.                                          *)
LEMMA SplitOfNothing ==
  ASSUME IInv, NEW d \in EventDate, NEW t \in Tickers, held[t] = 0
  PROVE  SplitShares(t, ActionsOn(d)) = 0
<1>1. CASE \E a \in ActionsOn(d) : a.ticker = t
  <2> DEFINE a == CHOOSE x \in ActionsOn(d) : x.ticker = t
  <2>1. a \in CorporateActions
    BY <1>1 DEF ActionsOn
  <2>2. a.num \in Nat \ {0} /\ a.den \in Nat \ {0}
    BY <2>1, ActionsAssumption DEF ActionsAssumption
  <2> HIDE DEF a
  <2>3. held[t] * a.num = 0
    BY <2>2
  <2>4. 0 \div a.den = 0
    <3>1. 0 \div a.den \in Nat /\ a.den * (0 \div a.den) <= 0
      BY <2>2, DivNat
    <3> QED BY <2>2, <3>1
  <2> QED BY <1>1, <2>3, <2>4 DEF SplitShares, a
<1>2. CASE ~ \E a \in ActionsOn(d) : a.ticker = t
  BY <1>2 DEF SplitShares
<1> QED BY <1>1, <1>2

LEMMA CountInvStep ==
  ASSUME Risk.max_positions \in Nat
  PROVE  IInv /\ CountInv /\ [Next]_vars => CountInv'
<1> SUFFICES ASSUME IInv, CountInv, [Next]_vars PROVE CountInv'
  OBVIOUS
<1>0. \A t \in Tickers : held[t] \in Int /\ held[t] >= 0
  BY DEF IInv, TypeOK, NoLeverageNoShort
<1>1. PICK old : old = Holdings
  OBVIOUS
<1>2. IsFiniteSet(old) /\ Cardinality(old) <= Risk.max_positions /\ Cardinality(old) \in Nat
  BY <1>1, FS_CardinalityType DEF CountInv
<1>3. ASSUME NEW S, S \subseteq old
      PROVE  IsFiniteSet(S) /\ Cardinality(S) <= Risk.max_positions
  <2>1. IsFiniteSet(S) /\ Cardinality(S) <= Cardinality(old)
    BY <1>2, <1>3, FS_Subset
  <2>2. Cardinality(S) \in Nat
    BY <2>1, FS_CardinalityType
  <2> QED BY <1>2, <2>1, <2>2
<1>4. Holdings' \subseteq old => CountInv'
  BY <1>3 DEF CountInv, Holdings
<1>5. CASE UNCHANGED held
  BY <1>1, <1>4, <1>5 DEF Holdings
<1>6. CASE BeginSession
  <2>1. PICK d \in EventDate : held' = [t \in Tickers |-> SplitShares(t, ActionsOn(d))]
    BY <1>6 DEF BeginSession
  <2>2. \A t \in Tickers : held[t] = 0 => held'[t] = 0
    BY <2>1, SplitOfNothing
  <2>3. Holdings' \subseteq old
    BY <1>0, <1>1, <2>2 DEF Holdings
  <2> QED BY <1>4, <2>3
<1>7. ASSUME NEW k \in queue, FillOrder(k) PROVE CountInv'
  <2>1. PICK q : q = FillQuantity(orders[k], volume[k[2]])
    OBVIOUS
  <2>2. PICK t : t = k[2]
    OBVIOUS
  <2>3. /\ held' = [held EXCEPT ![t] = IF orders[k].side = "buy" THEN held[t] + q ELSE held[t] - q]
        /\ Tradable(k) /\ \E kill \in KillSwitch : Approved(k, kill)
    BY <1>7, <2>1, <2>2 DEF FillOrder
  <2>4. q \in Nat \ {0}
    BY <2>1, <2>3, FillQuantityTyped
  <2>5. CountAllows(orders[k], t)
    BY <2>2, <2>3 DEF Approved, RiskApproves
  <2>6. t \in Tickers
    BY <2>2 DEF IInv, TypeOK, OrderIds
  <2>7. \A u \in Tickers : u # t => held'[u] = held[u]
    BY <2>3 DEF IInv, TypeOK
  <2>8. CASE orders[k].side = "buy" /\ held[t] = 0
    <3>1. Cardinality(old) < Risk.max_positions
      BY <1>1, <2>5, <2>8 DEF CountAllows
    <3>2. IsFiniteSet(old \union {t}) /\ Cardinality(old \union {t}) <= Cardinality(old) + 1
      <4>1. /\ IsFiniteSet(old \union {t})
            /\ Cardinality(old \union {t}) = IF t \in old THEN Cardinality(old) ELSE Cardinality(old) + 1
        BY <1>2, FS_AddElement
      <4> QED BY <1>2, <4>1
    <3>3. Holdings' \subseteq old \union {t}
      BY <1>1, <2>7 DEF Holdings
    <3>4. PICK S : S = Holdings'
      OBVIOUS
    <3>5. IsFiniteSet(S) /\ Cardinality(S) <= Cardinality(old \union {t})
      BY <3>2, <3>3, <3>4, FS_Subset
    <3>6. Cardinality(S) \in Nat /\ Cardinality(old \union {t}) \in Nat
      BY <3>2, <3>5, FS_CardinalityType
    <3>7. Cardinality(S) <= Risk.max_positions
      BY <1>2, <3>1, <3>2, <3>5, <3>6
    <3> QED BY <3>4, <3>5, <3>7 DEF CountInv, Holdings
  <2>9. CASE ~(orders[k].side = "buy" /\ held[t] = 0)
    <3>1. held[t] = 0 => ~(held'[t] > 0)
      <4> SUFFICES ASSUME held[t] = 0 PROVE ~(held'[t] > 0)
        OBVIOUS
      <4>1. held'[t] = 0 - q
        BY <2>3, <2>6, <2>9 DEF IInv, TypeOK
      <4> QED BY <2>4, <4>1
    <3>2. Holdings' \subseteq old
      BY <1>0, <1>1, <2>6, <2>7, <3>1 DEF Holdings
    <3> QED BY <1>4, <3>2
  <2> QED BY <2>8, <2>9
<1>8. ASSUME NEW k \in queue, Attempts(k) PROVE FillOrder(k) \/ UNCHANGED held
  <2>1. SkipTerminal(k) => UNCHANGED held
    BY DEF SkipTerminal, portfolioVars
  <2>2. Failing(k) => UNCHANGED held
    BY DEF Failing, NoFill, portfolioVars
  <2> QED BY <1>8, <2>1, <2>2, FailingAttempts DEF Attempts
<1>9. AbortOnCorporateAction \/ QueueOpenOrders \/ RunStrategy \/ EndSession \/ UNCHANGED vars
        => UNCHANGED held
  BY DEF AbortOnCorporateAction, QueueOpenOrders, RunStrategy, EndSession, vars, portfolioVars
<1> QED BY <1>5, <1>6, <1>7, <1>8, <1>9, StepCases

(* RiskManager's max_positions holds of the portfolio itself, not only of  *)
(* the orders that were checked: no order in which the orders of a pass    *)
(* fill, and no split, takes the portfolio above it.                       *)
THEOREM PositionsWithinLimit ==
  ASSUME Risk.max_positions \in Nat
  PROVE  Spec => []PositionCountLimited
<1>1. Init => CountInv
  <2> SUFFICES ASSUME Init PROVE CountInv
    OBVIOUS
  <2>1. Holdings = {}
    BY DEF Init, Holdings
  <2> QED BY <2>1, FS_EmptySet DEF CountInv
<1>2. IInv /\ CountInv /\ [Next]_vars => CountInv'
  BY CountInvStep
<1>3. CountInv => PositionCountLimited
  BY DEF CountInv, PositionCountLimited
<1> QED BY <1>1, <1>2, <1>3, IInvHolds, PTL DEF Spec
-----------------------------------------------------------------------------
(* Sums over finite sets                                                   *)

(* MapThenSumSet adds the values of a set one by one, in the order of      *)
(* CHOOSE: g is the function by which it does so on the subsets of S.      *)
(* The facts below follow from a smallest set for which they fail.         *)
Chosen(s) == CHOOSE x \in s : TRUE

IsSum(F, S, g) ==
  g = [s \in SUBSET S |-> IF s = {} THEN 0 ELSE F[Chosen(s)] + g[s \ {Chosen(s)}]]

Total(F, S) == MapThenSumSet(LAMBDA x : F[x], S)

LEMMA ChosenIn == ASSUME NEW s, s # {} PROVE Chosen(s) \in s
  BY DEF Chosen

(* One step down from a nonempty finite set.                               *)
LEMMA OneLess ==
  ASSUME NEW s, IsFiniteSet(s), NEW x \in s
  PROVE  /\ IsFiniteSet(s \ {x}) /\ Cardinality(s) \in Nat /\ Cardinality(s \ {x}) \in Nat
         /\ Cardinality(s \ {x}) < Cardinality(s)
<1>1. IsFiniteSet(s \ {x}) /\ Cardinality(s \ {x}) = Cardinality(s) - 1
  BY FS_RemoveElement
<1>2. Cardinality(s) \in Nat /\ Cardinality(s \ {x}) \in Nat
  BY <1>1, FS_CardinalityType
<1> QED BY <1>1, <1>2

(* A nonempty family of finite sets has a smallest member.                 *)
LEMMA SmallestSet ==
  ASSUME NEW B, B # {}, \A s \in B : IsFiniteSet(s)
  PROVE  \E s \in B : \A t \in B : ~(Cardinality(t) < Cardinality(s))
<1> DEFINE N == {Cardinality(s) : s \in B}
<1>1. N \subseteq Nat /\ N # {}
  BY FS_CardinalityType
<1>2. PICK n \in N : \A m \in N : <<m, n>> \notin OpToRel(<, Nat)
  BY <1>1, NatLessThanWellFounded, WFMin, Zenon
<1>3. \A m \in N : ~(m < n)
  BY <1>1, <1>2 DEF OpToRel
<1> QED BY <1>3

(* Two such functions agree where both are defined.                        *)
LEMMA SumUnique ==
  ASSUME NEW F, NEW S, NEW T, IsFiniteSet(S), T \subseteq S, NEW g, NEW h,
         IsSum(F, S, g), IsSum(F, T, h), NEW s \in SUBSET T
  PROVE  g[s] = h[s]
<1> DEFINE B == {u \in SUBSET T : g[u] # h[u]}
<1>1. \A u \in SUBSET T : IsFiniteSet(u)
  BY FS_Subset
<1>2. SUFFICES ASSUME B # {} PROVE FALSE
  OBVIOUS
<1>3. PICK u \in B : \A t \in B : ~(Cardinality(t) < Cardinality(u))
  <2> HIDE DEF B
  <2>1. \A t \in B : IsFiniteSet(t)
    BY <1>1 DEF B
  <2> QED BY <1>2, <2>1, SmallestSet
<1>4. u \in SUBSET S /\ u \in SUBSET T
  OBVIOUS
<1>5. /\ g[u] = IF u = {} THEN 0 ELSE F[Chosen(u)] + g[u \ {Chosen(u)}]
      /\ h[u] = IF u = {} THEN 0 ELSE F[Chosen(u)] + h[u \ {Chosen(u)}]
  BY <1>4 DEF IsSum
<1>6. u # {}
  BY <1>5
<1>7. u \ {Chosen(u)} \in SUBSET T /\ Cardinality(u \ {Chosen(u)}) < Cardinality(u)
  BY <1>1, <1>6, ChosenIn, OneLess
<1>8. g[u \ {Chosen(u)}] = h[u \ {Chosen(u)}]
  BY <1>3, <1>7
<1> QED BY <1>5, <1>6, <1>8

LEMMA SumExists ==
  ASSUME NEW F, NEW S, IsFiniteSet(S)
  PROVE  \E g : IsSum(F, S, g)
<1> DEFINE B == {u \in SUBSET S : ~ \E g : IsSum(F, u, g)}
<1>1. \A u \in SUBSET S : IsFiniteSet(u)
  BY FS_Subset
<1>2. SUFFICES ASSUME B # {} PROVE FALSE
  OBVIOUS
<1>3. PICK T \in B : \A t \in B : ~(Cardinality(t) < Cardinality(T))
  <2> HIDE DEF B
  <2>1. \A t \in B : IsFiniteSet(t)
    BY <1>1 DEF B
  <2> QED BY <1>2, <2>1, SmallestSet
<1>4. ASSUME NEW u \in SUBSET T, u # T PROVE \E g : IsSum(F, u, g)
  <2>1. Cardinality(u) < Cardinality(T)
    <3>1. PICK x \in T : x \notin u
      BY <1>4
    <3>2. u \subseteq T \ {x}
      BY <3>1
    <3>3. IsFiniteSet(T \ {x}) /\ Cardinality(T \ {x}) < Cardinality(T)
          /\ Cardinality(T \ {x}) \in Nat /\ Cardinality(T) \in Nat
      BY <1>1, OneLess
    <3>4. Cardinality(u) <= Cardinality(T \ {x}) /\ Cardinality(u) \in Nat
      BY <3>2, <3>3, FS_Subset, FS_CardinalityType
    <3> QED BY <3>3, <3>4
  <2> QED BY <1>3, <2>1
<1>5. PICK H : H = [u \in SUBSET T |-> CHOOSE g : IsSum(F, u, g)]
  OBVIOUS
<1>6. ASSUME NEW u \in SUBSET T, u # T PROVE IsSum(F, u, H[u])
  BY <1>4, <1>5, <1>6
<1>7. PICK g : g = [s \in SUBSET T |->
                      IF s = {} THEN 0 ELSE F[Chosen(s)] + H[s \ {Chosen(s)}][s \ {Chosen(s)}]]
  OBVIOUS
<1>8. ASSUME NEW s \in SUBSET T, s # {}
      PROVE  g[s \ {Chosen(s)}] = H[s \ {Chosen(s)}][s \ {Chosen(s)}]
  <2>0. PICK v : v = s \ {Chosen(s)}
    OBVIOUS
  <2>1. v \in SUBSET T /\ v = s \ {Chosen(s)} /\ v # T
    BY <1>8, <2>0, ChosenIn
  <2>2. IsSum(F, v, H[v])
    BY <1>6, <2>1
  <2>3. H[v][v] = IF v = {} THEN 0 ELSE F[Chosen(v)] + H[v][v \ {Chosen(v)}]
    BY <2>2 DEF IsSum
  <2>4. CASE v = {}
    BY <1>7, <2>1, <2>3, <2>4
  <2>5. CASE v # {}
    <3>0. PICK w : w = v \ {Chosen(v)}
      OBVIOUS
    <3>1. w \in SUBSET T /\ w = v \ {Chosen(v)} /\ w # T /\ w \subseteq v
      BY <2>1, <2>5, <3>0, ChosenIn
    <3>2. PICK a, b : a = H[v] /\ b = H[w]
      OBVIOUS
    <3>3. a[w] = b[w]
      <4>1. IsSum(F, v, a) /\ IsSum(F, w, b)
        BY <1>6, <2>2, <3>1, <3>2
      <4>2. IsFiniteSet(v) /\ w \in SUBSET w
        BY <1>1, <2>1
      <4> QED BY <3>1, <4>1, <4>2, SumUnique
    <3>4. g[v] = F[Chosen(v)] + H[w][w]
      <4>1. v \in SUBSET T /\ v # {}
        BY <2>1, <2>5
      <4>2. g[v] = F[Chosen(v)] + H[v \ {Chosen(v)}][v \ {Chosen(v)}]
        BY <1>7, <4>1
      <4> QED BY <3>0, <4>2
    <3> QED BY <2>1, <2>3, <2>5, <3>1, <3>2, <3>3, <3>4
  <2> QED BY <2>4, <2>5
<1>9. IsSum(F, T, g)
  BY <1>7, <1>8 DEF IsSum
<1> QED BY <1>3, <1>9

(* The sum is an integer ...                                               *)
LEMMA SumTyped ==
  ASSUME NEW F, NEW S, IsFiniteSet(S), NEW g, IsSum(F, S, g), \A x \in S : F[x] \in Int
  PROVE  \A s \in SUBSET S : g[s] \in Int
<1> DEFINE B == {u \in SUBSET S : g[u] \notin Int}
<1>1. SUFFICES ASSUME B # {} PROVE FALSE
  OBVIOUS
<1>2. PICK u \in B : \A t \in B : ~(Cardinality(t) < Cardinality(u))
  <2> HIDE DEF B
  <2>1. \A t \in B : IsFiniteSet(t)
    BY FS_Subset DEF B
  <2> QED BY <1>1, <2>1, SmallestSet
<1>3. g[u] = IF u = {} THEN 0 ELSE F[Chosen(u)] + g[u \ {Chosen(u)}]
  BY DEF IsSum
<1>4. u # {}
  BY <1>3
<1>5. Chosen(u) \in u /\ u \ {Chosen(u)} \in SUBSET S /\ Cardinality(u \ {Chosen(u)}) < Cardinality(u)
  BY <1>4, ChosenIn, OneLess, FS_Subset
<1>6. g[u \ {Chosen(u)}] \in Int /\ F[Chosen(u)] \in Int
  BY <1>2, <1>5
<1> QED BY <1>3, <1>4, <1>6

(* ... that does not depend on which element is added last.                *)
LEMMA SumAdds ==
  ASSUME NEW F, NEW S, IsFiniteSet(S), NEW g, IsSum(F, S, g), \A x \in S : F[x] \in Int
  PROVE  \A s \in SUBSET S : \A x \in S \ s : g[s \union {x}] = g[s] + F[x]
<1> DEFINE B == {u \in SUBSET S : ~ \A x \in S \ u : g[u \union {x}] = g[u] + F[x]}
<1>1. SUFFICES ASSUME B # {} PROVE FALSE
  OBVIOUS
<1>2. PICK s \in B : \A t \in B : ~(Cardinality(t) < Cardinality(s))
  <2> HIDE DEF B
  <2>1. \A t \in B : IsFiniteSet(t)
    BY FS_Subset DEF B
  <2> QED BY <1>1, <2>1, SmallestSet
<1>3. PICK x \in S \ s : g[s \union {x}] # g[s] + F[x]
  BY <1>2
<1>4. PICK y : y = Chosen(s \union {x})
  OBVIOUS
<1>5. y \in s \union {x} /\ g[s \union {x}] = F[y] + g[(s \union {x}) \ {y}]
  <2>1. s \union {x} # {} /\ s \union {x} \in SUBSET S
    BY <1>3
  <2> QED BY <1>4, <2>1, ChosenIn DEF IsSum
<1>6. \A u \in SUBSET S : g[u] \in Int
  BY SumTyped
<1>7. CASE y = x
  <2>1. (s \union {x}) \ {y} = s
    BY <1>3, <1>7
  <2>2. g[s] \in Int /\ F[x] \in Int
    BY <1>3, <1>6
  <2>3. PICK a \in Int, b \in Int : a = g[s] /\ b = F[x]
    BY <2>2
  <2>4. F[y] = b /\ g[(s \union {x}) \ {y}] = a
    BY <1>7, <2>1, <2>3
  <2>5. g[s \union {x}] = b + a
    BY <1>5, <2>4
  <2>6. b + a = a + b
    OBVIOUS
  <2> QED BY <1>3, <2>3, <2>5, <2>6
<1>8. CASE y # x
  <2>1. y \in s /\ y \in S
    BY <1>5, <1>8
  <2>2. PICK r \in SUBSET S : r = s \ {y}
    OBVIOUS
  <2>3. Cardinality(r) < Cardinality(s)
    BY <2>1, <2>2, OneLess, FS_Subset
  <2>4. \A z \in S \ r : g[r \union {z}] = g[r] + F[z]
    BY <1>2, <2>3
  <2>5. (s \union {x}) \ {y} = r \union {x} /\ r \union {y} = s /\ x \in S \ r /\ y \in S \ r
    BY <1>3, <1>8, <2>1, <2>2
  <2>6. g[r \union {x}] = g[r] + F[x] /\ g[s] = g[r] + F[y]
    BY <2>4, <2>5
  <2>7. g[r] \in Int /\ F[x] \in Int /\ F[y] \in Int
    BY <1>3, <1>6, <2>1
  <2>8. g[s \union {x}] = F[y] + (g[r] + F[x])
    BY <1>5, <2>5, <2>6
  <2> QED BY <1>3, <2>6, <2>7, <2>8
<1> QED BY <1>7, <1>8

(* What MapThenSumSet computes for a function.                             *)
LEMMA TotalIsSum ==
  ASSUME NEW F, NEW S, IsFiniteSet(S)
  PROVE  \E g : IsSum(F, S, g) /\ Total(F, S) = g[S]
<1> DEFINE g == CHOOSE h : IsSum(F, S, h)
<1>1. IsSum(F, S, g)
  BY SumExists
<1>2. Total(F, S) = g[S]
  BY DEF Total, MapThenSumSet, MapThenFoldSet, IsSum, Chosen
<1> QED BY <1>1, <1>2

LEMMA TotalEmpty == \A F : Total(F, {}) = 0
<1> TAKE F
<1>1. PICK g : IsSum(F, {}, g) /\ Total(F, {}) = g[{}]
  BY TotalIsSum, FS_EmptySet
<1> QED BY <1>1 DEF IsSum

LEMMA TotalTyped ==
  ASSUME NEW F, NEW S, IsFiniteSet(S), \A x \in S : F[x] \in Int
  PROVE  Total(F, S) \in Int
<1>1. PICK g : IsSum(F, S, g) /\ Total(F, S) = g[S]
  BY TotalIsSum
<1> QED BY <1>1, SumTyped

(* Sums of functions that agree on the set are the same.                   *)
LEMMA TotalAgrees ==
  ASSUME NEW F, NEW G, NEW S, IsFiniteSet(S), \A x \in S : F[x] = G[x]
  PROVE  Total(F, S) = Total(G, S)
<1>1. PICK g : IsSum(F, S, g) /\ Total(F, S) = g[S]
  BY TotalIsSum
<1>2. PICK h : IsSum(G, S, h) /\ Total(G, S) = h[S]
  BY TotalIsSum
<1>3. \A s \in SUBSET S : s # {} => Chosen(s) \in S
  BY ChosenIn
<1>4. IsSum(F, S, h)
  BY <1>2, <1>3 DEF IsSum
<1>5. g[S] = h[S]
  BY <1>1, <1>4, SumUnique
<1> QED BY <1>1, <1>2, <1>5

LEMMA TotalAdds ==
  ASSUME NEW F, NEW S, IsFiniteSet(S), NEW x, x \notin S, \A y \in S \union {x} : F[y] \in Int
  PROVE  Total(F, S \union {x}) = Total(F, S) + F[x]
<1>1. PICK T : T = S \union {x}
  OBVIOUS
<1>2. IsFiniteSet(T)
  BY <1>1, FS_AddElement
<1>3. PICK g : IsSum(F, T, g) /\ Total(F, T) = g[T]
  BY <1>2, TotalIsSum
<1>4. PICK h : IsSum(F, S, h) /\ Total(F, S) = h[S]
  BY TotalIsSum
<1>5. g[S] = h[S]
  BY <1>1, <1>2, <1>3, <1>4, SumUnique
<1>6. S \in SUBSET T /\ x \in T \ S /\ \A y \in T : F[y] \in Int
  BY <1>1
<1>7. g[S \union {x}] = g[S] + F[x]
  BY <1>2, <1>3, <1>6, SumAdds
<1> QED BY <1>1, <1>3, <1>4, <1>5, <1>7
-----------------------------------------------------------------------------
(* The sums of the audit trail                                             *)

(* Shares traded, cash moved and shares moved by a set of fills.           *)
Shares(F) == MapThenSumSet(LAMBDA f : f.quantity, F)
Flow(F) == MapThenSumSet(CashFlow, F)
Moved(f) == IF f.side = "buy" THEN f.quantity ELSE -f.quantity
Net(F) == MapThenSumSet(LAMBDA f : IF f.side = "buy" THEN f.quantity ELSE -f.quantity, F)

(* One more value in the sum of a function that is otherwise unchanged.    *)
LEMMA TotalExtends ==
  ASSUME NEW F, NEW G, NEW S, IsFiniteSet(S), NEW x, x \notin S,
         \A y \in S : F[y] = G[y], \A y \in S \union {x} : G[y] \in Int
  PROVE  /\ Total(F, S) \in Int
         /\ Total(G, S \union {x}) = Total(F, S) + G[x]
<1>1. Total(F, S) = Total(G, S)
  BY TotalAgrees
<1>2. Total(G, S) \in Int
  BY TotalTyped
<1>3. Total(G, S \union {x}) = Total(G, S) + G[x]
  BY TotalAdds
<1> QED BY <1>1, <1>2, <1>3

LEMMA SharesTotal ==
  ASSUME NEW F, IsFiniteSet(F)
  PROVE  Shares(F) = Total([f \in F |-> f.quantity], F)
<1>1. PICK G : G = [f \in F |-> f.quantity]
  OBVIOUS
<1>2. \A s \in SUBSET F : s # {} => Chosen(s) \in F
  BY ChosenIn
<1> DEFINE P(h) == h = [s \in SUBSET F |->
                          IF s = {} THEN 0 ELSE Chosen(s).quantity + h[s \ {Chosen(s)}]]
           g == CHOOSE h : P(h)
<1>3. \A h : IsSum(G, F, h) <=> P(h)
  BY <1>1, <1>2 DEF IsSum
<1>4. \E h : P(h)
  BY <1>3, SumExists
<1>5. IsSum(G, F, g)
  <2> HIDE DEF P
  <2> QED BY <1>3, <1>4
<1>6. Shares(F) = g[F]
  BY DEF Shares, MapThenSumSet, MapThenFoldSet, Chosen
<1>7. PICK h : IsSum(G, F, h) /\ Total(G, F) = h[F]
  BY TotalIsSum
<1> HIDE DEF g
<1>8. g[F] = h[F]
  BY <1>5, <1>7, SumUnique
<1> QED BY <1>1, <1>6, <1>7, <1>8

LEMMA SharesAdds ==
  ASSUME NEW F, IsFiniteSet(F), NEW x, x \notin F, \A f \in F \union {x} : f.quantity \in Int
  PROVE  Shares(F) \in Int /\ Shares(F \union {x}) = Shares(F) + x.quantity
<1>1. PICK G : G = [f \in F |-> f.quantity]
  OBVIOUS
<1>2. PICK H : H = [f \in F \union {x} |-> f.quantity]
  OBVIOUS
<1>3. IsFiniteSet(F \union {x})
  BY FS_AddElement
<1>4. Shares(F) = Total(G, F) /\ Shares(F \union {x}) = Total(H, F \union {x})
  BY <1>1, <1>2, <1>3, SharesTotal
<1>5. (\A y \in F : G[y] = H[y]) /\ (\A y \in F \union {x} : H[y] \in Int)
  BY <1>1, <1>2
<1>6. H[x] = x.quantity
  BY <1>2
<1>7. Total(G, F) \in Int /\ Total(H, F \union {x}) = Total(G, F) + H[x]
  BY <1>5, TotalExtends
<1> QED BY <1>4, <1>6, <1>7

LEMMA SharesEmpty == Shares({}) = 0
  BY SharesTotal, TotalEmpty, FS_EmptySet

LEMMA FlowTotal ==
  ASSUME NEW F, IsFiniteSet(F)
  PROVE  Flow(F) = Total([f \in F |-> CashFlow(f)], F)
<1>1. PICK G : G = [f \in F |-> CashFlow(f)]
  OBVIOUS
<1>2. \A s \in SUBSET F : s # {} => Chosen(s) \in F
  BY ChosenIn
<1> DEFINE P(h) == h = [s \in SUBSET F |->
                          IF s = {} THEN 0 ELSE CashFlow(Chosen(s)) + h[s \ {Chosen(s)}]]
           g == CHOOSE h : P(h)
<1>3. \A h : IsSum(G, F, h) <=> P(h)
  BY <1>1, <1>2 DEF IsSum
<1>4. \E h : P(h)
  BY <1>3, SumExists
<1>5. IsSum(G, F, g)
  <2> HIDE DEF P
  <2> QED BY <1>3, <1>4
<1>6. Flow(F) = g[F]
  BY DEF Flow, MapThenSumSet, MapThenFoldSet, Chosen
<1>7. PICK h : IsSum(G, F, h) /\ Total(G, F) = h[F]
  BY TotalIsSum
<1> HIDE DEF g
<1>8. g[F] = h[F]
  BY <1>5, <1>7, SumUnique
<1> QED BY <1>1, <1>6, <1>7, <1>8

LEMMA FlowAdds ==
  ASSUME NEW F, IsFiniteSet(F), NEW x, x \notin F, \A f \in F \union {x} : CashFlow(f) \in Int
  PROVE  Flow(F) \in Int /\ Flow(F \union {x}) = Flow(F) + CashFlow(x)
<1>1. PICK G : G = [f \in F |-> CashFlow(f)]
  OBVIOUS
<1>2. PICK H : H = [f \in F \union {x} |-> CashFlow(f)]
  OBVIOUS
<1>3. IsFiniteSet(F \union {x})
  BY FS_AddElement
<1>4. Flow(F) = Total(G, F) /\ Flow(F \union {x}) = Total(H, F \union {x})
  BY <1>1, <1>2, <1>3, FlowTotal
<1>5. (\A y \in F : G[y] = H[y]) /\ (\A y \in F \union {x} : H[y] \in Int)
  BY <1>1, <1>2
<1>6. H[x] = CashFlow(x)
  BY <1>2
<1>7. Total(G, F) \in Int /\ Total(H, F \union {x}) = Total(G, F) + H[x]
  <2>1. Total(G, F) = Total(H, F)
    BY <1>5, TotalAgrees
  <2>2. \A y \in F : H[y] \in Int
    BY <1>5
  <2>3. Total(H, F) \in Int
    BY <2>2, TotalTyped
  <2>4. Total(H, F \union {x}) = Total(H, F) + H[x]
    BY <1>5, TotalAdds
  <2> QED BY <2>1, <2>3, <2>4
<1> QED BY <1>4, <1>6, <1>7

LEMMA FlowEmpty == Flow({}) = 0
  BY FlowTotal, TotalEmpty, FS_EmptySet

LEMMA NetTotal ==
  ASSUME NEW F, IsFiniteSet(F)
  PROVE  Net(F) = Total([f \in F |-> Moved(f)], F)
<1>1. PICK G : G = [f \in F |-> Moved(f)]
  OBVIOUS
<1>2. \A s \in SUBSET F : s # {} => Chosen(s) \in F
  BY ChosenIn
<1> DEFINE P(h) == h = [s \in SUBSET F |->
                          IF s = {} THEN 0 ELSE Moved(Chosen(s)) + h[s \ {Chosen(s)}]]
           g == CHOOSE h : P(h)
<1>3. \A h : IsSum(G, F, h) <=> P(h)
  BY <1>1, <1>2 DEF IsSum
<1>4. \E h : P(h)
  BY <1>3, SumExists
<1>5. IsSum(G, F, g)
  <2> HIDE DEF P
  <2> QED BY <1>3, <1>4
<1>6. Net(F) = g[F]
  BY DEF Net, MapThenSumSet, MapThenFoldSet, Chosen, Moved
<1>7. PICK h : IsSum(G, F, h) /\ Total(G, F) = h[F]
  BY TotalIsSum
<1> HIDE DEF g
<1>8. g[F] = h[F]
  BY <1>5, <1>7, SumUnique
<1> QED BY <1>1, <1>6, <1>7, <1>8

LEMMA NetAdds ==
  ASSUME NEW F, IsFiniteSet(F), NEW x, x \notin F, \A f \in F \union {x} : Moved(f) \in Int
  PROVE  Net(F) \in Int /\ Net(F \union {x}) = Net(F) + Moved(x)
<1>1. PICK G : G = [f \in F |-> Moved(f)]
  OBVIOUS
<1>2. PICK H : H = [f \in F \union {x} |-> Moved(f)]
  OBVIOUS
<1>3. IsFiniteSet(F \union {x})
  BY FS_AddElement
<1>4. Net(F) = Total(G, F) /\ Net(F \union {x}) = Total(H, F \union {x})
  BY <1>1, <1>2, <1>3, NetTotal
<1>5. (\A y \in F : G[y] = H[y]) /\ (\A y \in F \union {x} : H[y] \in Int)
  BY <1>1, <1>2
<1>6. H[x] = Moved(x)
  BY <1>2
<1>7. Total(G, F) \in Int /\ Total(H, F \union {x}) = Total(G, F) + H[x]
  BY <1>5, TotalExtends
<1> QED BY <1>4, <1>6, <1>7

LEMMA NetEmpty == Net({}) = 0
  BY NetTotal, TotalEmpty, FS_EmptySet
-----------------------------------------------------------------------------
(* The replay of the audit trail                                           *)

LEMMA LeastNumber ==
  ASSUME NEW B, B \subseteq Nat, B # {}
  PROVE  \E b \in B : \A c \in B : ~(c < b)
<1>1. PICK b \in B : \A c \in B : <<c, b>> \notin OpToRel(<, Nat)
  BY NatLessThanWellFounded, WFMin, Zenon
<1> QED BY <1>1 DEF OpToRel

(* What a day's split makes of a holding.                                  *)
Adjusted(t, n, d) ==
  LET splits == {a \in ActionsOn(d) : a.ticker = t /\ d \in Feed}
  IN IF splits = {} THEN n ELSE LET a == CHOOSE x \in splits : TRUE IN (n * a.num) \div a.den

(* The fills of an order, and those of a ticker on one day.                *)
FillsOf(F, k) == {f \in F : f.order = k}
DayFills(F, t, d) == {f \in F : f.date = d /\ f.order[2] = t}
TradedOn(F, t, d) == Net(DayFills(F, t, d))

IsReplay(F, t, n, g) ==
  g = [d \in 0..n |-> IF d = 0 THEN 0 ELSE Adjusted(t, g[d - 1], d) + TradedOn(F, t, d)]

Replay(F, t, n) ==
  LET shares[d \in 0..n] ==
        IF d = 0 THEN 0 ELSE Adjusted(t, shares[d - 1], d) + TradedOn(F, t, d)
  IN shares[n]

LEMMA ReplayedIsReplay == \A t : Replayed(t) = Replay(fills, t, today)
  BY DEF Replayed, Replay, Adjusted, TradedOn, DayFills, Net

LEMMA ReplayUnique ==
  ASSUME NEW t, NEW F, NEW H, NEW n \in Nat, NEW m \in Nat, NEW g, NEW h,
         IsReplay(F, t, n, g), IsReplay(H, t, m, h),
         NEW k \in Nat, k <= n, k <= m, \A d \in 1..k : TradedOn(F, t, d) = TradedOn(H, t, d)
  PROVE  g[k] = h[k]
<1> DEFINE B == {i \in 0..k : g[i] # h[i]}
<1>1. SUFFICES ASSUME B # {} PROVE FALSE
  OBVIOUS
<1>2. PICK i \in B : \A c \in B : ~(c < i)
  <2> HIDE DEF B
  <2>1. B \subseteq Nat
    BY DEF B
  <2> QED BY <1>1, <2>1, LeastNumber
<1>3. i \in 0..n /\ i \in 0..m /\ i \in Nat
  OBVIOUS
<1>4. /\ g[i] = IF i = 0 THEN 0 ELSE Adjusted(t, g[i - 1], i) + TradedOn(F, t, i)
      /\ h[i] = IF i = 0 THEN 0 ELSE Adjusted(t, h[i - 1], i) + TradedOn(H, t, i)
  BY <1>3 DEF IsReplay
<1>5. i # 0
  BY <1>4
<1>6. i - 1 \in 0..k /\ i - 1 < i /\ i \in 1..k
  BY <1>3, <1>5
<1>7. g[i - 1] = h[i - 1]
  BY <1>2, <1>6
<1> QED BY <1>4, <1>5, <1>6, <1>7

LEMMA ReplayExists ==
  ASSUME NEW t, NEW F
  PROVE  \A n \in Nat : \E g : IsReplay(F, t, n, g)
<1> DEFINE B == {n \in Nat : ~ \E g : IsReplay(F, t, n, g)}
<1>1. SUFFICES ASSUME B # {} PROVE FALSE
  OBVIOUS
<1>2. PICK n \in B : \A c \in B : ~(c < n)
  <2> HIDE DEF B
  <2>1. B \subseteq Nat
    BY DEF B
  <2> QED BY <1>1, <2>1, LeastNumber
<1>3. CASE n = 0
  <2>1. IsReplay(F, t, 0, [d \in 0..0 |-> 0])
    BY DEF IsReplay
  <2> QED BY <1>3, <2>1
<1>4. CASE n # 0
  <2>1. n - 1 \in Nat /\ n - 1 < n
    BY <1>4
  <2>2. PICK h : IsReplay(F, t, n - 1, h)
    BY <1>2, <2>1
  <2>3. PICK last : last = Adjusted(t, h[n - 1], n) + TradedOn(F, t, n)
    OBVIOUS
  <2>4. PICK g : g = [d \in 0..n |-> IF d = n THEN last ELSE h[d]]
    OBVIOUS
  <2>5. ASSUME NEW d \in 0..n
        PROVE  g[d] = IF d = 0 THEN 0 ELSE Adjusted(t, g[d - 1], d) + TradedOn(F, t, d)
    <3>1. CASE d = n
      <4>1. g[d - 1] = h[n - 1] /\ g[d] = last
        BY <2>1, <2>4, <3>1
      <4> QED BY <1>4, <2>3, <3>1, <4>1
    <3>2. CASE d # n
      <4>1. d \in 0..(n - 1)
        BY <3>2
      <4>2. h[d] = IF d = 0 THEN 0 ELSE Adjusted(t, h[d - 1], d) + TradedOn(F, t, d)
        BY <2>2, <4>1 DEF IsReplay
      <4>3. g[d] = h[d]
        BY <2>4, <3>2
      <4>4. d # 0 => g[d - 1] = h[d - 1]
        BY <2>4, <4>1
      <4> QED BY <4>2, <4>3, <4>4
    <3> QED BY <3>1, <3>2
  <2>6. IsReplay(F, t, n, g)
    <3>1. g = [d \in 0..n |-> g[d]]
      BY <2>4
    <3> QED BY <2>5, <3>1 DEF IsReplay
  <2> QED BY <1>2, <2>6
<1> QED BY <1>3, <1>4

LEMMA ReplayIs ==
  ASSUME NEW t, NEW F, NEW n \in Nat
  PROVE  \E g : IsReplay(F, t, n, g) /\ Replay(F, t, n) = g[n]
<1> DEFINE g == CHOOSE h : IsReplay(F, t, n, h)
<1>1. IsReplay(F, t, n, g)
  BY ReplayExists
<1>2. Replay(F, t, n) = g[n]
  BY DEF Replay, IsReplay
<1> QED BY <1>1, <1>2

(* The replay day by day, and over days on which nothing happens.          *)
LEMMA ReplayAgrees ==
  ASSUME NEW t, NEW F, NEW H, NEW n \in Nat, \A d \in 1..n : TradedOn(F, t, d) = TradedOn(H, t, d)
  PROVE  Replay(F, t, n) = Replay(H, t, n)
<1>1. PICK g : IsReplay(F, t, n, g) /\ Replay(F, t, n) = g[n]
  BY ReplayIs
<1>2. PICK h : IsReplay(H, t, n, h) /\ Replay(H, t, n) = h[n]
  BY ReplayIs
<1>3. g[n] = h[n]
  BY <1>1, <1>2, ReplayUnique
<1> QED BY <1>1, <1>2, <1>3

LEMMA ReplayDay ==
  ASSUME NEW t, NEW F, NEW n \in Nat \ {0}
  PROVE  Replay(F, t, n) = Adjusted(t, Replay(F, t, n - 1), n) + TradedOn(F, t, n)
<1>0. n \in Nat /\ n - 1 \in Nat /\ n - 1 <= n /\ n \in 0..n /\ n # 0
  OBVIOUS
<1>1. PICK g : IsReplay(F, t, n, g) /\ Replay(F, t, n) = g[n]
  BY ReplayIs
<1>2. PICK h : IsReplay(F, t, n - 1, h) /\ Replay(F, t, n - 1) = h[n - 1]
  BY <1>0, ReplayIs
<1>3. g[n - 1] = h[n - 1]
  BY <1>0, <1>1, <1>2, ReplayUnique
<1>4. g[n] = Adjusted(t, g[n - 1], n) + TradedOn(F, t, n)
  BY <1>0, <1>1 DEF IsReplay
<1> QED BY <1>1, <1>2, <1>3, <1>4

LEMMA ReplayNothing == \A t, F : Replay(F, t, 0) = 0
<1> TAKE t, F
<1>1. PICK g : IsReplay(F, t, 0, g) /\ Replay(F, t, 0) = g[0]
  BY ReplayIs
<1> QED BY <1>1 DEF IsReplay

LEMMA ReplayIdle ==
  ASSUME NEW t, NEW F, NEW m \in Nat, NEW n \in Nat, m <= n, Replay(F, t, m) \in Int,
         \A d \in (m + 1)..n : d \notin Feed /\ TradedOn(F, t, d) = 0
  PROVE  Replay(F, t, n) = Replay(F, t, m)
<1> DEFINE B == {i \in m..n : Replay(F, t, i) # Replay(F, t, m)}
<1>1. SUFFICES ASSUME B # {} PROVE FALSE
  OBVIOUS
<1>2. PICK i \in B : \A c \in B : ~(c < i)
  <2> HIDE DEF B
  <2>1. B \subseteq Nat
    BY DEF B
  <2> QED BY <1>1, <2>1, LeastNumber
<1>3. i # m
  OBVIOUS
<1>4. i - 1 \in m..n /\ i - 1 < i /\ i \in (m + 1)..n /\ i \in Nat \ {0}
  BY <1>3
<1>5. Replay(F, t, i - 1) = Replay(F, t, m)
  BY <1>2, <1>4
<1>6. Adjusted(t, Replay(F, t, m), i) = Replay(F, t, m)
  BY <1>4 DEF Adjusted
<1>7. Replay(F, t, i) = Adjusted(t, Replay(F, t, i - 1), i) + TradedOn(F, t, i)
  BY <1>4, ReplayDay
<1>8. TradedOn(F, t, i) = 0
  BY <1>4
<1>9. Replay(F, t, i) = Replay(F, t, m) + 0
  BY <1>5, <1>6, <1>7, <1>8
<1> QED BY <1>9
-----------------------------------------------------------------------------
(* The books                                                               *)

(* Cash, holdings and filled quantities are those of the audit trail; what *)
(* a session has traded and may still trade is its capacity; and an order  *)
(* that has traded today does not wait for another attempt, so that no two *)
(* fills are the same.                                                     *)
BooksInv ==
  /\ IsFiniteSet(fills)
  /\ \A f \in fills : f.date = today => f.order \notin queue
  /\ cash = Config.initial_cash + Flow(fills)
  /\ \A t \in Tickers : held[t] = Replay(fills, t, today)
  /\ \A k \in DOMAIN orders : orders[k].filled = Shares(FillsOf(fills, k))
  /\ \A t \in Tickers : volume[t] + Shares(DayFills(fills, t, today)) = Capacity(bars[t])

(* The values the sums are taken of.                                       *)
LEMMA FillValues ==
  ASSUME NEW f \in FillState
  PROVE  /\ f.quantity \in Int /\ CashFlow(f) \in Int /\ Moved(f) \in Int
         /\ f.order \in OrderIds /\ f.date \in Nat \ {0} /\ f.side \in Sides
<1>1. /\ f.quantity \in Nat /\ f.price \in Nat /\ f.order \in OrderIds /\ f.date \in Nat \ {0}
      /\ f.side \in Sides
  BY FeedDates DEF FillState
<1>2. PICK n \in Nat : n = f.quantity * f.price
  BY <1>1, ProductNat
<1>3. Fees("buy", n) \in Nat /\ Fees("sell", n) \in Nat
  BY FeesBounded
<1>4. CashFlow(f) \in Int
  BY <1>2, <1>3 DEF CashFlow
<1> QED BY <1>1, <1>4 DEF Moved

(* Holdings replayed from fills are integers.                              *)
LEMMA AdjustedTyped ==
  ASSUME NEW t, NEW n \in Int, NEW d
  PROVE  Adjusted(t, n, d) \in Int
<1> DEFINE splits == {a \in ActionsOn(d) : a.ticker = t /\ d \in Feed}
           a == CHOOSE x \in splits : TRUE
<1>1. CASE splits = {}
  BY <1>1 DEF Adjusted
<1>2. CASE splits # {}
  <2>1. a \in CorporateActions
    BY <1>2 DEF ActionsOn
  <2>2. a.num \in Nat \ {0} /\ a.den \in Nat \ {0}
    BY <2>1, ActionsAssumption DEF ActionsAssumption
  <2>3. Adjusted(t, n, d) = (n * a.num) \div a.den
    BY <1>2 DEF Adjusted
  <2> HIDE DEF a
  <2>4. PICK u \in Int : u = n * a.num
    BY <2>2
  <2>5. u \div a.den \in Int
    BY <2>2
  <2> QED BY <2>3, <2>4, <2>5
<1> QED BY <1>1, <1>2

LEMMA ReplayTyped ==
  ASSUME NEW F, IsFiniteSet(F), \A f \in F : f \in FillState, NEW t
  PROVE  \A n \in Nat : Replay(F, t, n) \in Int
<1> DEFINE B == {n \in Nat : Replay(F, t, n) \notin Int}
<1>1. SUFFICES ASSUME B # {} PROVE FALSE
  OBVIOUS
<1>2. PICK n \in B : \A c \in B : ~(c < n)
  <2> HIDE DEF B
  <2>1. B \subseteq Nat
    BY DEF B
  <2> QED BY <1>1, <2>1, LeastNumber
<1>3. n # 0
  BY ReplayNothing
<1>4. n - 1 \in Nat /\ n - 1 < n /\ n \in Nat \ {0}
  BY <1>3
<1>5. PICK r \in Int : r = Replay(F, t, n - 1)
  BY <1>2, <1>4
<1>6. Replay(F, t, n) = Adjusted(t, r, n) + TradedOn(F, t, n)
  BY <1>4, <1>5, ReplayDay
<1>7. PICK D : D = DayFills(F, t, n)
  OBVIOUS
<1>8. D \subseteq F
  BY <1>7 DEF DayFills
<1>9. IsFiniteSet(D) /\ \A f \in D : Moved(f) \in Int
  BY <1>8, FS_Subset, FillValues
<1>10. PICK G : G = [f \in D |-> Moved(f)]
  OBVIOUS
<1>11. \A f \in D : G[f] \in Int
  BY <1>9, <1>10
<1>12. Net(D) \in Int
  BY <1>9, <1>10, <1>11, NetTotal, TotalTyped
<1>13. TradedOn(F, t, n) \in Int
  BY <1>7, <1>12 DEF TradedOn
<1> QED BY <1>5, <1>6, <1>13, AdjustedTyped

(* A fill, as the books see it.                                            *)
Fills(k, f) ==
  /\ f \in FillState /\ f.order = k /\ f.date = today
  /\ fills' = fills \union {f}
  /\ cash' = cash + CashFlow(f)
  /\ held' = [held EXCEPT ![k[2]] = held[k[2]] + Moved(f)]
  /\ volume' = [volume EXCEPT ![k[2]] = volume[k[2]] - f.quantity]
  /\ orders'[k].filled = orders[k].filled + f.quantity

LEMMA FillBooks ==
  ASSUME IInv, NEW k \in queue, FillOrder(k)
  PROVE  \E f : Fills(k, f)
<1> DEFINE o == orders[k]
           t == k[2]
<1>1. PICK q : q = FillQuantity(o, volume[t])
  OBVIOUS
<1>2. PICK price : price = TradePrice(k)
  OBVIOUS
<1>3. PICK f : f = [order |-> k, date |-> today, side |-> o.side, quantity |-> q, price |-> price]
  OBVIOUS
<1>4. PICK p : p = FilledBy(o, q)
  OBVIOUS
<1>5. /\ Tradable(k) /\ q \in Nat \ {0} /\ q <= Remaining(o)
      /\ OrderType(p) /\ p.filled = o.filled + q
  BY <1>1, <1>4, FillIsTyped
<1>6. /\ cash' = IF o.side = "buy" THEN cash - (q * price + Fees(o.side, q * price))
                                   ELSE cash + (q * price - Fees(o.side, q * price))
      /\ held' = [held EXCEPT ![t] = IF o.side = "buy" THEN held[t] + q ELSE held[t] - q]
      /\ fills' = fills \union {f}
      /\ volume' = VolumeAfter(t, q)
      /\ Conclude(k, p)
  BY <1>1, <1>2, <1>3, <1>4 DEF FillOrder
<1>7. f \in FillState
  <2>1. IInv'
    BY FillKeepsIInv
  <2>2. fills' \subseteq FillState
    BY <2>1 DEF IInv, TypeOK, FillState, OrderIds
  <2> QED BY <1>6, <2>2
<1>8. f.order = k /\ f.date = today /\ f.quantity = q /\ f.price = price /\ f.side = o.side
  BY <1>3
<1>9. k \in DOMAIN orders /\ t \in Tickers /\ cash \in Int /\ held[t] \in Int /\ volume[t] \in Nat
      /\ volume \in [Tickers -> Nat] /\ held \in [Tickers -> Int]
  BY DEF IInv, TypeOK, OrderIds
<1>10. cash' = cash + CashFlow(f)
  <2>1. PICK n \in Nat : n = q * price
    BY <1>7, <1>8, ProductNat DEF FillState
  <2>2. Fees("buy", n) \in Nat /\ Fees("sell", n) \in Nat
    BY FeesBounded
  <2>3. CashFlow(f) = IF o.side = "buy" THEN -(n + Fees("buy", n)) ELSE n - Fees("sell", n)
    BY <1>8, <2>1 DEF CashFlow
  <2>4. CASE o.side = "buy"
    <3>1. cash' = cash - (n + Fees("buy", n))
      BY <1>6, <2>1, <2>4
    <3> QED BY <1>9, <2>2, <2>3, <2>4, <3>1
  <2>5. CASE o.side # "buy"
    <3>1. o.side = "sell"
      BY <1>7, <1>8, <2>5 DEF FillState, Sides
    <3>2. cash' = cash + (n - Fees("sell", n))
      BY <1>6, <2>1, <3>1
    <3> QED BY <1>9, <2>2, <2>3, <2>5, <3>2
  <2> QED BY <2>4, <2>5
<1>11. held' = [held EXCEPT ![t] = held[t] + Moved(f)]
  <2>1. held[t] - q = held[t] + (-q)
    BY <1>5, <1>9
  <2> QED BY <1>6, <1>8, <2>1 DEF Moved
<1>12. volume' = [volume EXCEPT ![t] = volume[t] - q]
  <2>1. q <= volume[t]
    <3>1. Remaining(o) \in Int
      BY DEF IInv, TypeOK, OrderType, Remaining
    <3>2. q = IF Remaining(o) <= volume[t] THEN Remaining(o) ELSE volume[t]
      BY <1>1, <1>9, <3>1, MinPair DEF FillQuantity
    <3> QED BY <1>5, <1>9, <3>1, <3>2
  <2>2. Max({0, volume[t] - q}) = volume[t] - q
    <3>1. volume[t] - q \in Int /\ volume[t] - q >= 0
      BY <1>5, <1>9, <2>1
    <3>2. Max({0, volume[t] - q}) = IF 0 >= volume[t] - q THEN 0 ELSE volume[t] - q
      BY <3>1, MaxPair
    <3> QED BY <3>1, <3>2
  <2>3. volume' = [volume EXCEPT ![t] = Max({0, volume[t] - q})]
    BY <1>6 DEF VolumeAfter
  <2> QED BY <2>2, <2>3
<1>13. orders'[k].filled = orders[k].filled + q
  <2>1. orders'[k] = Expire(p)
    BY <1>6, <1>9 DEF Conclude
  <2> QED BY <1>5, <2>1, ExpireShape
<1> QED BY <1>6, <1>7, <1>8, <1>10, <1>11, <1>12, <1>13 DEF Fills

(* Steps that book nothing: orders wait, end or join unfilled.             *)
LEMMA QuietKeepsBooks ==
  ASSUME OrdersInv, BooksInv, UNCHANGED <<fills, cash, held, today, bars, volume>>,
         \A j \in DOMAIN orders' :
           orders'[j].filled = IF j \in DOMAIN orders THEN orders[j].filled ELSE 0,
         \A f \in fills : f.date = today => f.order \notin queue'
  PROVE  BooksInv'
<1>1. \A f \in fills : f.order \in DOMAIN orders
  BY DEF OrdersInv, FirstCome
<1>2. ASSUME NEW j \in DOMAIN orders' PROVE orders'[j].filled = Shares(FillsOf(fills, j))
  <2>1. CASE j \in DOMAIN orders
    BY <2>1 DEF BooksInv
  <2>2. CASE j \notin DOMAIN orders
    <3>1. FillsOf(fills, j) = {}
      BY <1>1, <2>2 DEF FillsOf
    <3> QED BY <2>2, <3>1, SharesEmpty
  <2> QED BY <2>1, <2>2
<1> QED BY <1>2 DEF BooksInv

LEMMA FillKeepsBooks ==
  ASSUME OrdersInv, BooksInv, NEW k \in queue, FillOrder(k)
  PROVE  BooksInv'
<1>1. PICK f : Fills(k, f)
  BY FillBooks DEF OrdersInv
<1>2. /\ f \in FillState /\ f.order = k /\ f.date = today
      /\ fills' = fills \union {f}
      /\ cash' = cash + CashFlow(f)
      /\ held' = [held EXCEPT ![k[2]] = held[k[2]] + Moved(f)]
      /\ volume' = [volume EXCEPT ![k[2]] = volume[k[2]] - f.quantity]
      /\ orders'[k].filled = orders[k].filled + f.quantity
  BY <1>1 DEF Fills
<1>3. /\ f.quantity \in Int /\ CashFlow(f) \in Int /\ Moved(f) \in Int
      /\ f.order \in OrderIds /\ f.date \in Nat \ {0}
  BY <1>2, FillValues
<1>4. /\ \A g \in fills : g \in FillState
      /\ volume \in [Tickers -> Nat] /\ held \in [Tickers -> Int] /\ cash \in Int
      /\ k[2] \in Tickers /\ Config.initial_cash \in Int
  BY <1>2, <1>3, ConfigAssumption DEF ConfigAssumption, OrdersInv, IInv, TypeOK, OrderIds
<1>5. f \notin fills /\ IsFiniteSet(fills)
  BY <1>2 DEF BooksInv
<1>6. Iteration(k)
  BY EveryAttemptIterates DEF Attempts, OrdersInv
<1>7. /\ today' = today /\ bars' = bars /\ queue' = queue \ {k} /\ DOMAIN orders' = DOMAIN orders
      /\ \A j \in DOMAIN orders : j # k => orders'[j] = orders[j]
  BY <1>6 DEF Iteration
<1>8. \A g \in fills \union {f} : g.quantity \in Int /\ CashFlow(g) \in Int /\ Moved(g) \in Int
  BY <1>3, <1>4, FillValues
<1>9. IsFiniteSet(fills')
  BY <1>2, <1>5, FS_AddElement
<1>10. \A g \in fills' : g.date = today' => g.order \notin queue'
  BY <1>2, <1>7 DEF BooksInv
<1>11. cash' = Config.initial_cash + Flow(fills')
  <2>1. Flow(fills) \in Int /\ Flow(fills \union {f}) = Flow(fills) + CashFlow(f)
    <3>1. \A g \in fills \union {f} : CashFlow(g) \in Int
      BY <1>8
    <3> QED BY <1>5, <3>1, FlowAdds
  <2>2. cash = Config.initial_cash + Flow(fills)
    BY DEF BooksInv
  <2>3. PICK a \in Int, b \in Int, c \in Int :
          a = Config.initial_cash /\ b = Flow(fills) /\ c = CashFlow(f)
    BY <1>3, <1>4, <2>1
  <2>4. cash' = (a + b) + c /\ Flow(fills') = b + c
    BY <1>2, <2>1, <2>2, <2>3
  <2>5. (a + b) + c = a + (b + c)
    OBVIOUS
  <2> QED BY <2>3, <2>4, <2>5
<1>12. ASSUME NEW d \in Nat, NEW t \in Tickers
       PROVE  DayFills(fills', t, d)
                = IF d = today /\ t = k[2] THEN DayFills(fills, t, d) \union {f} ELSE DayFills(fills, t, d)
  BY <1>2 DEF DayFills
<1>13. ASSUME NEW d, NEW t
       PROVE  /\ IsFiniteSet(DayFills(fills, t, d)) /\ f \notin DayFills(fills, t, d)
              /\ DayFills(fills, t, d) \subseteq fills
  <2>1. DayFills(fills, t, d) \subseteq fills
    BY DEF DayFills
  <2> QED BY <1>5, <2>1, FS_Subset
<1>14. today \in Nat \ {0}
  BY <1>2, <1>3
<1>15. ASSUME NEW t \in Tickers PROVE held'[t] = Replay(fills', t, today)
  <2>1. PICK F : F = fills'
    OBVIOUS
  <2>2. PICK G : G = fills
    OBVIOUS
  <2>3. PICK n \in Nat \ {0} : n = today
    BY <1>14
  <2>4. PICK r : r = Replay(G, t, n - 1)
    OBVIOUS
  <2>5. \A d \in 1..(n - 1) : TradedOn(F, t, d) = TradedOn(G, t, d)
    BY <1>12, <2>1, <2>2, <2>3 DEF TradedOn
  <2>6. Replay(F, t, n - 1) = r
    BY <2>4, <2>5, ReplayAgrees
  <2>7. /\ Replay(F, t, n) = Adjusted(t, r, n) + TradedOn(F, t, n)
        /\ Replay(G, t, n) = Adjusted(t, r, n) + TradedOn(G, t, n)
    BY <2>4, <2>6, ReplayDay
  <2>8. held[t] = Replay(G, t, n)
    BY <2>2, <2>3 DEF BooksInv
  <2>9. CASE t # k[2]
    <3>1. TradedOn(F, t, n) = TradedOn(G, t, n)
      BY <1>12, <2>1, <2>2, <2>3, <2>9 DEF TradedOn
    <3>2. held'[t] = held[t]
      BY <1>2, <1>4, <2>9
    <3> QED BY <2>1, <2>3, <2>7, <2>8, <3>1, <3>2
  <2>10. CASE t = k[2]
    <3>1. DayFills(F, t, n) = DayFills(G, t, n) \union {f}
      BY <1>12, <2>1, <2>2, <2>3, <2>10
    <3>2. PICK D : D = DayFills(G, t, n)
      OBVIOUS
    <3>3. IsFiniteSet(D) /\ f \notin D /\ \A g \in D \union {f} : Moved(g) \in Int
      BY <1>8, <1>13, <2>2, <2>3, <3>2
    <3>4. Net(D) \in Int /\ Net(D \union {f}) = Net(D) + Moved(f)
      BY <3>3, NetAdds
    <3>5. TradedOn(F, t, n) = Net(D) + Moved(f) /\ TradedOn(G, t, n) = Net(D)
      BY <3>1, <3>2, <3>4 DEF TradedOn
    <3>6. r \in Int
      BY <1>4, <1>5, <2>2, <2>3, <2>4, ReplayTyped
    <3>7. Adjusted(t, r, n) \in Int
      BY <3>6, AdjustedTyped
    <3>8. PICK a \in Int, b \in Int, c \in Int :
            a = Adjusted(t, r, n) /\ b = Net(D) /\ c = Moved(f)
      BY <1>3, <3>4, <3>7
    <3>9. a + (b + c) = (a + b) + c
      OBVIOUS
    <3>10. held'[t] = held[t] + c
      BY <1>2, <1>4, <2>10, <3>8
    <3>11. Replay(F, t, n) = a + (b + c) /\ held[t] = a + b
      BY <2>7, <2>8, <3>5, <3>8
    <3> QED BY <2>1, <2>3, <3>9, <3>10, <3>11
  <2> QED BY <2>9, <2>10
<1>16. ASSUME NEW j \in DOMAIN orders' PROVE orders'[j].filled = Shares(FillsOf(fills', j))
  <2>1. FillsOf(fills', j) = IF j = k THEN FillsOf(fills, j) \union {f} ELSE FillsOf(fills, j)
    BY <1>2 DEF FillsOf
  <2>2. orders[j].filled = Shares(FillsOf(fills, j))
    BY <1>7 DEF BooksInv
  <2>3. CASE j # k
    BY <1>7, <2>1, <2>2, <2>3
  <2>4. CASE j = k
    <3>1. PICK D : D = FillsOf(fills, k)
      OBVIOUS
    <3>2. D \subseteq fills
      BY <3>1 DEF FillsOf
    <3>3. IsFiniteSet(D) /\ f \notin D /\ \A g \in D \union {f} : g.quantity \in Int
      BY <1>5, <1>8, <3>2, FS_Subset
    <3>4. Shares(D \union {f}) = Shares(D) + f.quantity
      BY <3>3, SharesAdds
    <3> QED BY <1>2, <2>1, <2>2, <2>4, <3>1, <3>4
  <2> QED BY <2>3, <2>4
<1>17. ASSUME NEW t \in Tickers
       PROVE  volume'[t] + Shares(DayFills(fills', t, today)) = Capacity(bars[t])
  <2>1. volume[t] + Shares(DayFills(fills, t, today)) = Capacity(bars[t])
    BY DEF BooksInv
  <2>2. CASE t # k[2]
    <3>1. DayFills(fills', t, today) = DayFills(fills, t, today)
      BY <1>12, <1>14, <2>2
    <3> QED BY <1>2, <1>4, <2>1, <2>2, <3>1
  <2>3. CASE t = k[2]
    <3>1. PICK D : D = DayFills(fills, t, today)
      OBVIOUS
    <3>2. DayFills(fills', t, today) = D \union {f}
      BY <1>12, <1>14, <2>3, <3>1
    <3>3. IsFiniteSet(D) /\ f \notin D /\ \A g \in D \union {f} : g.quantity \in Int
      BY <1>8, <1>13, <3>1
    <3>4. Shares(D) \in Int /\ Shares(D \union {f}) = Shares(D) + f.quantity
      BY <3>3, SharesAdds
    <3>5. volume'[t] = volume[t] - f.quantity /\ volume[t] \in Int
      BY <1>2, <1>4, <2>3
    <3>6. PICK v \in Int, s \in Int, q \in Int : v = volume[t] /\ s = Shares(D) /\ q = f.quantity
      BY <1>3, <3>4, <3>5
    <3>7. (v - q) + (s + q) = v + s
      OBVIOUS
    <3> QED BY <2>1, <3>1, <3>2, <3>4, <3>5, <3>6, <3>7
  <2> QED BY <2>2, <2>3
<1> QED BY <1>7, <1>9, <1>10, <1>11, <1>15, <1>16, <1>17 DEF BooksInv
(* A new session: what was held is adjusted, what was traded is not.       *)
LEMMA BeginKeepsBooks ==
  ASSUME OrdersInv, BooksInv, BeginSession
  PROVE  BooksInv'
<1>1. PICK d \in EventDate :
        /\ \A a \in ActionsOn(d) : a.kind = "split"
        /\ today' = d
        /\ held' = [t \in Tickers |-> SplitShares(t, ActionsOn(d))]
  BY DEF BeginSession
<1>2. /\ phase = "idle"
      /\ bars' \in [Tickers -> Bars \union {NoBar}]
      /\ volume' = [t \in Tickers |-> Capacity(bars'[t])]
      /\ UNCHANGED <<cash, orders, queue, fills>>
  BY DEF BeginSession, orderVars
<1>3. /\ \A g \in fills : g \in FillState /\ g.date <= today /\ g.date \in Nat
      /\ held \in [Tickers -> Int] /\ today \in Nat
  <2>1. \A g \in fills : g \in FillState /\ g.date <= today
    BY DEF OrdersInv, IInv, TypeOK, FirstCome
  <2>2. held \in [Tickers -> Int] /\ today \in Nat
    BY FeedDates DEF OrdersInv, IInv, TypeOK
  <2> QED BY <2>1, <2>2, FillValues
<1>4. d \in Feed /\ d \in Nat \ {0} /\ d > today /\ \A e \in Feed : e > today => d <= e
  BY FeedDates DEF EventDate
<1>5. \A g \in fills : g.date # d
  BY <1>3, <1>4
<1>6. \A t, e : e > today => DayFills(fills, t, e) = {}
  BY <1>3 DEF DayFills
<1>7. ASSUME NEW t \in Tickers PROVE held'[t] = Replay(fills, t, d)
  <2>1. PICK F : F = fills
    OBVIOUS
  <2>2. PICK m \in Nat : m = today
    BY <1>3
  <2>3. PICK h \in Int : h = held[t]
    BY <1>3
  <2>4. Replay(F, t, m) = h
    BY <2>1, <2>2, <2>3 DEF BooksInv
  <2>5. d - 1 \in Nat /\ m <= d - 1
    BY <1>4, <2>2
  <2>6. \A e \in (m + 1)..(d - 1) : e \notin Feed /\ TradedOn(F, t, e) = 0
    <3>1. ASSUME NEW e \in (m + 1)..(d - 1) PROVE e \notin Feed /\ DayFills(F, t, e) = {}
      <4>1. e \in Nat /\ e > today /\ e < d /\ ~(d <= e)
        BY <1>4, <2>2
      <4>2. e \notin Feed
        BY <1>4, <4>1
      <4> QED BY <1>6, <2>1, <4>1, <4>2
    <3> QED BY <3>1, NetEmpty DEF TradedOn
  <2>7. Replay(F, t, d - 1) = h
    BY <2>4, <2>5, <2>6, ReplayIdle
  <2>8. TradedOn(F, t, d) = 0
    <3>1. DayFills(F, t, d) = {}
      BY <1>4, <1>6, <2>1
    <3> QED BY <3>1, NetEmpty DEF TradedOn
  <2>9. Replay(F, t, d) = Adjusted(t, h, d) + 0
    BY <1>4, <2>7, <2>8, ReplayDay
  <2>10. Adjusted(t, h, d) = SplitShares(t, ActionsOn(d))
    <3>1. CASE \E a \in ActionsOn(d) : a.ticker = t
      <4>1. PICK a \in ActionsOn(d) : a.ticker = t
        BY <3>1
      <4>2. a \in CorporateActions /\ a.date = d
        BY DEF ActionsOn
      <4>3. \A b \in ActionsOn(d) : b.ticker = t => b = a
        BY <1>1, <4>1, <4>2, ActionsAssumption DEF ActionsAssumption, ActionsOn
      <4>4. {b \in ActionsOn(d) : b.ticker = t /\ d \in Feed} = {a}
        BY <1>4, <4>1, <4>3
      <4>5. (CHOOSE x \in {b \in ActionsOn(d) : b.ticker = t /\ d \in Feed} : TRUE) = a
        BY <4>4
      <4>6. (CHOOSE x \in ActionsOn(d) : x.ticker = t) = a
        BY <4>1, <4>3
      <4>7. Adjusted(t, h, d) = (h * a.num) \div a.den
        BY <4>4, <4>5 DEF Adjusted
      <4> QED BY <2>3, <3>1, <4>6, <4>7 DEF SplitShares
    <3>2. CASE ~ \E a \in ActionsOn(d) : a.ticker = t
      BY <2>3, <3>2 DEF SplitShares, Adjusted
    <3> QED BY <3>1, <3>2
  <2>11. Adjusted(t, h, d) + 0 = Adjusted(t, h, d)
    BY AdjustedTyped
  <2> QED BY <1>1, <2>1, <2>9, <2>10, <2>11
<1>8. ASSUME NEW t \in Tickers
      PROVE  volume'[t] + Shares(DayFills(fills, t, d)) = Capacity(bars'[t])
  <2>1. DayFills(fills, t, d) = {}
    BY <1>4, <1>6
  <2>2. Capacity(bars'[t]) \in Nat
    BY <1>2, CapacityTyped
  <2> QED BY <1>2, <2>1, <2>2, SharesEmpty
<1>9. \A j \in DOMAIN orders' : orders'[j].filled = Shares(FillsOf(fills', j))
  BY <1>2 DEF BooksInv
<1>10. cash' = Config.initial_cash + Flow(fills')
  BY <1>2 DEF BooksInv
<1>11. /\ IsFiniteSet(fills') /\ \A g \in fills' : g.date = today' => g.order \notin queue'
       /\ \A t \in Tickers : held'[t] = Replay(fills', t, today')
       /\ \A t \in Tickers : volume'[t] + Shares(DayFills(fills', t, today')) = Capacity(bars'[t])
  <2>1. IsFiniteSet(fills') /\ fills' = fills
    BY <1>2 DEF BooksInv
  <2> QED BY <1>1, <1>5, <1>7, <1>8, <2>1
<1> QED BY <1>9, <1>10, <1>11 DEF BooksInv

LEMMA InitBooks == Init => BooksInv
<1> SUFFICES ASSUME Init PROVE BooksInv
  OBVIOUS
<1>1. /\ fills = {} /\ cash = Config.initial_cash /\ held = [t \in Tickers |-> 0]
      /\ orders = << >> /\ volume = [t \in Tickers |-> 0] /\ bars = [t \in Tickers |-> NoBar]
      /\ today = 0
  BY DEF Init
<1>2. Flow(fills) = 0 /\ \A t : Replay(fills, t, today) = 0
  BY <1>1, FlowEmpty, ReplayNothing
<1>3. ASSUME NEW t \in Tickers PROVE volume[t] + Shares(DayFills(fills, t, today)) = Capacity(bars[t])
  <2>1. DayFills(fills, t, today) = {}
    BY <1>1 DEF DayFills
  <2>2. Shares(DayFills(fills, t, today)) = 0
    BY <2>1, SharesEmpty
  <2>3. Capacity(bars[t]) = 0
    <3>1. bars[t] = NoBar
      BY <1>1
    <3> QED BY <3>1 DEF Capacity
  <2>4. volume[t] = 0
    BY <1>1
  <2> QED BY <2>2, <2>3, <2>4
<1>4. Config.initial_cash \in Int
  BY ConfigAssumption DEF ConfigAssumption
<1> QED BY <1>1, <1>2, <1>3, <1>4, FS_EmptySet DEF BooksInv

(* Orders that join are untouched, and none of today's fills is theirs.    *)
LEMMA BatchKeepsBooks ==
  ASSUME OrdersInv, BooksInv, UNCHANGED <<fills, cash, held, today, bars, volume>>,
         NEW new, NEW signal, Batch(new, signal), \A k \in DOMAIN orders : k[1] < today,
         \A f \in fills : f.date = today => f.order \notin queue'
  PROVE  BooksInv'
<1>1. \A k \in DOMAIN new : k \notin DOMAIN orders
  <2>1. \A k \in DOMAIN new : k[1] = today
    BY DEF Batch
  <2>2. today \in Nat
    BY FeedDates DEF OrdersInv, IInv, TypeOK
  <2> QED BY <2>1, <2>2
<1>2. \A j \in DOMAIN orders' :
        orders'[j].filled = IF j \in DOMAIN orders THEN orders[j].filled ELSE 0
  BY <1>1 DEF Batch
<1> QED BY <1>2, QuietKeepsBooks

LEMMA BooksStep == OrdersInv /\ BooksInv /\ [Next]_vars => BooksInv'
<1> SUFFICES ASSUME OrdersInv, BooksInv, [Next]_vars PROVE BooksInv'
  OBVIOUS
<1>1. CASE BeginSession
  BY <1>1, BeginKeepsBooks
<1>2. ASSUME UNCHANGED <<fills, cash, held, today, bars, volume, orders, queue>>
      PROVE  BooksInv'
  <2>1. \A j \in DOMAIN orders' :
          orders'[j].filled = IF j \in DOMAIN orders THEN orders[j].filled ELSE 0
    BY <1>2
  <2>2. \A f \in fills : f.date = today => f.order \notin queue'
    BY <1>2 DEF BooksInv
  <2> QED BY <1>2, <2>1, <2>2, QuietKeepsBooks
<1>3. CASE AbortOnCorporateAction
  BY <1>2, <1>3 DEF AbortOnCorporateAction, portfolioVars, orderVars, tradeVars
<1>4. CASE EndSession
  BY <1>2, <1>4 DEF EndSession, orderVars, tradeVars
<1>5. CASE UNCHANGED vars
  BY <1>2, <1>5 DEF vars, portfolioVars, sessionVars, orderVars, tradeVars
<1>6. CASE QueueOpenOrders
  <2>1. UNCHANGED <<fills, cash, held, today, bars, volume>> /\ phase = "targets"
    BY <1>6 DEF QueueOpenOrders, tradeVars
  <2>2. \A f \in fills : f.date # today
    BY <2>1 DEF OrdersInv, FirstCome
  <2>3. CASE Due
    <3>1. PICK new : Batch(new, pending.signal)
      BY <1>6, <2>3, QueueBatch DEF OrdersInv
    <3>2. \A k \in DOMAIN orders : k[1] < today
      BY <2>1 DEF OrdersInv, Batches
    <3> QED BY <2>1, <2>2, <3>1, <3>2, BatchKeepsBooks
  <2>4. CASE ~Due
    <3>1. \A j \in DOMAIN orders' :
            orders'[j].filled = IF j \in DOMAIN orders THEN orders[j].filled ELSE 0
      BY <1>6, <2>4 DEF QueueOpenOrders
    <3> QED BY <2>1, <2>2, <3>1, QuietKeepsBooks
  <2> QED BY <2>3, <2>4
<1>7. ASSUME NEW k \in queue, Attempts(k) PROVE BooksInv'
  <2>1. CASE FillOrder(k)
    BY <2>1, FillKeepsBooks
  <2>2. CASE ~FillOrder(k)
    <3>1. Iteration(k)
      BY <1>7, EveryAttemptIterates DEF OrdersInv
    <3>2. queue' = queue \ {k} /\ DOMAIN orders' = DOMAIN orders
          /\ \A j \in DOMAIN orders : j # k => orders'[j] = orders[j]
      BY <3>1 DEF Iteration
    <3>3. UNCHANGED <<fills, cash, held, today, bars, volume>>
          /\ (k \in DOMAIN orders => orders'[k].filled = orders[k].filled)
      <4>1. CASE SkipTerminal(k)
        BY <4>1 DEF SkipTerminal, portfolioVars, sessionVars, tradeVars
      <4>2. CASE Failing(k)
        <5>1. PICK o : Attempting(k) /\ AttemptedAs(orders[k], o) /\ NoFill(k, o)
          BY <4>2 DEF Failing
        <5>2. OrderType(o) /\ o.filled = orders[k].filled
          BY <5>1 DEF AttemptedAs
        <5>3. Expire(o).filled = o.filled
          BY <5>2, ExpireShape
        <5>4. /\ orders' = [orders EXCEPT ![k] = Expire(o)]
              /\ UNCHANGED <<fills, cash, held, today, bars, volume>>
          BY <5>1 DEF NoFill, Conclude, portfolioVars, sessionVars, tradeVars
        <5> QED BY <5>2, <5>3, <5>4
      <4> QED BY <1>7, <2>2, <4>1, <4>2, FailingAttempts DEF Attempts, OrdersInv
    <3>4. \A j \in DOMAIN orders' :
            orders'[j].filled = IF j \in DOMAIN orders THEN orders[j].filled ELSE 0
      BY <3>2, <3>3
    <3>5. \A f \in fills : f.date = today => f.order \notin queue'
      BY <3>2 DEF BooksInv
    <3> QED BY <3>3, <3>4, <3>5, QuietKeepsBooks
  <2> QED BY <2>1, <2>2
<1>8. CASE RunStrategy
  <2>1. UNCHANGED <<fills, cash, held, today, bars, volume>> /\ phase = "open"
    BY <1>8 DEF RunStrategy, tradeVars
  <2>2. CASE UNCHANGED <<orders, queue>>
    BY <1>2, <2>1, <2>2
  <2>3. ASSUME Config.execution_price = "same_close",
               NEW new, Batch(new, today), queue' = DOMAIN new
        PROVE  BooksInv'
    <3>1. \A k \in DOMAIN orders : k[1] < today
      BY <2>1, <2>3 DEF OrdersInv, Batches
    <3>2. \A f \in fills : f.order \in DOMAIN orders
      BY DEF OrdersInv, FirstCome
    <3>3. \A k \in queue' : k[1] = today
      BY <2>3 DEF Batch
    <3>4. \A f \in fills : f.order \notin queue'
      <4>1. today \in Nat
        BY FeedDates DEF OrdersInv, IInv, TypeOK
      <4> QED BY <3>1, <3>2, <3>3, <4>1
    <3> QED BY <2>1, <2>3, <3>1, <3>4, BatchKeepsBooks
  <2> QED BY <1>8, <2>2, <2>3, StrategyCases DEF OrdersInv
<1> QED BY <1>1, <1>3, <1>4, <1>5, <1>6, <1>7, <1>8, StepCases

LEMMA BooksInvHolds == Spec => [](OrdersInv /\ BooksInv)
<1>1. Init => BooksInv
  BY InitBooks
<1>2. OrdersInv /\ BooksInv /\ [Next]_vars => BooksInv'
  BY BooksStep
<1> QED BY <1>1, <1>2, OrdersInvHolds, PTL DEF Spec

(* The audit trail explains the run: replaying the fills and splits of     *)
(* result.fills gives Portfolio.cash, every position and every order's     *)
(* filled quantity, however often orders were attempted in between.        *)
THEOREM BooksExplained == Spec => []FillsExplainBooks
<1>1. OrdersInv /\ BooksInv => FillsExplainBooks
  <2> SUFFICES ASSUME OrdersInv, BooksInv PROVE FillsExplainBooks
    OBVIOUS
  <2>1. cash = Config.initial_cash + MapThenSumSet(CashFlow, fills)
    BY DEF BooksInv, Flow
  <2>2. \A t \in Tickers : held[t] = Replayed(t)
    BY ReplayedIsReplay DEF BooksInv
  <2>3. \A k \in DOMAIN orders :
          orders[k].filled = MapThenSumSet(LAMBDA f : f.quantity, {f \in fills : f.order = k})
    BY DEF BooksInv, Shares, FillsOf
  <2> QED BY <2>1, <2>2, <2>3 DEF FillsExplainBooks
<1> QED BY <1>1, BooksInvHolds, PTL

(* SimulatedBroker's volume_remaining: whatever the orders of a session on *)
(* one ticker trade, carried or new, at the open and at the close, stays   *)
(* within the one cap floor(volume * participation) of that session.       *)
THEOREM VolumeShared == Spec => []VolumeCapShared
<1>1. OrdersInv /\ BooksInv => VolumeCapShared
  <2> SUFFICES ASSUME OrdersInv, BooksInv,
                      NEW t \in Tickers
               PROVE  Shares(DayFills(fills, t, today)) <= Capacity(bars[t])
    BY DEF VolumeCapShared, Shares, DayFills
  <2>1. volume[t] \in Nat
    BY DEF OrdersInv, IInv, TypeOK
  <2>2. PICK D : D = DayFills(fills, t, today)
    OBVIOUS
  <2>3. IsFiniteSet(D) /\ \A f \in D : f \in FillState
    <3>1. D \subseteq fills
      BY <2>2 DEF DayFills
    <3> QED BY <3>1, FS_Subset DEF BooksInv, OrdersInv, IInv, TypeOK
  <2>4. PICK G : G = [f \in D |-> f.quantity]
    OBVIOUS
  <2>5. \A f \in D : G[f] \in Int
    BY <2>3, <2>4, FillValues
  <2>6. Shares(D) \in Int
    BY <2>3, <2>4, <2>5, SharesTotal, TotalTyped
  <2>7. volume[t] + Shares(D) = Capacity(bars[t])
    BY <2>2 DEF BooksInv
  <2> QED BY <2>1, <2>2, <2>6, <2>7
<1> QED BY <1>1, BooksInvHolds, PTL
-----------------------------------------------------------------------------
(* Orders on the way to a target                                           *)

(* The shares the open orders among S still have to trade.                 *)
Owed(o, S) == MapThenSumSet(LAMBDA j : Signed(o[j], Remaining(o[j])), S)
OpenOn(o, t) == {j \in DOMAIN o : IsOpen(o[j]) /\ j[2] = t}
Owing(o, j) == Signed(o[j], Remaining(o[j]))

LEMMA OwedTotal ==
  ASSUME NEW o, NEW S, IsFiniteSet(S)
  PROVE  Owed(o, S) = Total([j \in S |-> Owing(o, j)], S)
<1>1. PICK G : G = [j \in S |-> Owing(o, j)]
  OBVIOUS
<1>2. \A s \in SUBSET S : s # {} => Chosen(s) \in S
  BY ChosenIn
<1> DEFINE P(h) == h = [s \in SUBSET S |->
                          IF s = {} THEN 0 ELSE Owing(o, Chosen(s)) + h[s \ {Chosen(s)}]]
           g == CHOOSE h : P(h)
<1>3. \A h : IsSum(G, S, h) <=> P(h)
  BY <1>1, <1>2 DEF IsSum
<1>4. \E h : P(h)
  BY <1>3, SumExists
<1>5. IsSum(G, S, g)
  <2> HIDE DEF P
  <2> QED BY <1>3, <1>4
<1>6. Owed(o, S) = g[S]
  BY DEF Owed, Owing, MapThenSumSet, MapThenFoldSet, Chosen
<1>7. PICK h : IsSum(G, S, h) /\ Total(G, S) = h[S]
  BY TotalIsSum
<1> HIDE DEF g
<1>8. g[S] = h[S]
  BY <1>5, <1>7, SumUnique
<1> QED BY <1>1, <1>6, <1>7, <1>8

LEMMA OwedTyped ==
  ASSUME NEW o, NEW S, IsFiniteSet(S), \A j \in S : Owing(o, j) \in Int
  PROVE  Owed(o, S) \in Int
<1>1. PICK G : G = [j \in S |-> Owing(o, j)]
  OBVIOUS
<1>2. \A j \in S : G[j] \in Int
  BY <1>1
<1> QED BY <1>1, <1>2, OwedTotal, TotalTyped

LEMMA OwedAdds ==
  ASSUME NEW o, NEW p, NEW S, IsFiniteSet(S), NEW x, x \notin S, \A j \in S : p[j] = o[j],
         \A j \in S \union {x} : Owing(p, j) \in Int
  PROVE  Owed(p, S \union {x}) = Owed(o, S) + Owing(p, x)
<1>1. PICK G : G = [j \in S |-> Owing(o, j)]
  OBVIOUS
<1>2. PICK H : H = [j \in S \union {x} |-> Owing(p, j)]
  OBVIOUS
<1>3. IsFiniteSet(S \union {x})
  BY FS_AddElement
<1>4. Owed(o, S) = Total(G, S) /\ Owed(p, S \union {x}) = Total(H, S \union {x})
  BY <1>1, <1>2, <1>3, OwedTotal
<1>5. (\A j \in S : G[j] = H[j]) /\ (\A j \in S \union {x} : H[j] \in Int)
  BY <1>1, <1>2 DEF Owing
<1>6. H[x] = Owing(p, x)
  BY <1>2
<1>7. Total(G, S) \in Int /\ Total(H, S \union {x}) = Total(G, S) + H[x]
  BY <1>5, TotalExtends
<1> QED BY <1>4, <1>6, <1>7

(* The market value of integer holdings is an integer.                     *)
LEMMA GrossTyped ==
  ASSUME IsFiniteSet(Tickers), NEW marks \in [Tickers -> Nat], NEW shares \in [Tickers -> Int]
  PROVE  Gross(marks, shares) \in Int
<1>1. PICK G : G = [t \in Tickers |-> marks[t] * shares[t]]
  OBVIOUS
<1>2. \A s \in SUBSET Tickers : s # {} => Chosen(s) \in Tickers
  BY ChosenIn
<1> DEFINE P(h) == h = [s \in SUBSET Tickers |->
                          IF s = {} THEN 0
                          ELSE marks[Chosen(s)] * shares[Chosen(s)] + h[s \ {Chosen(s)}]]
           g == CHOOSE h : P(h)
<1>3. \A h : IsSum(G, Tickers, h) <=> P(h)
  <2>1. \A s \in SUBSET Tickers : s # {} => G[Chosen(s)] = marks[Chosen(s)] * shares[Chosen(s)]
    BY <1>1, <1>2
  <2> QED BY <2>1, Zenon DEF IsSum
<1>4. \E h : P(h)
  BY <1>3, SumExists
<1>5. IsSum(G, Tickers, g)
  <2> HIDE DEF P
  <2> QED BY <1>3, <1>4
<1>6. Gross(marks, shares) = g[Tickers]
  BY DEF Gross, MapThenSumSet, MapThenFoldSet, Chosen
<1> HIDE DEF g
<1>7. \A t \in Tickers : G[t] \in Int
  BY <1>1
<1>8. g[Tickers] \in Int
  BY <1>5, <1>7, SumTyped
<1> QED BY <1>6, <1>8

(* What a target amounts to in shares.                                     *)
LEMMA DesiredTyped ==
  ASSUME IsFiniteSet(Tickers), IInv, NEW targets \in Targets, NEW column \in {"open", "close"},
         NEW t \in Tickers, bars[t] # NoBar
  PROVE  Desired(targets, t, column) \in Int
<1>1. PICK value \in Int : value = cash + Gross(MarkedAt(column), held)
  BY MarkedTyped, GrossTyped DEF IInv, TypeOK
<1>2. PICK weight \in Int : weight = Weight(targets, t)
  BY TargetsAssumption DEF TargetsAssumption, Weight
<1>3. PICK price \in Nat \ {0} : price = bars[t][column]
  BY BarPrices DEF IInv, TypeOK
<1>4. PICK whole \in Int : whole = value * weight
  OBVIOUS
<1>5. 100 * price \in Nat \ {0}
  OBVIOUS
<1>6. whole \div (100 * price) \in Int
  BY <1>5
<1> QED BY <1>1, <1>2, <1>3, <1>4, <1>6 DEF Desired

(* A new order makes up the difference to its aim.                         *)
LEMMA NewOrdersAim ==
  ASSUME IsFiniteSet(Tickers), IInv, today \in Feed, NEW targets \in Targets, NEW signal,
         NEW column \in {"open", "close"}, NEW ids,
         \A t \in Tickers : Outstanding(t, ids) \in Int,
         NEW k \in DOMAIN NewOrders(targets, signal, column, ids)
  PROVE  LET o == NewOrders(targets, signal, column, ids)[k] IN
         /\ k[2] \in Tickers /\ o.aim \in Int
         /\ Signed(o, Remaining(o)) \in Int
         /\ Outstanding(k[2], ids) + Signed(o, Remaining(o)) <= o.aim
<1> DEFINE eligible == {t \in Positions \union DOMAIN targets :
                          (t \in universe \/ t \in DOMAIN targets) /\ bars[t] # NoBar}
           delta(t) == Desired(targets, t, column) - Projected(t, ids)
           side(t) == IF delta(t) > 0 THEN "buy" ELSE "sell"
           order(t) == [side |-> side(t),
                        quantity |-> IF delta(t) > 0 THEN delta(t) ELSE -delta(t),
                        filled |-> 0,
                        status |-> IF t \in universe THEN "pending" ELSE "rejected",
                        reference |-> bars[t][column],
                        limit |-> IF Config.order_type = "market" THEN 0
                                  ELSE LimitPrice(side(t), bars[t][column]),
                        attempted |-> 0, reason |-> "none",
                        aim |-> Desired(targets, t, column), signal |-> signal]
           due == {t \in eligible : order(t).quantity \in Nat \ {0}}
           new == NewOrders(targets, signal, column, ids)
<1>1. new = [j \in {<<today, t>> : t \in due} |-> order(j[2])]
  BY DEF NewOrders
<1>2. PICK t \in due : k = <<today, t>>
  BY <1>1
<1>3. t \in Tickers /\ bars[t] # NoBar
  <2>1. Positions \subseteq Tickers
    BY DEF Positions, IInv, TypeOK, FillState, OrderIds
  <2>2. DOMAIN targets \subseteq Tickers
    BY TargetsAssumption DEF TargetsAssumption
  <2> QED BY <2>1, <2>2
<1>4. PICK aim \in Int : aim = Desired(targets, t, column)
  BY <1>3, DesiredTyped
<1>5. PICK out \in Int : out = Outstanding(t, ids)
  BY <1>3
<1>6. PICK reach \in Int : reach = Projected(t, ids) /\ out <= reach
  <2>1. Projected(t, ids) = IF 0 >= out THEN 0 ELSE out
    BY <1>5, MaxPair DEF Projected
  <2> QED BY <2>1
<1>7. PICK o : o = order(t)
  OBVIOUS
<1>8. /\ o.side = IF aim - reach > 0 THEN "buy" ELSE "sell"
      /\ o.quantity = IF aim - reach > 0 THEN aim - reach ELSE -(aim - reach)
      /\ o.filled = 0 /\ o.aim = aim
  BY <1>4, <1>6, <1>7
<1>9. Remaining(o) = o.quantity /\ o.quantity \in Int
  BY <1>8 DEF Remaining
<1>10. Signed(o, Remaining(o)) = aim - reach
  BY <1>8, <1>9 DEF Signed
<1> HIDE DEF due, order
<1>11. new[k] = o /\ k[2] = t
  BY <1>1, <1>2, <1>7
<1> HIDE DEF new
<1>12. /\ k[2] \in Tickers /\ new[k].aim \in Int /\ Signed(new[k], Remaining(new[k])) \in Int
       /\ Outstanding(k[2], ids) + Signed(new[k], Remaining(new[k])) <= new[k].aim
  BY <1>3, <1>5, <1>6, <1>8, <1>10, <1>11
<1> QED BY <1>12 DEF new

(* No more than finitely many orders so far.                               *)
LEMMA OrdersFinite ==
  ASSUME IsFiniteSet(Tickers), OrdersInv
  PROVE  IsFiniteSet(DOMAIN orders)
<1>1. today \in Nat
  BY FeedDates DEF OrdersInv, IInv, TypeOK
<1>2. IsFiniteSet(1..today)
  BY <1>1, FS_Interval
<1>3. IsFiniteSet((1..today) \X Tickers)
  BY <1>2, FS_Product
<1>4. DOMAIN orders \subseteq (1..today) \X Tickers
  <2>1. ASSUME NEW k \in DOMAIN orders PROVE k \in (1..today) \X Tickers
    <3>1. PICK d \in Feed : \E t \in Tickers : k = <<d, t>>
      BY DEF OrdersInv, IInv, TypeOK, OrderIds
    <3>2. PICK t \in Tickers : k = <<d, t>>
      BY <3>1
    <3>3. d <= today /\ d \in Nat \ {0}
      BY <3>2, FeedDates DEF OrdersInv, Batches
    <3>4. d \in 1..today
      BY <1>1, <3>3
    <3> QED BY <3>2, <3>4
  <2> QED BY <2>1
<1> QED BY <1>3, <1>4, FS_Subset

(* The step that NoDuplicateOrders allows.                                 *)
NoDuplicateStep ==
  \A k \in DOMAIN orders' \ DOMAIN orders :
    IsOpen(orders'[k]) => held[k[2]] + Owed(orders', OpenOn(orders', k[2])) <= orders'[k].aim

LEMMA BatchDuplicatesNothing ==
  ASSUME IsFiniteSet(Tickers), OrdersInv, today \in Feed, \A k \in DOMAIN orders : k[1] < today,
         NEW targets \in Targets, NEW signal \in Feed, NEW column \in {"open", "close"},
         \A k \in DOMAIN orders : IsOpen(orders[k]) <=> k \in working /\ IsOpen(orders[k]),
         orders' = WithOrders(NewOrders(targets, signal, column, working))
  PROVE  NoDuplicateStep
<1>1. PICK o : o = orders
  OBVIOUS
<1>2. PICK p : p = orders'
  OBVIOUS
<1>3. PICK new : new = NewOrders(targets, signal, column, working)
  OBVIOUS
<1>4. IInv /\ working \subseteq DOMAIN orders
  BY DEF OrdersInv, IInv, TypeOK
<1>5. Batch(new, signal)
  BY <1>3, <1>4, BatchOf
<1>6. /\ DOMAIN p = DOMAIN o \union DOMAIN new
      /\ \A j \in DOMAIN p : p[j] = IF j \in DOMAIN new THEN new[j] ELSE o[j]
      /\ \A j \in DOMAIN new : j \in OrderIds /\ j[1] = today
  BY <1>1, <1>2, <1>5 DEF Batch
<1>7. \A j \in DOMAIN new : j \notin DOMAIN o
  <2>1. today \in Nat
    BY FeedDates
  <2> QED BY <1>1, <1>6, <2>1
<1>8. \A j \in DOMAIN o : Owing(o, j) \in Int
  BY <1>1, <1>4 DEF Owing, Signed, Remaining, IInv, TypeOK, OrderType
<1>9. IsFiniteSet(DOMAIN o)
  BY <1>1, OrdersFinite
<1>10. ASSUME NEW t \in Tickers
       PROVE  /\ IsFiniteSet(OpenOn(o, t)) /\ Owed(o, OpenOn(o, t)) \in Int
              /\ Outstanding(t, working) = held[t] + Owed(o, OpenOn(o, t))
              /\ Outstanding(t, working) \in Int
  <2>1. OpenOn(o, t) \subseteq DOMAIN o
    BY DEF OpenOn
  <2>2. IsFiniteSet(OpenOn(o, t))
    BY <1>9, <2>1, FS_Subset
  <2>3. \A j \in OpenOn(o, t) : Owing(o, j) \in Int
    BY <1>8, <2>1
  <2>4. Owed(o, OpenOn(o, t)) \in Int
    BY <2>2, <2>3, OwedTyped
  <2>5. {k \in working : IsOpen(orders[k]) /\ k[2] = t} = OpenOn(o, t)
    BY <1>1, <1>4 DEF OpenOn
  <2>6. Outstanding(t, working) = held[t] + Owed(o, OpenOn(o, t))
    <3>1. Outstanding(t, working)
            = held[t] + Owed(orders, {k \in working : IsOpen(orders[k]) /\ k[2] = t})
      BY DEF Outstanding, Owed
    <3> QED BY <1>1, <2>5, <3>1
  <2>7. held[t] \in Int
    BY <1>4 DEF IInv, TypeOK
  <2> QED BY <2>2, <2>4, <2>6, <2>7
<1>11. ASSUME NEW k \in DOMAIN p \ DOMAIN o, IsOpen(p[k])
       PROVE  held[k[2]] + Owed(p, OpenOn(p, k[2])) <= p[k].aim
  <2>1. k \in DOMAIN new /\ p[k] = new[k]
    BY <1>6, <1>11
  <2>2. PICK t \in Tickers : t = k[2]
    BY <1>6, <2>1 DEF OrderIds
  <2>3. /\ p[k].aim \in Int /\ Owing(p, k) \in Int
        /\ Outstanding(t, working) + Owing(p, k) <= p[k].aim
    <3>1. \A u \in Tickers : Outstanding(u, working) \in Int
      BY <1>10
    <3> QED BY <1>3, <1>4, <2>1, <2>2, <3>1, NewOrdersAim DEF Owing
  <2>4. PICK S : S = OpenOn(o, t)
    OBVIOUS
  <2>5. OpenOn(p, t) = S \union {k} /\ k \notin S
    <3>1. \A j \in DOMAIN new : j[2] = t => j = k
      <4>1. ASSUME NEW j \in DOMAIN new, j[2] = t PROVE j = k
        <5>1. j \in OrderIds /\ k \in OrderIds /\ j[1] = k[1] /\ j[2] = k[2]
          BY <1>6, <2>1, <2>2, <4>1
        <5> QED BY <5>1 DEF OrderIds
      <4> QED BY <4>1
    <3>2. \A j \in DOMAIN p : j = k \/ j \in DOMAIN o \/ (j \in DOMAIN new /\ j[2] # t)
      BY <1>6, <3>1
    <3>3. \A j \in DOMAIN o : j \in DOMAIN p /\ p[j] = o[j]
      BY <1>6, <1>7
    <3>4. \A j \in DOMAIN p : j \in OpenOn(p, t) <=> j = k \/ j \in S
      BY <1>11, <2>2, <2>4, <3>2, <3>3, <1>7 DEF OpenOn
    <3>5. k \notin S /\ S \subseteq DOMAIN p
      BY <1>11, <2>4, <3>3 DEF OpenOn
    <3> QED BY <3>4, <3>5 DEF OpenOn
  <2>6. \A j \in S : p[j] = o[j] /\ Owing(p, j) \in Int
    <3>1. \A j \in S : j \in DOMAIN o
      BY <2>4 DEF OpenOn
    <3> QED BY <1>6, <1>7, <1>8, <3>1 DEF Owing
  <2>7. Owed(p, S \union {k}) = Owed(o, S) + Owing(p, k)
    <3>1. IsFiniteSet(S) /\ k \notin S /\ \A j \in S : p[j] = o[j]
      BY <1>10, <2>4, <2>5, <2>6
    <3>2. \A j \in S \union {k} : Owing(p, j) \in Int
      BY <2>3, <2>6
    <3> QED BY <3>1, <3>2, OwedAdds
  <2>8. PICK h \in Int, s \in Int, w \in Int, a \in Int :
          h = held[t] /\ s = Owed(o, S) /\ w = Owing(p, k) /\ a = p[k].aim
    BY <1>4, <1>10, <2>3, <2>4 DEF IInv, TypeOK
  <2>9. (h + s) + w <= a
    BY <1>10, <2>3, <2>4, <2>8
  <2>10. h + (s + w) <= a
    BY <2>9
  <2> QED BY <2>2, <2>5, <2>7, <2>8, <2>10
<1> QED BY <1>1, <1>2, <1>11 DEF NoDuplicateStep

LEMMA StepDuplicatesNothing ==
  ASSUME IsFiniteSet(Tickers), OrdersInv, [Next]_vars
  PROVE  NoDuplicateStep \/ UNCHANGED orders
<1>1. ASSUME DOMAIN orders' = DOMAIN orders PROVE NoDuplicateStep
  BY <1>1 DEF NoDuplicateStep
<1>2. CASE BeginSession
  BY <1>2 DEF BeginSession, orderVars
<1>3. CASE AbortOnCorporateAction
  BY <1>3 DEF AbortOnCorporateAction, orderVars
<1>4. CASE QueueOpenOrders
  <2>1. CASE ~Due
    BY <1>4, <2>1 DEF QueueOpenOrders
  <2>2. CASE Due
    <3>1. phase = "targets" /\ today \in Feed /\ pending.targets \in Targets
          /\ pending.signal \in Feed /\ queue = {}
      BY <1>4, <2>2 DEF QueueOpenOrders, OrdersInv, IInv, Started, TypeOK, PendingState, Due, Carried
    <3>2. \A k \in DOMAIN orders : k[1] < today
      BY <3>1 DEF OrdersInv, Batches
    <3>3. \A k \in DOMAIN orders : IsOpen(orders[k]) <=> k \in working /\ IsOpen(orders[k])
      BY <3>1 DEF OrdersInv, Carried, OpenOrdersCarried
    <3>4. orders' = WithOrders(NewOrders(pending.targets, pending.signal, "open", working))
      BY <1>4, <2>2 DEF QueueOpenOrders
    <3> QED BY <3>1, <3>2, <3>3, <3>4, BatchDuplicatesNothing
  <2> QED BY <2>1, <2>2
<1>5. ASSUME NEW k \in queue, Attempts(k) PROVE NoDuplicateStep
  BY <1>1, <1>5, EveryAttemptIterates DEF OrdersInv, Iteration
<1>6. CASE RunStrategy
  <2>1. phase = "open" /\ today \in Feed /\ queue = {}
    BY <1>6 DEF RunStrategy, OrdersInv, IInv, Started
  <2>2. CASE UNCHANGED orders
    BY <2>2
  <2>3. ASSUME Config.execution_price = "same_close", NEW targets \in Targets,
               orders' = WithOrders(NewOrders(targets, today, "close", working))
        PROVE  NoDuplicateStep
    <3>1. \A k \in DOMAIN orders : k[1] < today
      BY <2>1, <2>3 DEF OrdersInv, Batches
    <3>2. \A k \in DOMAIN orders : IsOpen(orders[k]) <=> k \in working /\ IsOpen(orders[k])
      BY <2>1 DEF OrdersInv, Carried, OpenOrdersCarried
    <3> QED BY <2>1, <2>3, <3>1, <3>2, BatchDuplicatesNothing
  <2> QED BY <1>6, <2>2, <2>3 DEF RunStrategy
<1>7. CASE EndSession
  BY <1>7 DEF EndSession, orderVars
<1>8. CASE UNCHANGED vars
  BY <1>8 DEF vars, orderVars
<1> QED BY <1>2, <1>3, <1>4, <1>5, <1>6, <1>7, <1>8, StepCases

(* _orders_from_targets never orders the same shares twice: when an order  *)
(* is made, the ticker's holding and all open remainders, the new order's  *)
(* among them, add up to no more than its target, whatever the orders of   *)
(* earlier rebalances still have to trade.                                 *)
THEOREM NothingOrderedTwice ==
  ASSUME IsFiniteSet(Tickers)
  PROVE  Spec => NoDuplicateOrders
<1>1. OrdersInv /\ [Next]_vars => [NoDuplicateStep]_orders
  BY StepDuplicatesNothing
<1>2. NoDuplicateOrders <=> [][NoDuplicateStep]_orders
  BY DEF NoDuplicateOrders, NoDuplicateStep, Owed, OpenOn
<1> QED BY <1>1, <1>2, OrdersInvHolds, PTL DEF Spec
-----------------------------------------------------------------------------
(* Splits and equity                                                       *)

(* Sums of market values that agree ticker by ticker are the same.         *)
LEMMA GrossAgrees ==
  ASSUME IsFiniteSet(Tickers), NEW m, NEW s, NEW n, NEW r,
         \A t \in Tickers : m[t] * s[t] = n[t] * r[t]
  PROVE  Gross(m, s) = Gross(n, r)
<1> DEFINE P(h) == h = [u \in SUBSET Tickers |->
                          IF u = {} THEN 0 ELSE m[Chosen(u)] * s[Chosen(u)] + h[u \ {Chosen(u)}]]
           Q(h) == h = [u \in SUBSET Tickers |->
                          IF u = {} THEN 0 ELSE n[Chosen(u)] * r[Chosen(u)] + h[u \ {Chosen(u)}]]
<1>1. \A u \in SUBSET Tickers : u # {} => m[Chosen(u)] * s[Chosen(u)] = n[Chosen(u)] * r[Chosen(u)]
  BY ChosenIn
<1>2. \A h : P(h) <=> Q(h)
  <2>1. ASSUME NEW h
        PROVE  [u \in SUBSET Tickers |->
                  IF u = {} THEN 0 ELSE m[Chosen(u)] * s[Chosen(u)] + h[u \ {Chosen(u)}]]
             = [u \in SUBSET Tickers |->
                  IF u = {} THEN 0 ELSE n[Chosen(u)] * r[Chosen(u)] + h[u \ {Chosen(u)}]]
    BY <1>1, Zenon
  <2> QED BY <2>1
<1>3. (CHOOSE h : P(h)) = (CHOOSE h : Q(h))
  <2> HIDE DEF P, Q
  <2> QED BY <1>2
<1> QED BY <1>3 DEF Gross, MapThenSumSet, MapThenFoldSet, Chosen

(* Shares by the ratio and price by its inverse leave a value as it is.    *)
LEMMA SplitValue ==
  ASSUME NEW h \in Nat, NEW p \in Nat, NEW a \in Nat \ {0}, NEW b \in Nat \ {0},
         (h * a) % b = 0, (p * b) % a = 0
  PROVE  ((p * b) \div a) * ((h * a) \div b) = p * h
<1>1. PICK s \in Nat : s = (h * a) \div b
  BY ProductNat, DivNat
<1>2. PICK m \in Nat : m = (p * b) \div a
  BY ProductNat, DivNat
<1>3. h * a = b * s
  BY <1>1
<1>4. p * b = a * m
  BY <1>2
<1>5. (m * s) * (a * b) = (p * h) * (a * b)
  <2>1. (m * s) * (a * b) = (a * m) * (b * s)
    OBVIOUS
  <2>2. (p * h) * (a * b) = (p * b) * (h * a)
    OBVIOUS
  <2> QED BY <1>3, <1>4, <2>1, <2>2
<1>6. a * b \in Nat \ {0}
  OBVIOUS
<1>7. \A x \in Nat, y \in Nat, z \in Nat \ {0} : x * z = y * z => x = y
  OBVIOUS
<1>8. m * s = p * h
  BY <1>5, <1>6, <1>7
<1> QED BY <1>1, <1>2, <1>8

(* The marks the coming splits divide leave no remainder, in the unit of   *)
(* the instance; the code's decimals leave one in their 28th digit at most *)
(* and the cost basis of such a split is CostAccounting's subject.         *)
MarksDivide ==
  phase = "idle" =>
    \A d \in EventDate : \A a \in ActionsOn(d) :
      held[a.ticker] > 0 => (mark[a.ticker] * a.den) % a.num = 0

LEMMA BeginKeepsEquity ==
  ASSUME IsFiniteSet(Tickers), IInv, MarksDivide, BeginSession
  PROVE  dayStart' = Equity
<1>1. PICK d \in EventDate :
        /\ \A a \in ActionsOn(d) : a.kind = "split" /\ ~Fractional(a)
        /\ held' = [t \in Tickers |-> SplitShares(t, ActionsOn(d))]
        /\ mark' = [t \in Tickers |-> SplitMark(t, ActionsOn(d))]
  BY DEF BeginSession
<1>2. phase = "idle" /\ dayStart' = cash + Gross(mark', held')
  BY DEF BeginSession
<1>3. \A t \in Tickers : held[t] \in Nat /\ mark[t] \in Nat
  BY DEF IInv, TypeOK, NoLeverageNoShort
<1>4. ASSUME NEW t \in Tickers PROVE mark'[t] * held'[t] = mark[t] * held[t]
  <2>1. held'[t] = SplitShares(t, ActionsOn(d)) /\ mark'[t] = SplitMark(t, ActionsOn(d))
    BY <1>1
  <2>2. CASE \E a \in ActionsOn(d) : a.ticker = t
    <3>1. PICK a : a = CHOOSE x \in ActionsOn(d) : x.ticker = t
      OBVIOUS
    <3>2. a \in ActionsOn(d) /\ a.ticker = t
      BY <2>2, <3>1
    <3>3. a.num \in Nat \ {0} /\ a.den \in Nat \ {0}
      BY <3>2, ActionsAssumption DEF ActionsAssumption, ActionsOn
    <3>4. (held[t] * a.num) % a.den = 0
      BY <1>1, <3>2 DEF Fractional
    <3>5. held'[t] = (held[t] * a.num) \div a.den
      BY <2>1, <2>2, <3>1 DEF SplitShares
    <3>6. CASE held[t] > 0
      <4>1. (mark[t] * a.den) % a.num = 0
        BY <1>2, <3>2, <3>6 DEF MarksDivide
      <4>2. mark'[t] = (mark[t] * a.den) \div a.num
        BY <2>1, <2>2, <3>1, <3>6 DEF SplitMark
      <4> QED BY <1>3, <3>3, <3>4, <3>5, <4>1, <4>2, SplitValue
    <3>7. CASE held[t] = 0
      <4>1. mark'[t] = mark[t]
        BY <2>1, <3>7 DEF SplitMark
      <4>2. 0 * a.num = 0 /\ 0 \div a.den = 0
        BY <3>3
      <4>3. held'[t] = 0
        BY <3>5, <3>7, <4>2
      <4> QED BY <3>7, <4>1, <4>3
    <3> QED BY <1>3, <3>6, <3>7
  <2>3. CASE ~ \E a \in ActionsOn(d) : a.ticker = t
    BY <2>1, <2>3 DEF SplitShares, SplitMark
  <2> QED BY <2>2, <2>3
<1>5. PICK m, s, n, r : m = mark' /\ s = held' /\ n = mark /\ r = held
  OBVIOUS
<1>6. Gross(m, s) = Gross(n, r)
  BY <1>4, <1>5, GrossAgrees
<1> QED BY <1>2, <1>5, <1>6 DEF Equity

(* apply_split: as long as the marks it divides come out even, no split    *)
(* changes the equity the session's daily-loss limit is measured from.     *)
THEOREM SplitsKeepEquity ==
  ASSUME IsFiniteSet(Tickers)
  PROVE  Spec /\ []MarksDivide => SplitKeepsEquity
<1> DEFINE Kept == phase = "idle" /\ today' # today => dayStart' = Equity
<1>1. IInv /\ MarksDivide /\ [Next]_vars => [Kept]_vars
  <2> SUFFICES ASSUME IInv, MarksDivide, [Next]_vars PROVE Kept
    OBVIOUS
  <2>1. CASE BeginSession
    BY <2>1, BeginKeepsEquity
  <2>2. CASE today' = today
    BY <2>2
  <2>3. ASSUME NEW k \in queue, Attempts(k) PROVE today' = today
    BY <2>3, EveryAttemptIterates DEF Iteration
  <2>4. CASE AbortOnCorporateAction
    BY <2>4 DEF AbortOnCorporateAction
  <2> QED BY <2>1, <2>2, <2>3, <2>4, StepCases
     DEF QueueOpenOrders, RunStrategy, EndSession, vars, sessionVars
<1>2. SplitKeepsEquity <=> [][Kept]_vars
  BY DEF SplitKeepsEquity
<1> QED BY <1>1, <1>2, IInvHolds, PTL DEF Spec
=============================================================================
