-------------------------- MODULE MCBacktestEngine --------------------------
(***************************************************************************)
(* Small instances of BacktestEngine.  Prices are multiples of 10000, so   *)
(* that slippage in basis points and percentage fees divide exactly.       *)
(***************************************************************************)
EXTENDS BacktestEngine, TLC

Bar(o, h, l, c, shares, won, halt) ==
  [open |-> o, high |-> h, low |-> l, close |-> c,
   volume |-> shares, value |-> won, halted |-> halt]

OneTicker == {1}
TwoTickers == {1, 2}
ThreeSessions == 1..3
FourSessions == 1..4
(* The third day is a session without bars, the fifth a holiday.           *)
SixSessions == {1, 2, 3, 4, 6, 7}
FeedWithGap == {1, 2, 4, 6, 7}
FeedWithoutThird == {1, 2, 4}

AllListed == {{1, 2}}
OnlyListed == {{1}}
MayDelist == {{1}, {1, 2}}

NoActions == {}
SplitOnThird == {[ticker |-> 1, date |-> 3, kind |-> "split", num |-> 2, den |-> 1]}
ReverseThenDividend ==
  {[ticker |-> 1, date |-> 4, kind |-> "split", num |-> 1, den |-> 2],
   [ticker |-> 2, date |-> 7, kind |-> "split", num |-> 2, den |-> 1],
   [ticker |-> 2, date |-> 7, kind |-> "unsupported", num |-> 1, den |-> 1]}

NeverKilled == {FALSE}
MayBeKilled == BOOLEAN

Deep  == Bar(10000, 10000, 10000, 10000, 10, 1000000, FALSE)
Thin  == Bar(10000, 20000, 10000, 20000, 2, 1000000, FALSE)
Halt  == Bar(10000, 10000, 10000, 10000, 10, 1000000, TRUE)
Empty == Bar(20000, 20000, 20000, 20000, 0, 0, FALSE)
Wide  == Bar(10000, 12000, 8000, 10000, 10, 1000000, FALSE)
Narrow == Bar(10000, 10000, 10000, 10000, 3, 1000000, FALSE)

PartialBars == {Deep, Thin, Halt}
LimitBars == {Wide, Narrow, Empty}
CalmBars == {Deep, Thin}

(* Weights in percent; a ticker left out of a list gets the weight 0.      *)
OneHalf == (1 :> 50)
OneFull == (1 :> 100)
Split   == (1 :> 50 @@ 2 :> 50)
OneTickerTargets == {<< >>, OneHalf, OneFull}
TwoTickerTargets == {OneFull, Split}
RotatingTargets == {(1 :> 100), (2 :> 100), Split}

Base ==
  [initial_cash |-> 60000, execution_price |-> "next_open", order_type |-> "market",
   time_in_force |-> "gtc", limit_offset |-> 0, participation |-> 50,
   buy_rate |-> 0, sell_rate |-> 0, sell_tax |-> 0, slip_bps |-> 0, slip_fixed |-> 0]

MarketGtc == Base
MarketGtcCosts == [Base EXCEPT !.initial_cash = 80000, !.buy_rate = 1, !.sell_rate = 1, !.sell_tax = 1, !.slip_bps = 100]
MarketDay == [MarketGtcCosts EXCEPT !.time_in_force = "day", !.initial_cash = 40000]
SameCloseLimitGtc == [Base EXCEPT !.execution_price = "same_close", !.order_type = "limit",
                                  !.limit_offset = 10]

Lax ==
  [max_order_value |-> 100000000, max_positions |-> 10, max_liquidity |-> 100,
   max_turnover |-> 1000, max_single |-> 200, max_gross |-> 200,
   max_daily_loss |-> 100, max_drawdown |-> 100]
OnePosition == [Lax EXCEPT !.max_positions = 1]
=============================================================================
