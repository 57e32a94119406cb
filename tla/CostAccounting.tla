--------------------------- MODULE CostAccounting ---------------------------
(***************************************************************************)
(* Cost basis and realized profit of one position of                       *)
(* portfolio/portfolio.py, in the decimal arithmetic it is computed in:    *)
(* every product, sum and quotient is rounded to a number of significant   *)
(* digits, half to even.  The code runs with 28 digits, an instance with   *)
(* few: what a rounding can do to a comparison depends on there being one. *)
(*                                                                         *)
(* A decimal is an integer in units of 1/Scale.  Prices, fees and cash are *)
(* whole and smaller than the precision, so that they are never rounded.   *)
(* Sales below pay the same commission as purchases; marks are in          *)
(* BacktestEngine.                                                         *)
(***************************************************************************)
EXTENDS Integers

CONSTANTS
  InitialCash, Commission,
  Prices, Lots,   \* prices and sizes of the fills
  Ratios,         \* split ratios, pairs <<num, den>>
  Scale,          \* units of a decimal in 1
  Coefficients,   \* 10^digits: the coefficients of the decimal context
  Quanta,         \* powers of ten a coefficient may be multiplied by
  Tolerance,      \* units the roundings of one step may add up to
  MaxSteps        \* bound on the length of a behaviour

ASSUME AmountsAssumption ==
  /\ InitialCash \in Nat /\ Commission \in Nat
  /\ Prices \subseteq Nat \ {0} /\ Lots \subseteq Nat \ {0}
  /\ \A price \in Prices : Commission <= price
  /\ Ratios \subseteq (Nat \ {0}) \X (Nat \ {0})
ASSUME PrecisionAssumption ==
  /\ Scale \in Nat \ {0} /\ Coefficients \in Nat \ {0} /\ Quanta \subseteq Nat \ {0}
  /\ Tolerance \in Nat /\ MaxSteps \in Nat

VARIABLES
  cash,      \* Portfolio.cash
  quantity,  \* Position.quantity
  average,   \* Position.average_cost, a decimal
  realized,  \* Position.realized_pnl, a decimal
  status,    \* "open", or why the last split stopped the run
  steps      \* fills and splits so far

vars == <<cash, quantity, average, realized, status, steps>>
-----------------------------------------------------------------------------
(* The decimal context                                                     *)

Abs(n) == IF n < 0 THEN -n ELSE n

HalfEven(n, d) ==
  LET q == n \div d
      r == n % d
  IN IF 2 * r > d \/ (2 * r = d /\ q % 2 = 1) THEN q + 1 ELSE q

Fits(n, d, quantum) == Abs(n) \div quantum < d * Coefficients

(* The decimal nearest to n/d units: a coefficient times the smallest      *)
(* quantum with which the coefficients suffice.  (A number beyond all of   *)
(* Quanta, which no instance reaches, would only lose its fraction.)       *)
Smallest(n, d) ==
  {u \in Quanta : Fits(n, d, u) /\ \A v \in Quanta : Fits(n, d, v) => u <= v}

AnyOf(quanta) == IF quanta = {} THEN 1 ELSE CHOOSE u \in quanta : TRUE
Quantum(n, d) == AnyOf(Smallest(n, d))

Rounded(n, d) ==
  LET size == Quantum(n, d) * HalfEven(Abs(n), d * Quantum(n, d))
  IN IF n < 0 THEN -size ELSE size

Whole(n) == n * Scale
Times(x, n) == Rounded(x * n, 1)
Plus(x, y) == Rounded(x + y, 1)
-----------------------------------------------------------------------------
Init ==
  /\ cash = InitialCash /\ quantity = 0 /\ average = 0 /\ realized = 0
  /\ status = "open" /\ steps = 0

(* The commission left out of the cost: a mutant of WithCommission.        *)
WithoutCommission(total) == total

WithCommission(total) == Plus(total, Whole(Commission))

(* Any purchase accepted: a mutant of Affordable.                          *)
AlwaysAffordable(q, price) == TRUE

Affordable(q, price) == q * price + Commission <= cash

AverageAfter(q, price) ==
  LET gross == Plus(Times(average, quantity), Whole(q * price))
  IN Rounded(WithCommission(gross), quantity + q)

(* apply_fill of a purchase: the fees enter the weighted average cost.     *)
Buy(q, price) ==
  /\ status = "open" /\ steps < MaxSteps
  /\ Affordable(q, price)
  /\ quantity' = quantity + q
  /\ average' = AverageAfter(q, price)
  /\ cash' = cash - (q * price + Commission)
  /\ steps' = steps + 1
  /\ UNCHANGED <<realized, status>>

(* apply_fill of a sale: the average cost of the rest does not change.     *)
Sell(q, price) ==
  /\ status = "open" /\ steps < MaxSteps
  /\ q <= quantity
  /\ LET proceeds == q * price - Commission
     IN /\ realized' = Plus(realized, Plus(Whole(proceeds), -Times(average, q)))
        /\ cash' = cash + proceeds
  /\ quantity' = quantity - q
  /\ average' = IF quantity' = 0 THEN 0 ELSE average
  /\ steps' = steps + 1
  /\ UNCHANGED status
-----------------------------------------------------------------------------
(* apply_split                                                             *)

WholeShares(ratio) == (quantity * ratio[1]) % ratio[2] = 0
SharesAfter(ratio) == (quantity * ratio[1]) \div ratio[2]

(* Multiplied instead of divided: a mutant of CostAfter.                   *)
CostAfterMultiplied(ratio) == Rounded(average * ratio[1], ratio[2])

CostAfter(ratio) == Rounded(average * ratio[2], ratio[1])

(* The two total costs, both rounded, are compared exactly.                *)
CostKept(ratio) ==
  Times(average, quantity) = Times(CostAfter(ratio), SharesAfter(ratio))

Split(ratio) ==
  /\ status = "open" /\ steps < MaxSteps /\ quantity > 0
  /\ WholeShares(ratio) /\ CostKept(ratio)
  /\ quantity' = SharesAfter(ratio)
  /\ average' = CostAfter(ratio)
  /\ steps' = steps + 1
  /\ UNCHANGED <<cash, realized, status>>

(* The ValueErrors of apply_split, which end the backtest.                 *)
RefuseSplit(ratio) ==
  /\ status = "open" /\ steps < MaxSteps /\ quantity > 0
  /\ \/ ~WholeShares(ratio) /\ status' = "fractional"
     \/ WholeShares(ratio) /\ ~CostKept(ratio) /\ status' = "cost_changed"
  /\ steps' = steps + 1
  /\ UNCHANGED <<cash, quantity, average, realized>>

Finished == (status # "open" \/ steps = MaxSteps) /\ UNCHANGED vars

Next ==
  \/ \E q \in Lots, price \in Prices : Buy(q, price) \/ Sell(q, price)
  \/ \E ratio \in Ratios : Split(ratio) \/ RefuseSplit(ratio)
  \/ Finished

Spec == Init /\ [][Next]_vars
-----------------------------------------------------------------------------
(* Cash, shares and cost are never negative, realized profit may be.       *)
TypeOK ==
  /\ cash \in Nat /\ quantity \in Nat
  /\ average \in Nat /\ realized \in Int
  /\ status \in {"open", "fractional", "cost_changed"}
  /\ steps \in 0..MaxSteps

(* Money is where the books say: what was paid in is the cash, plus the    *)
(* cost of the shares held, less the profit realized.  Whatever was        *)
(* bought, sold and split before, no step moves the balance by more than   *)
(* the rounding of four totals and of one average per share.               *)
Drift == Whole(InitialCash) + realized - Whole(cash) - average * quantity
StepsKeepBooks == [][Abs(Drift' - Drift) <= Tolerance]_vars

(* A split of whole shares is carried out whenever the new average cost is *)
(* a decimal of the context.                                               *)
ExactSplitsApply ==
  \A ratio \in Ratios :
    LET cost == (average * ratio[2]) \div ratio[1]
    IN /\ quantity > 0 /\ WholeShares(ratio)
       /\ (average * ratio[2]) % ratio[1] = 0 /\ cost = Rounded(cost, 1)
       => CostKept(ratio)
=============================================================================
