----------------------- MODULE CostAccounting_proofs -----------------------
(***************************************************************************)
(* Theorems about CostAccounting, for every precision of the decimal       *)
(* context: types, which splits are carried out, and that a step moves the *)
(* balance of cash, cost and profit by its roundings alone.                *)
(***************************************************************************)
EXTENDS CostAccounting, TLAPS

(* Quotient and remainder are determined by the division identity.         *)
LEMMA DivisionUnique ==
  ASSUME NEW n \in Nat, NEW d \in Nat \ {0}, NEW q \in Nat, NEW r \in Nat,
         n = q * d + r, r < d
  PROVE  n \div d = q /\ n % d = r
  OBVIOUS

(* A fraction may be reduced before it is rounded to a quantum.            *)
LEMMA HalfEvenReduced ==
  ASSUME NEW c \in Nat, NEW d \in Nat \ {0}, NEW m \in Nat \ {0}
  PROVE  HalfEven(c * m, d * m) = HalfEven(c, d)
<1> DEFINE q == c \div d
           r == c % d
<1>1. q \in Nat /\ r \in Nat /\ r < d /\ c = q * d + r
  OBVIOUS
<1>2. c * m \in Nat /\ d * m \in Nat \ {0} /\ r * m \in Nat
  BY <1>1
<1>3. c * m = q * (d * m) + r * m /\ r * m < d * m
  <2> HIDE DEF q, r
  <2>1. r * m < d * m
    BY <1>1
  <2>2. (q * d + r) * m = q * (d * m) + r * m
    BY <1>1
  <2> QED BY <1>1, <2>1, <2>2
<1>4. (c * m) \div (d * m) = q /\ (c * m) % (d * m) = r * m
  BY <1>1, <1>2, <1>3, DivisionUnique
<1>5. (2 * (r * m) > d * m <=> 2 * r > d) /\ (2 * (r * m) = d * m <=> 2 * r = d)
  BY <1>1
<1> QED BY <1>4, <1>5 DEF HalfEven

LEMMA QuantumPositive == \A n, d : Quantum(n, d) \in Nat \ {0}
<1> TAKE n, d
<1>1. CASE Smallest(n, d) = {}
  BY <1>1 DEF Quantum, AnyOf
<1>2. CASE Smallest(n, d) # {}
  <2>1. Quantum(n, d) \in Smallest(n, d)
    BY <1>2 DEF Quantum, AnyOf
  <2> QED BY <2>1, PrecisionAssumption DEF Smallest, PrecisionAssumption
<1> QED BY <1>1, <1>2

(* ... and so before it is rounded to a decimal.                           *)
LEMMA RoundedReduced ==
  ASSUME NEW c \in Nat, NEW m \in Nat \ {0}
  PROVE  Rounded(c * m, m) = Rounded(c, 1)
<1>1. c * m \in Nat /\ Abs(c * m) = c * m /\ Abs(c) = c
  BY DEF Abs
<1>2. ASSUME NEW u \in Quanta
      PROVE  Fits(c * m, m, u) <=> Fits(c, 1, u)
  <2> DEFINE q == c \div u
             r == c % u
             k == (c * m) \div u
  <2>1. u \in Nat \ {0} /\ Coefficients \in Nat \ {0}
    BY PrecisionAssumption DEF PrecisionAssumption
  <2>2. q \in Nat /\ r \in Nat /\ r < u /\ c = q * u + r
    BY <2>1
  <2>3. k \in Nat /\ k * u <= c * m /\ c * m < (k + 1) * u
    BY <1>1, <2>1
  <2>4. k < m * Coefficients <=> c * m < (m * Coefficients) * u
    BY <1>1, <2>1, <2>3
  <2>5. c * m < (m * Coefficients) * u <=> c < Coefficients * u
    BY <2>1
  <2>6. q < Coefficients <=> c < Coefficients * u
    BY <2>1, <2>2
  <2> QED BY <1>1, <2>1, <2>4, <2>5, <2>6 DEF Fits
<1>3. Smallest(c * m, m) = Smallest(c, 1)
  BY <1>2 DEF Smallest
<1>4. Quantum(c * m, m) = Quantum(c, 1)
  BY <1>3 DEF Quantum
<1>5. HalfEven(c * m, m * Quantum(c, 1)) = HalfEven(c, 1 * Quantum(c, 1))
  <2>1. m * Quantum(c, 1) = Quantum(c, 1) * m /\ 1 * Quantum(c, 1) = Quantum(c, 1)
    BY QuantumPositive
  <2>2. HalfEven(c * m, Quantum(c, 1) * m) = HalfEven(c, Quantum(c, 1))
    BY QuantumPositive, HalfEvenReduced
  <2> QED BY <2>1, <2>2
<1>6. ~(c * m < 0) /\ ~(c < 0)
  BY <1>1
<1> QED BY <1>1, <1>4, <1>5, <1>6 DEF Rounded

(* A product of integers keeps its value when a factor moves from one to   *)
(* the other.                                                              *)
LEMMA ProductKept ==
  ASSUME NEW a \in Nat, NEW b \in Nat, NEW x \in Nat, NEW y \in Nat,
         NEW m \in Nat \ {0}, NEW n \in Nat \ {0},
         a * n = x * m, b * m = y * n
  PROVE  a * b = x * y
<1>1. (a * n) * (b * m) = (x * m) * (y * n)
  OBVIOUS
<1>2. (a * b) * (m * n) = (x * y) * (m * n)
  BY <1>1
<1>3. m * n \in Nat \ {0} /\ a * b \in Nat /\ x * y \in Nat
  OBVIOUS
<1> QED BY <1>2, <1>3

-----------------------------------------------------------------------------
LEMMA DivisionExact ==
  ASSUME NEW n \in Nat, NEW d \in Nat \ {0}, n % d = 0
  PROVE  n \div d \in Nat /\ n = (n \div d) * d
OBVIOUS

LEMMA HalfEvenType ==
  ASSUME NEW n \in Nat, NEW d \in Nat \ {0}
  PROVE  HalfEven(n, d) \in Nat
BY DEF HalfEven

LEMMA RoundedType ==
  ASSUME NEW n \in Int, NEW d \in Nat \ {0}
  PROVE  Rounded(n, d) \in Int /\ (n \in Nat => Rounded(n, d) \in Nat)
<1> DEFINE u == Quantum(n, d)
<1>1. u \in Nat \ {0}
  BY QuantumPositive
<1>2. Abs(n) \in Nat
  BY DEF Abs
<1> HIDE DEF u
<1>3. d * u \in Nat \ {0}
  BY <1>1
<1>4. HalfEven(Abs(n), d * u) \in Nat
  BY <1>2, <1>3, HalfEvenType
<1>5. u * HalfEven(Abs(n), d * u) \in Nat
  BY <1>1, <1>4
<1> QED BY <1>5 DEF Rounded, u

LEMMA InitTypeOK == Init => TypeOK
BY AmountsAssumption, PrecisionAssumption
   DEF Init, TypeOK, AmountsAssumption, PrecisionAssumption

(* A purchase is covered by the cash.                                      *)
LEMMA BuyTypeOK ==
  ASSUME TypeOK, NEW q \in Lots, NEW price \in Prices, Buy(q, price)
  PROVE  TypeOK'
<1> USE DEF TypeOK
<1>1. q \in Nat \ {0} /\ price \in Nat \ {0} /\ Commission \in Nat
  BY AmountsAssumption DEF AmountsAssumption
<1>2. q * price \in Nat /\ q * price + Commission <= cash
  BY <1>1 DEF Buy, Affordable
<1>3. cash' \in Nat /\ quantity' \in Nat
  BY <1>1, <1>2 DEF Buy
<1>4. average' \in Nat
  <2>1. average * quantity \in Nat
    OBVIOUS
  <2>2. Times(average, quantity) \in Nat
    BY <2>1, RoundedType DEF Times
  <2>3. Whole(q * price) \in Nat /\ Whole(Commission) \in Nat
    BY <1>1, <1>2, PrecisionAssumption DEF Whole, PrecisionAssumption
  <2> DEFINE gross == Plus(Times(average, quantity), Whole(q * price))
  <2>4. gross \in Nat
    BY <2>2, <2>3, RoundedType DEF Plus
  <2> HIDE DEF gross
  <2>5. WithCommission(gross) \in Nat
    BY <2>3, <2>4, RoundedType DEF WithCommission, Plus
  <2>6. quantity + q \in Nat \ {0}
    BY <1>1
  <2>7. Rounded(WithCommission(gross), quantity + q) \in Nat
    BY <2>5, <2>6, RoundedType
  <2> QED BY <2>7 DEF Buy, AverageAfter, gross
<1> QED BY <1>3, <1>4, PrecisionAssumption DEF Buy, PrecisionAssumption

(* A sale is covered by the shares and brings at least its commission.     *)
LEMMA SellTypeOK ==
  ASSUME TypeOK, NEW q \in Lots, NEW price \in Prices, Sell(q, price)
  PROVE  TypeOK'
<1> USE DEF TypeOK
<1>1. q \in Nat \ {0} /\ price \in Nat \ {0} /\ Commission \in Nat /\ Commission <= price
  BY AmountsAssumption DEF AmountsAssumption
<1> DEFINE proceeds == q * price - Commission
<1>2. proceeds \in Nat
  <2>1. q * price \in Nat /\ q * price >= price
    BY <1>1
  <2> QED BY <1>1, <2>1
<1>3. cash' = cash + proceeds /\ realized' = Plus(realized, Plus(Whole(proceeds), -Times(average, q)))
  BY DEF Sell
<1> HIDE DEF proceeds
<1>4. cash' \in Nat /\ quantity' \in Nat /\ average' \in Nat
  BY <1>1, <1>2, <1>3 DEF Sell
<1>5. realized' \in Int
  <2>1. average * q \in Int
    BY <1>1
  <2>2. Times(average, q) \in Int
    BY <2>1, RoundedType DEF Times
  <2>3. Whole(proceeds) \in Int
    BY <1>2, PrecisionAssumption DEF Whole, PrecisionAssumption
  <2>4. Plus(Whole(proceeds), -Times(average, q)) \in Int
    BY <2>2, <2>3, RoundedType DEF Plus
  <2> QED BY <1>3, <2>4, RoundedType DEF Plus
<1> QED BY <1>4, <1>5, PrecisionAssumption DEF Sell, PrecisionAssumption

LEMMA SplitTypeOK ==
  ASSUME TypeOK, NEW ratio \in Ratios, Split(ratio) \/ RefuseSplit(ratio)
  PROVE  TypeOK'
<1> USE DEF TypeOK
<1>1. ratio[1] \in Nat \ {0} /\ ratio[2] \in Nat \ {0}
  BY AmountsAssumption DEF AmountsAssumption
<1>2. CASE Split(ratio)
  <2>1. quantity * ratio[1] \in Nat /\ average * ratio[2] \in Nat
    BY <1>1
  <2>2. SharesAfter(ratio) \in Nat
    BY <1>1, <2>1 DEF SharesAfter
  <2>3. CostAfter(ratio) \in Nat
    <3> DEFINE n == average * ratio[2]
               d == ratio[1]
    <3>1. n \in Nat /\ d \in Nat \ {0}
      BY <1>1, <2>1
    <3> HIDE DEF n, d
    <3>2. Rounded(n, d) \in Nat
      BY <3>1, RoundedType
    <3> QED BY <3>2 DEF CostAfter, n, d
  <2> QED BY <1>2, <2>2, <2>3, PrecisionAssumption DEF Split, PrecisionAssumption
<1>3. CASE RefuseSplit(ratio)
  BY <1>3, PrecisionAssumption DEF RefuseSplit, PrecisionAssumption
<1> QED BY <1>2, <1>3

LEMMA StepTypeOK == TypeOK /\ [Next]_vars => TypeOK'
<1> SUFFICES ASSUME TypeOK, [Next]_vars PROVE TypeOK'
  OBVIOUS
<1>1. CASE \E q \in Lots, price \in Prices : Buy(q, price) \/ Sell(q, price)
  BY <1>1, BuyTypeOK, SellTypeOK
<1>2. CASE \E ratio \in Ratios : Split(ratio) \/ RefuseSplit(ratio)
  BY <1>2, SplitTypeOK
<1>3. CASE Finished \/ UNCHANGED vars
  BY <1>3 DEF Finished, vars, TypeOK
<1> QED BY <1>1, <1>2, <1>3 DEF Next

(* Types, and with them: no fill or split makes cash, shares or the cost   *)
(* of a share negative.                                                    *)
THEOREM TypesCorrect == Spec => []TypeOK
BY InitTypeOK, StepTypeOK, PTL DEF Spec
-----------------------------------------------------------------------------
(* Types suffice: with an exact new average cost the two total costs are   *)
(* equal before they are rounded.                                          *)
LEMMA TypesMakeSplitsApply == TypeOK => ExactSplitsApply
<1> SUFFICES ASSUME TypeOK, NEW ratio \in Ratios,
                    quantity > 0, WholeShares(ratio),
                    (average * ratio[2]) % ratio[1] = 0,
                    (average * ratio[2]) \div ratio[1] = Rounded((average * ratio[2]) \div ratio[1], 1)
             PROVE  CostKept(ratio)
  BY DEF ExactSplitsApply
<1> DEFINE num == ratio[1]
           den == ratio[2]
           cost == (average * den) \div num
           after == SharesAfter(ratio)
<1>1. num \in Nat \ {0} /\ den \in Nat \ {0}
  BY AmountsAssumption DEF AmountsAssumption
<1>2. average \in Nat /\ quantity \in Nat
  BY DEF TypeOK
<1>3. (average * den) % num = 0 /\ cost = Rounded(cost, 1)
  OBVIOUS
<1>4. (quantity * num) % den = 0 /\ after = (quantity * num) \div den
  BY DEF WholeShares, SharesAfter
<1>5. CostAfter(ratio) = Rounded(average * den, num)
  BY DEF CostAfter
<1> HIDE DEF num, den, after
<1>6. average * den \in Nat /\ quantity * num \in Nat
  BY <1>1, <1>2
<1>7. cost \in Nat /\ average * den = cost * num
  BY <1>1, <1>3, <1>6, DivisionExact
<1>8. after \in Nat /\ quantity * num = after * den
  BY <1>1, <1>4, <1>6, DivisionExact
<1> HIDE DEF cost
<1>9. CostAfter(ratio) = cost
  BY <1>1, <1>3, <1>5, <1>7, RoundedReduced
<1>10. average * quantity = cost * after
  BY <1>1, <1>2, <1>7, <1>8, ProductKept
<1> QED BY <1>9, <1>10 DEF CostKept, Times, after

(* Whatever was bought, sold and split before, and with any number of      *)
(* digits: a split of whole shares whose new average cost is a decimal of  *)
(* the context is carried out.  Refusals are due to its rounding.          *)
THEOREM SplitsApply == Spec => []ExactSplitsApply
BY TypesCorrect, TypesMakeSplitsApply, PTL
-----------------------------------------------------------------------------
(* What a rounding moves                                                   *)

(* Half to even is never further than half away ...                        *)
LEMMA HalfEvenNear ==
  ASSUME NEW m \in Nat, NEW d \in Nat \ {0}
  PROVE  /\ HalfEven(m, d) \in Nat
         /\ -d <= 2 * (d * HalfEven(m, d) - m) /\ 2 * (d * HalfEven(m, d) - m) <= d
<1>1. PICK q \in Nat : q = m \div d
  OBVIOUS
<1>2. PICK r \in Nat : r = m % d /\ r < d
  OBVIOUS
<1>3. m = d * q + r
  BY <1>1, <1>2
<1>4. CASE 2 * r > d \/ (2 * r = d /\ q % 2 = 1)
  <2>1. HalfEven(m, d) = q + 1
    BY <1>1, <1>2, <1>4 DEF HalfEven
  <2>2. d * (q + 1) - m = d - r
    BY <1>3
  <2> QED BY <1>2, <1>4, <2>1, <2>2
<1>5. CASE ~(2 * r > d \/ (2 * r = d /\ q % 2 = 1))
  <2>1. HalfEven(m, d) = q
    BY <1>1, <1>2, <1>5 DEF HalfEven
  <2>2. d * q - m = -r /\ 2 * r <= d
    BY <1>2, <1>3, <1>5
  <2> QED BY <1>2, <2>1, <2>2
<1> QED BY <1>4, <1>5

(* ... so a decimal is within half its quantum of what it stands for.      *)
LEMMA RoundedNear ==
  ASSUME NEW n \in Int, NEW d \in Nat \ {0}
  PROVE  /\ Rounded(n, d) \in Int
         /\ -(d * Quantum(n, d)) <= 2 * (d * Rounded(n, d) - n)
         /\ 2 * (d * Rounded(n, d) - n) <= d * Quantum(n, d)
<1>1. PICK u \in Nat \ {0} : u = Quantum(n, d)
  BY QuantumPositive
<1>2. PICK a \in Nat : a = Abs(n) /\ (n < 0 => a = -n) /\ (~(n < 0) => a = n)
  BY DEF Abs
<1>3. PICK e \in Nat \ {0} : e = d * u
  BY <1>1
<1>4. PICK k \in Nat : k = HalfEven(a, e) /\ -e <= 2 * (e * k - a) /\ 2 * (e * k - a) <= e
  BY HalfEvenNear
<1>5. Rounded(n, d) = IF n < 0 THEN -(u * k) ELSE u * k
  BY <1>1, <1>2, <1>3, <1>4 DEF Rounded
<1>6. PICK x \in Nat : x = e * k
  OBVIOUS
<1>7. d * (u * k) = x /\ d * (-(u * k)) = -x
  BY <1>3, <1>6
<1>8. CASE n < 0
  <2>1. d * Rounded(n, d) - n = -(x - a)
    BY <1>2, <1>5, <1>7, <1>8
  <2> QED BY <1>1, <1>3, <1>4, <1>5, <1>6, <1>8, <2>1
<1>9. CASE ~(n < 0)
  <2>1. d * Rounded(n, d) - n = x - a
    BY <1>2, <1>5, <1>7, <1>9
  <2> QED BY <1>1, <1>3, <1>4, <1>5, <1>6, <1>9, <2>1
<1> QED BY <1>8, <1>9

LEMMA WholeRoundedNear ==
  ASSUME NEW n \in Int
  PROVE  \E g \in Int, u \in Nat :
           g = Rounded(n, 1) /\ u = Quantum(n, 1) /\ -u <= 2 * (g - n) /\ 2 * (g - n) <= u
<1>1. 1 \in Nat \ {0}
  OBVIOUS
<1>2. /\ Rounded(n, 1) \in Int
      /\ -(1 * Quantum(n, 1)) <= 2 * (1 * Rounded(n, 1) - n)
      /\ 2 * (1 * Rounded(n, 1) - n) <= 1 * Quantum(n, 1)
  BY <1>1, RoundedNear
<1>3. PICK g \in Int : g = Rounded(n, 1)
  BY <1>2
<1>4. PICK u \in Nat : u = Quantum(n, 1)
  BY QuantumPositive
<1>5. -u <= 2 * (g - n) /\ 2 * (g - n) <= u
  BY <1>2, <1>3, <1>4
<1> QED BY <1>3, <1>4, <1>5

LEMMA WholeTyped == ASSUME NEW n \in Int PROVE Whole(n) \in Int
  BY PrecisionAssumption DEF Whole, PrecisionAssumption

LEMMA WholeAdds ==
  ASSUME NEW m \in Int, NEW n \in Int
  PROVE  Whole(m + n) = Whole(m) + Whole(n) /\ Whole(m - n) = Whole(m) - Whole(n)
<1>1. Scale \in Int
  BY PrecisionAssumption DEF PrecisionAssumption
<1> QED BY <1>1 DEF Whole

(* Twice what the roundings of a purchase, a sale and a split may add up   *)
(* to: the quanta of the decimals they compute.                            *)
BuyQuanta(q, price) ==
  LET cost == Times(average, quantity)
      gross == Plus(cost, Whole(q * price))
  IN Quantum(average * quantity, 1) + Quantum(cost + Whole(q * price), 1)
     + Quantum(gross + Whole(Commission), 1)
     + (quantity + q) * Quantum(WithCommission(gross), quantity + q)

SellQuanta(q, price) ==
  LET cost == Times(average, q)
      gain == Plus(Whole(q * price - Commission), -cost)
  IN Quantum(average * q, 1) + Quantum(Whole(q * price - Commission) + (-cost), 1)
     + Quantum(realized + gain, 1)

SplitQuanta(ratio) ==
  Quantum(average * quantity, 1) + Quantum(CostAfter(ratio) * SharesAfter(ratio), 1)

(* Tolerance is chosen large enough for the amounts the books reach.       *)
ToleranceSuffices ==
  status = "open" /\ steps < MaxSteps =>
    /\ \A q \in Lots, price \in Prices :
         /\ Affordable(q, price) => BuyQuanta(q, price) <= 2 * Tolerance
         /\ q <= quantity => SellQuanta(q, price) <= 2 * Tolerance
    /\ \A ratio \in Ratios :
         quantity > 0 /\ WholeShares(ratio) => SplitQuanta(ratio) <= 2 * Tolerance

LEMMA Magnitude ==
  ASSUME NEW x \in Int, NEW t \in Int, -(2 * t) <= 2 * x, 2 * x <= 2 * t
  PROVE  Abs(x) <= t /\ Abs(-x) <= t
  BY DEF Abs

(* A purchase books what it pays as cost, up to four roundings.            *)
LEMMA BuyKeepsBooks ==
  ASSUME TypeOK, ToleranceSuffices, NEW q \in Lots, NEW price \in Prices, Buy(q, price)
  PROVE  Abs(Drift' - Drift) <= Tolerance
<1>1. PICK T \in Nat : T = Tolerance
  BY PrecisionAssumption DEF PrecisionAssumption
<1>2. PICK A \in Nat, Q \in Nat, c \in Nat, z \in Int :
        A = average /\ Q = quantity /\ c = cash /\ z = realized
  BY DEF TypeOK
<1>3. PICK n \in Nat \ {0}, C \in Nat, k \in Nat : n = q /\ C = Commission /\ k = q * price
  BY AmountsAssumption DEF AmountsAssumption
<1>4. PICK v \in Int, w \in Int, s \in Int, i \in Int :
        v = Whole(k) /\ w = Whole(C) /\ s = Whole(c) /\ i = Whole(InitialCash)
  <2>1. InitialCash \in Int
    BY AmountsAssumption DEF AmountsAssumption
  <2> QED BY <2>1, WholeTyped
<1>5. PICK m \in Nat, m1 \in Nat \ {0} : m = A * Q /\ m1 = Q + n
  OBVIOUS
<1>6. PICK g \in Int, u \in Nat :
        g = Rounded(m, 1) /\ u = Quantum(m, 1) /\ -u <= 2 * (g - m) /\ 2 * (g - m) <= u
  BY WholeRoundedNear
<1>17. PICK e1 \in Int : e1 = g + v
  OBVIOUS
<1>7. PICK h \in Int, u1 \in Nat :
        h = Rounded(e1, 1) /\ u1 = Quantum(e1, 1) /\ -u1 <= 2 * (h - e1) /\ 2 * (h - e1) <= u1
  BY WholeRoundedNear
<1>18. PICK e2 \in Int : e2 = h + w
  OBVIOUS
<1>8. PICK t \in Int, u2 \in Nat :
        t = Rounded(e2, 1) /\ u2 = Quantum(e2, 1) /\ -u2 <= 2 * (t - e2) /\ 2 * (t - e2) <= u2
  BY WholeRoundedNear
<1>9. PICK a \in Int, u3 \in Nat :
        /\ a = Rounded(t, m1) /\ u3 = Quantum(t, m1)
        /\ -(m1 * u3) <= 2 * (m1 * a - t) /\ 2 * (m1 * a - t) <= m1 * u3
  BY RoundedNear, QuantumPositive
<1>10. PICK x \in Int, y \in Int : x = m1 * a /\ y = m1 * u3
  OBVIOUS
<1>11. average' = a /\ quantity' = m1 /\ realized' = z /\ cash' = c - (k + C)
  BY <1>2, <1>3, <1>4, <1>5, <1>6, <1>7, <1>8, <1>9, <1>17, <1>18
     DEF Buy, AverageAfter, WithCommission, Plus, Times
<1>12. u + u1 + u2 + y <= 2 * T
  <2>1. BuyQuanta(q, price) <= 2 * T
    BY <1>1 DEF Buy, ToleranceSuffices
  <2>2. BuyQuanta(q, price) = u + u1 + u2 + m1 * u3
    BY <1>2, <1>3, <1>4, <1>5, <1>6, <1>7, <1>8, <1>9, <1>17, <1>18 DEF BuyQuanta, WithCommission, Plus, Times
  <2> QED BY <1>10, <2>1, <2>2
<1>13. Drift = i + z - s - m
  BY <1>2, <1>4, <1>5 DEF Drift
<1>14. Drift' = i + z - (s - (v + w)) - x
  <2>1. Whole(c - (k + C)) = s - (v + w)
    BY <1>4, WholeAdds
  <2>2. a * m1 = x
    BY <1>10
  <2>3. Whole(cash') = s - (v + w)
    BY <1>11, <2>1
  <2>4. Drift' = Whole(InitialCash) + realized' - Whole(cash') - average' * quantity'
    BY DEF Drift, Whole
  <2> QED BY <1>4, <1>11, <2>2, <2>3, <2>4
<1>15. Drift' - Drift = -(x - (m + v + w))
  BY <1>13, <1>14
<1>16. /\ -(2 * T) <= 2 * (x - (m + v + w))
       /\ 2 * (x - (m + v + w)) <= 2 * T
  BY <1>6, <1>7, <1>8, <1>9, <1>17, <1>18, <1>10, <1>12
<1> QED BY <1>1, <1>15, <1>16, Magnitude

(* A sale moves cost into realized profit, up to three roundings.          *)
LEMMA SellKeepsBooks ==
  ASSUME TypeOK, ToleranceSuffices, NEW q \in Lots, NEW price \in Prices, Sell(q, price)
  PROVE  Abs(Drift' - Drift) <= Tolerance
<1>1. PICK T \in Nat : T = Tolerance
  BY PrecisionAssumption DEF PrecisionAssumption
<1>2. PICK A \in Nat, Q \in Nat, c \in Nat, z \in Int :
        A = average /\ Q = quantity /\ c = cash /\ z = realized
  BY DEF TypeOK
<1>3. PICK n \in Nat \ {0}, k \in Int : n = q /\ k = q * price - Commission
  BY AmountsAssumption DEF AmountsAssumption
<1>4. PICK v \in Int, s \in Int, i \in Int :
        v = Whole(k) /\ s = Whole(c) /\ i = Whole(InitialCash)
  <2>1. InitialCash \in Int
    BY AmountsAssumption DEF AmountsAssumption
  <2> QED BY <2>1, WholeTyped
<1>5. PICK m \in Nat, p \in Nat : m = A * Q /\ p = A * n
  OBVIOUS
<1>6. PICK g \in Int, u \in Nat :
        g = Rounded(p, 1) /\ u = Quantum(p, 1) /\ -u <= 2 * (g - p) /\ 2 * (g - p) <= u
  <2>1. p \in Int
    OBVIOUS
  <2> QED BY <2>1, WholeRoundedNear
<1>17. PICK e1 \in Int : e1 = v + (-g)
  OBVIOUS
<1>7. PICK h \in Int, u1 \in Nat :
        h = Rounded(e1, 1) /\ u1 = Quantum(e1, 1) /\ -u1 <= 2 * (h - e1) /\ 2 * (h - e1) <= u1
  BY WholeRoundedNear
<1>18. PICK e2 \in Int : e2 = z + h
  OBVIOUS
<1>8. PICK t \in Int, u2 \in Nat :
        t = Rounded(e2, 1) /\ u2 = Quantum(e2, 1) /\ -u2 <= 2 * (t - e2) /\ 2 * (t - e2) <= u2
  BY WholeRoundedNear
<1>9. /\ realized' = t /\ cash' = c + k /\ quantity' = Q - n
      /\ average' = IF Q - n = 0 THEN 0 ELSE A
  BY <1>2, <1>3, <1>4, <1>5, <1>6, <1>7, <1>8, <1>17, <1>18 DEF Sell, Plus, Times
<1>10. u + u1 + u2 <= 2 * T
  <2>1. SellQuanta(q, price) <= 2 * T
    BY <1>1 DEF Sell, ToleranceSuffices
  <2>2. SellQuanta(q, price) = u + u1 + u2
    BY <1>2, <1>3, <1>4, <1>5, <1>6, <1>7, <1>8, <1>17, <1>18 DEF SellQuanta, Plus, Times
  <2> QED BY <2>1, <2>2
<1>11. Drift = i + z - s - m
  BY <1>2, <1>4, <1>5 DEF Drift
<1>12. average' * quantity' = m - p
  <2>1. CASE Q - n = 0
    <3>1. m = p
      BY <1>5, <2>1
    <3> QED BY <1>9, <2>1, <3>1
  <2>2. CASE Q - n # 0
    BY <1>5, <1>9, <2>2
  <2> QED BY <2>1, <2>2
<1>13. Drift' = i + t - (s + v) - (m - p)
  <2>1. Whole(cash') = s + v
    BY <1>4, <1>9, WholeAdds
  <2>2. Drift' = Whole(InitialCash) + realized' - Whole(cash') - average' * quantity'
    BY DEF Drift, Whole
  <2> QED BY <1>4, <1>9, <1>12, <2>1, <2>2
<1>14. Drift' - Drift = t - z - v + p
  BY <1>11, <1>13
<1>15. /\ -(2 * T) <= 2 * (t - z - v + p)
       /\ 2 * (t - z - v + p) <= 2 * T
  BY <1>6, <1>7, <1>8, <1>17, <1>18, <1>10
<1> QED BY <1>1, <1>14, <1>15, Magnitude

(* A split keeps the cost of the shares, up to the roundings with which    *)
(* the two totals were compared.                                           *)
LEMMA SplitKeepsBooks ==
  ASSUME TypeOK, ToleranceSuffices, NEW ratio \in Ratios, Split(ratio)
  PROVE  Abs(Drift' - Drift) <= Tolerance
<1>1. PICK T \in Nat : T = Tolerance
  BY PrecisionAssumption DEF PrecisionAssumption
<1>2. PICK m \in Nat : m = average * quantity
  BY DEF TypeOK
<1>3. PICK p \in Nat : p = CostAfter(ratio) * SharesAfter(ratio)
  <2>1. TypeOK'
    BY SplitTypeOK
  <2>2. average' = CostAfter(ratio) /\ quantity' = SharesAfter(ratio)
    BY DEF Split
  <2> QED BY <2>1, <2>2 DEF TypeOK
<1>4. PICK g \in Int, u \in Nat :
        g = Rounded(m, 1) /\ u = Quantum(m, 1) /\ -u <= 2 * (g - m) /\ 2 * (g - m) <= u
  BY WholeRoundedNear
<1>5. PICK h \in Int, u1 \in Nat :
        h = Rounded(p, 1) /\ u1 = Quantum(p, 1) /\ -u1 <= 2 * (h - p) /\ 2 * (h - p) <= u1
  <2>1. p \in Int
    OBVIOUS
  <2> QED BY <2>1, WholeRoundedNear
<1>6. g = h
  BY <1>2, <1>3, <1>4, <1>5 DEF Split, CostKept, Times
<1>7. u + u1 <= 2 * T
  BY <1>1, <1>2, <1>3, <1>4, <1>5 DEF Split, ToleranceSuffices, SplitQuanta
<1>8. Drift' - Drift = m - p
  <2>1. PICK i \in Int, z \in Int, v \in Int : i = Whole(InitialCash) /\ z = realized /\ v = Whole(cash)
    <3>1. InitialCash \in Int /\ cash \in Int /\ realized \in Int
      BY AmountsAssumption DEF AmountsAssumption, TypeOK
    <3>2. Whole(InitialCash) \in Int /\ Whole(cash) \in Int
      BY <3>1, WholeTyped
    <3> QED BY <3>1, <3>2
  <2>2. Drift = i + z - v - m
    BY <1>2, <2>1 DEF Drift
  <2>3. Drift' = i + z - v - p
    <3>1. average' * quantity' = p /\ realized' = z /\ Whole(cash') = v
      <4>1. realized' = realized /\ cash' = cash
        BY DEF Split
      <4>2. Whole(cash') = Whole(cash)
        BY <4>1
      <4> QED BY <1>3, <2>1, <4>1, <4>2 DEF Split
    <3>2. Drift' = Whole(InitialCash) + realized' - Whole(cash') - average' * quantity'
      BY DEF Drift, Whole
    <3> QED BY <2>1, <3>1, <3>2
  <2> QED BY <2>1, <2>2, <2>3
<1>9. -(2 * T) <= 2 * (m - p) /\ 2 * (m - p) <= 2 * T
  BY <1>4, <1>5, <1>6, <1>7
<1> QED BY <1>1, <1>8, <1>9, Magnitude

(* apply_fill and apply_split keep the books: as long as Tolerance covers  *)
(* the half quanta of the decimals a step computes, that step moves cash   *)
(* plus cost less profit by no more.  Nothing but roundings is lost, with  *)
(* any number of digits.                                                   *)
THEOREM BooksBalance == Spec /\ []ToleranceSuffices => StepsKeepBooks
<1>1. TypeOK /\ ToleranceSuffices /\ [Next]_vars => [Abs(Drift' - Drift) <= Tolerance]_vars
  <2> SUFFICES ASSUME TypeOK, ToleranceSuffices, [Next]_vars
               PROVE  Abs(Drift' - Drift) <= Tolerance \/ UNCHANGED vars
    OBVIOUS
  <2>1. ASSUME NEW q \in Lots, NEW price \in Prices, Buy(q, price) \/ Sell(q, price)
        PROVE  Abs(Drift' - Drift) <= Tolerance
    BY <2>1, BuyKeepsBooks, SellKeepsBooks
  <2>2. ASSUME NEW ratio \in Ratios, Split(ratio)
        PROVE  Abs(Drift' - Drift) <= Tolerance
    BY <2>2, SplitKeepsBooks
  <2>3. ASSUME NEW ratio \in Ratios, RefuseSplit(ratio)
        PROVE  Abs(Drift' - Drift) <= Tolerance
    <3>1. Drift \in Int
      <4>1. InitialCash \in Int /\ cash \in Int /\ realized \in Int /\ average * quantity \in Int
        BY AmountsAssumption DEF AmountsAssumption, TypeOK
      <4> QED BY <4>1, WholeTyped DEF Drift
    <3>2. PICK d \in Int : d = Drift
      BY <3>1
    <3>3. Drift' = Drift
      BY <2>3 DEF RefuseSplit, Drift, Whole
    <3>4. Tolerance \in Nat
      BY PrecisionAssumption DEF PrecisionAssumption
    <3> QED BY <3>2, <3>3, <3>4 DEF Abs
  <2>4. CASE Finished \/ UNCHANGED vars
    BY <2>4 DEF Finished
  <2> QED BY <2>1, <2>2, <2>3, <2>4 DEF Next
<1> QED BY <1>1, TypesCorrect, PTL DEF Spec, StepsKeepBooks
=============================================================================
