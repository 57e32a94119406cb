SPECIFICATION Spec
CONSTANTS
  InitialCash = 40
  Commission = 1
  Prices = {3, 4, 7}
  Lots = {1, 2, 4}
  Ratios <- HalfTwoThree
  Coefficients = 10000
  Scale = 1000000
  Quanta = {1, 10, 100, 1000, 10000, 100000, 1000000}
  Tolerance = 40000
  MaxSteps = 5
INVARIANTS
  TypeOK
  ExactSplitsApply
PROPERTIES
  StepsKeepBooks
