SPECIFICATION Spec
CONSTANTS
  OrderIds = {o1, o2}
  Quantities = {1, 2, 3}
INVARIANTS
  TypeOK
  StatusMatchesFills
PROPERTIES
  TerminalIsFinal
