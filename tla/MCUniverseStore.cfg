SPECIFICATION Spec
CONSTANTS
  p1 = p1
  p2 = p2
  Processes <- TwoProcesses
  Universes = {krx, other}
  Definitions = {first, revised}
  LastTime = 2
  None = None
  Free = Free
  MaxCalls = 3
  MaxFaults = 1
INVARIANTS
  StoreLoads
PROPERTIES
  RegisterRefined
  CallsEnd
