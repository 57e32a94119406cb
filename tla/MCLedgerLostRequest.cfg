SPECIFICATION Spec
CONSTANTS
  p1 = p1
  p2 = p2
  r1 = r1
  r2 = r2
  Processes <- TwoProcesses
  Requests <- TwoRequests
  ModeOf <- OneOfEach
  Blockers = {missing}
  Clear = Clear
  Free = Free
  Orphan = Orphan
  Past = {1}
  LastTime = 3
  MaxFaults = 0
INVARIANTS
  AckedRequestsSurvive
