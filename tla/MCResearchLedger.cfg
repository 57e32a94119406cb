SPECIFICATION Spec
CONSTANTS
  p1 = p1
  p2 = p2
  r1 = r1
  r2 = r2
  Processes <- TwoProcesses
  Requests <- TwoRequests
  ModeOf <- OneOfEach
  Blockers = {missing}
  Clear = Clear
  Free = Free
  Orphan = Orphan
  Past = {1}
  LastTime = 4
  MaxFaults = 2
INVARIANTS
  TypeOK
  OneWriter
  AckedRunsSurvive
  LedgersBacked
  CurrentRecorded
  AssemblesLatestReady
PROPERTIES
  CallsEnd
