SPECIFICATION Spec
CONSTANTS
  candidate = candidate
  set = set
  Names <- BothPointers
  Shapes <- CandidatesThenSet
  Blank = Blank
  Absent = Absent
  MaxRounds = 2
  MaxDirect = 2
  MaxFaults = 2
  MaxCrashes = 2
INVARIANTS
  PointersKept
  SinglePublicationUndone
PROPERTIES
  OwnVersionOnly
