SPECIFICATION FaultFreeSpec
CONSTANTS
  Processes <- Pair
  Runs <- OneRun
  NoRun = NoRun
  RunOf <- SameRun
  LastDate = 3
  MaxCrashes = 0
  MaxDamage = 0
INVARIANTS
  TypeOK
  TablesAgree
PROPERTIES
  JournalKept
