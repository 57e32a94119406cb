SPECIFICATION ReconcilingSpec
CONSTANTS
  Processes <- Rivals
  Runs <- TwoRuns
  NoRun = NoRun
  RunOf <- RunOfRivals
  LastDate = 2
  MaxCrashes = 2
  MaxDamage = 1
INVARIANTS
  IdentityAccepted
  AccountExplained
  ResumesRecorded
  VerdictJustified
  CompleteHistoryDecides
  
