\* Two experiments, three designs, a change and a restart.
SPECIFICATION FairSpec
CONSTANTS
  Experiments = {1, 2}
  Designs <- AllDesigns
  MaxScan = 2
  SkipExpired = TRUE
  Base <- OpenConfig
  Device <- SecondSlot
  MaxTime = 5
  MaxRuns = 2
  MaxEdits = 1
  MaxStops = 1
INVARIANTS
  TypeOK
  RunsWhatWasSelected
  OnceIsOnce
PROPERTIES
  OwnWindowRespected
  SpoolDrains
CHECK_DEADLOCK FALSE
