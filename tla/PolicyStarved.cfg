\* Two policies, one measured while the other is deferred or refused; nothing fails.
SPECIFICATION FairSpec
CONSTANTS
  Experiments = {1, 2}
  Designs <- TwoDesigns
  MaxScan = 2
  SkipExpired = TRUE
  Base <- OpenConfig
  Device <- SecondSlot
  MaxTime = 5
  MaxRuns = 3
  MaxEdits = 0
  MaxStops = 0
INVARIANTS
  NotModifiedIsReusable
