\* A recurring policy, at most two runs, without any fault.
SPECIFICATION Spec
CONSTANTS
  Policies <- WithoutPause
  MaxTime = 3
  MaxStarts = 2
  MaxCount = 6
  Faults = {}
  MaxFaults = 0
INVARIANTS
  ExhaustedAfterMaxRuns
