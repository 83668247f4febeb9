\* A policy executed once, and one executed twice at most with an interval.
SPECIFICATION Spec
CONSTANTS
  Policies <- AnyPolicy
  MaxTime = 3
  MaxStarts = 3
  MaxCount = 3
  Faults = {"crash", "disk", "upload", "net", "gate"}
  MaxFaults = 2
INVARIANTS
  TypeOK
  IndexMatchesDisk
  StartsNeedCrashes
  CountMissesOnlyCrashes
PROPERTIES
  RunsKeepInterval
